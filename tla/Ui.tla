--------------------------------- MODULE Ui ---------------------------------
(* The views of a window (libs/brutal-ui): a tree of counted references in   *)
(* which the window also keeps the view under the mouse and the one with the *)
(* focus, the events that move these, and the buttons that follow them.      *)
(*                                                                           *)
(* A point of the window is the deepest view of the tree that lies under it. *)
EXTENDS Integers, FiniteSets

CONSTANTS
    Views,       \* what the program may create
    Buttons,     \* the views of them that are buttons, which are GREEDY
    NoView       \* nullptr

VARIABLES
    alive,       \* the views that are allocated
    refcount,    \* UiView.refcount
    parent,      \* UiView.parent; the children of a view are those with it as parent
    win,         \* UiWin: [root, overing, focus, grabbed]
    over,        \* UiButton.over, the buttons for which it is set
    press        \* UiButton.press

uiVars == <<alive, refcount, parent, win, over, press>>

UiInit ==
    /\ alive = {}
    /\ refcount = [v \in Views |-> 0] /\ parent = [v \in Views |-> NoView]
    /\ win = [root |-> NoView, overing |-> NoView, focus |-> NoView, grabbed |-> FALSE]
    /\ over = {} /\ press = {}

children(v) == {c \in alive : parent[c] = v}

\* The view and the views it lies in.
ancestors[v \in Views] ==
    {v} \union (IF parent[v] = NoView THEN {} ELSE ancestors[parent[v]])

mounted(v) == parent[v] # NoView \/ win.root = v

\* The program has no reference of its own: it uses views that it has just
\* created, and views that are mounted.
usable(v) == v \in alive /\ (mounted(v) \/ refcount[v] = 0)

-----------------------------------------------------------------------------
(* References.  The counts of a step are the counts before it, one more for  *)
(* each view in refs and one less for each in derefs; a view that is counted *)
(* down to zero is freed.                                                    *)

one(v, S) == IF v \in S THEN 1 ELSE 0

counted(refs, derefs) ==
    /\ refcount' = [v \in Views |-> refcount[v] + one(v, refs) - one(v, derefs)]
    /\ alive' = alive \ {v \in derefs : refcount[v] + one(v, refs) - 1 <= 0}

ui_view_create(v) ==
    /\ v \notin alive
    /\ alive' = alive \union {v} /\ refcount' = [refcount EXCEPT ![v] = 0]
    /\ parent' = [parent EXCEPT ![v] = NoView]
    /\ over' = over \ {v} /\ press' = press \ {v}
    /\ UNCHANGED win

ui_view_mount(v, child) ==
    /\ usable(v) /\ usable(child) /\ ~mounted(child) /\ child \notin ancestors[v]
    /\ counted({child}, {})
    /\ parent' = [parent EXCEPT ![child] = v]
    /\ UNCHANGED <<win, over, press>>

\* ui_view_deref leaves the children of a view that it frees mounted to it: the
\* program unmounts views without children.
ui_view_umount(child) ==
    /\ child \in alive /\ parent[child] # NoView /\ children(child) = {}
    /\ counted({}, {child})
    /\ parent' = [parent EXCEPT ![child] = NoView]
    /\ UNCHANGED <<win, over, press>>

\* A window without a root is what nullptr leaves.
ui_win_mount(v) ==
    /\ v # NoView => usable(v) /\ ~mounted(v)
    /\ win.root # NoView => children(win.root) = {}
    /\ counted({v} \ {NoView}, {win.root} \ {NoView})
    /\ win' = [win EXCEPT !.root = v]
    /\ UNCHANGED <<parent, over, press>>

-----------------------------------------------------------------------------
(* Events.                                                                   *)

\* ui_view_dispatch: the event goes up from view v to the first button, which
\* captures it.
captures(v) ==
    IF v = NoView THEN {}
    ELSE {b \in ancestors[v] \cap Buttons : ancestors[v] \cap Buttons \subseteq ancestors[b]}

\* ui_view_lookup: down from the root to the point, or to a greedy view.
ui_view_lookup(point) ==
    LET greedy == ancestors[point] \cap Buttons
    IN  IF greedy = {} THEN point ELSE CHOOSE b \in greedy : ancestors[b] \cap Buttons = {b}

points == {v \in alive : win.root \in ancestors[v]}

\* ui_button_event, for a flag that is set for the buttons in S: UI_EVENT_ENTER
\* and MOUSE_DOWN set it, UI_EVENT_LEAVE and MOUSE_UP clear it.
flag_set(S, v) == S \union captures(v)
flag_cleared(S, v) == S \ captures(v)

\* Mutant: the view that is left is not told.
left_untold(w) == over

\* UI_EVENT_LEAVE for the view that the mouse leaves.
left(w) == flag_cleared(over, w.overing)

\* The window with the view under the mouse brought up to date, from window w.
ui_win_update_overing(w, point) ==
    LET v == ui_view_lookup(point)
    IN  IF v = w.overing
        THEN win' = w /\ UNCHANGED <<alive, refcount, over>>
        ELSE /\ win' = [w EXCEPT !.overing = v]
             /\ over' = flag_set(left(w), v)
             /\ counted({v}, {w.overing} \ {NoView})

unchanged_tree == UNCHANGED <<alive, refcount, over>>

\* The point matters only while the mouse is not grabbed; a window without a
\* root has no view under the mouse.
ui_win_handle_mouse_move ==
    /\ IF win.grabbed \/ win.root = NoView THEN UNCHANGED win /\ unchanged_tree
       ELSE \E point \in points : ui_win_update_overing(win, point)
    /\ UNCHANGED <<parent, press>>

released == [win EXCEPT !.grabbed = FALSE]

ui_win_handle_mouse_up ==
    /\ press' = flag_cleared(press, win.overing)
    /\ IF win.root = NoView THEN win' = released /\ unchanged_tree
       ELSE \E point \in points : ui_win_update_overing(released, point)
    /\ UNCHANGED parent

\* The view that loses the focus.
unfocused == IF win.focus = win.overing THEN {} ELSE {win.focus} \ {NoView}

ui_win_handle_mouse_down ==
    /\ counted(IF win.focus = win.overing THEN {} ELSE {win.overing} \ {NoView}, unfocused)
    /\ win' = [win EXCEPT !.focus = win.overing, !.grabbed = TRUE]
    /\ press' = flag_set(press, win.overing)
    /\ UNCHANGED <<parent, over>>

UiNext ==
    \/ \E v \in Views : ui_view_create(v) \/ ui_view_umount(v)
    \/ \E v \in Views \union {NoView} : ui_win_mount(v)
    \/ \E v, child \in Views : ui_view_mount(v, child)
    \/ ui_win_handle_mouse_move \/ ui_win_handle_mouse_up \/ ui_win_handle_mouse_down

-----------------------------------------------------------------------------

holders(v) ==
    one(v, {win.root}) + one(v, {win.overing}) + one(v, {win.focus}) + one(parent[v], Views)

\* A view is counted once for its parent, the window, the mouse and the focus,
\* so that none is freed while one of them has it; a button is lit exactly
\* while the mouse is over it, and pressed only while the mouse is grabbed
\* there; and a key always finds a view (view.c:16-72, win.c:183-284,
\* button.c:32-63).
ViewsFollowMouse ==
    /\ {win.root, win.overing, win.focus} \subseteq alive \union {NoView}
    /\ \A v \in alive : refcount[v] = holders(v) /\ parent[v] \in alive \union {NoView}
    /\ over = {win.overing} \cap Buttons
    /\ press \subseteq (IF win.grabbed THEN {win.overing} ELSE {})
    /\ win.focus # NoView => win.overing # NoView
=============================================================================
