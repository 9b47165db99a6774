------------------------------- MODULE Window -------------------------------
(* Three components at work: the driver of mouse and keyboard (srvs/ps2),    *)
(* which turns an interrupt into a request to the window server              *)
(* (srvs/window), which marks what has to be drawn and forwards the event to *)
(* the application (libs/embed/brutal/win.c) that has a window there.  What  *)
(* is drawn is a flag, and whether the mouse is over the window is open.     *)
EXTENDS Component

CONSTANTS
    wm, app, ps2,    \* the processes
    Devices,         \* "mouse" and "keyboard", also the operation they ask for
    MaxPackets       \* [Devices -> Nat], bounds on what they send

VARIABLES
    client,          \* the window exists; handle is where its events go
    handle,          \* the capability set by listen, or Nil
    dirty,           \* display_dirty is not empty
    armed,           \* the devices whose event is acknowledged
    packets          \* [Devices -> Nat], packets so far

windowVars == <<client, handle, dirty, armed, packets>>

-----------------------------------------------------------------------------

\* What a program with a window asks the server for.
embed_win_init == <<"create", "surface", "listen">>
ui_win_show == <<"show", "flip">>

\* The requests of the server before it waits for messages: the surface of the
\* display and two capabilities exposed.
wm_requests == 3

\* Fibers are entered in the order in which they were started; the server has
\* had one response already (that of hw_display_surface).
WindowInit ==
    LET main == fiber("main", 1, "RUNNING")
        new == fiber("dispatcher", 0, "IDLE")
        used == fiber("dispatcher", 1, "IDLE")
        render == fiber("render", 0, "RUNNING")
    IN  /\ proc = [p \in Proc |-> IF p = wm THEN component(<<main, used, render>>, wm_requests)
                                  ELSE component(<<main, new>>, 0)]
        /\ chan = [p \in Proc |-> <<>>]
        /\ lost = FALSE
        /\ client = FALSE /\ handle = Nil /\ dirty = FALSE
        /\ armed = Devices /\ packets = [d \in Devices |-> 0]

\* The main fiber of the application makes its requests and waits; the others
\* wait at once.
main_step(p) ==
    \E P \in {resumed(proc[p])}, calls \in {IF p = app THEN embed_win_init \o ui_win_show ELSE <<>>} :
        /\ at(p, "main")
        /\ IF current(p).pc <= Len(calls)
           THEN ipc_component_request(p, P, wm, calls[current(p).pc])
           ELSE ipc_component_run(p, P)
        /\ UNCHANGED windowVars

\* wm_render_fiber: the marks are drawn and cleared, then it sleeps.
wm_render_fiber ==
    /\ at(wm, "render")
    /\ dirty' = FALSE
    /\ proc' = [proc EXCEPT ![wm] = fiber_block([resumed(@) EXCEPT !.ring[1].pc = 1], Sleep(FALSE))]
    /\ UNCHANGED <<chan, lost, client, handle, armed, packets>>

\* The deadline of the render fiber passes.
tick_now ==
    /\ \E i \in DOMAIN proc[wm].ring :
          /\ proc[wm].ring[i].state = "BLOCKED" /\ proc[wm].ring[i].wait = Sleep(FALSE)
          /\ proc' = [proc EXCEPT ![wm].ring[i].wait = Sleep(TRUE)]
    /\ UNCHANGED <<chan, lost, windowVars>>

\* The handlers of the server that answer at once.
wm_handler ==
    /\ at(wm, "handler")
    /\ \E P \in {resumed(proc[wm])} : LET op == P.ring[1].msg.op IN
        /\ op \notin Devices
        /\ client' = (client \/ op = "create")
        /\ handle' = IF op = "listen" THEN app ELSE handle
        /\ dirty' = (dirty \/ op \in {"show", "flip"})
        /\ ipc_component_respond(wm, P)
        /\ UNCHANGED <<armed, packets>>

\* wm_server_dispatch: a moving cursor is marked, and if there is a window below it
\* the event goes on to the application.
wm_server_dispatch(below) ==
    /\ at(wm, "handler")
    /\ \E P \in {resumed(proc[wm])} :
        /\ P.ring[1].msg.op \in Devices
        /\ dirty' = (dirty \/ (P.ring[1].pc = 0 /\ P.ring[1].msg.op = "mouse"))
        /\ IF P.ring[1].pc = 0 /\ client /\ below
           THEN ipc_component_request(wm, P, handle, P.ring[1].msg.op)
           ELSE ipc_component_respond(wm, P)
    /\ UNCHANGED <<client, handle, armed, packets>>

\* input_sink_dispatch_handler of the application, whose views may be drawn anew.
app_handler(redraw) ==
    /\ at(app, "handler")
    /\ \E P \in {resumed(proc[app])} :
        IF P.ring[1].pc = 0 /\ redraw THEN ipc_component_request(app, P, wm, "flip")
        ELSE ipc_component_respond(app, P)
    /\ UNCHANGED windowVars

\* Mutant: the event is acknowledged before what was read is passed on.
acks_first(packet) == TRUE

\* The handler of an interrupt acknowledges the event when there is no more to
\* read.
acks(packet) == ~packet

\* Module Ps2 has the bytes and packets; here the handler finds a packet to
\* pass on or it is done.
ps2_interrupt_handle(packet) ==
    /\ at(ps2, "handler")
    /\ \E P \in {resumed(proc[ps2])} : LET d == P.ring[1].msg.op IN
        /\ IF packet
           THEN /\ packets[d] < MaxPackets[d]
                /\ packets' = [packets EXCEPT ![d] = @ + 1]
                /\ ipc_component_request(ps2, P, wm, d)
           ELSE ipc_component_respond(ps2, P) /\ UNCHANGED packets
        /\ armed' = IF acks(packet) THEN armed \union {d} ELSE armed
        /\ UNCHANGED <<client, handle, dirty>>

\* event_trigger, for a binding that is armed.
interrupt(d) ==
    /\ d \in armed /\ Len(chan[ps2]) < IPC_CHANNEL_SIZE
    /\ chan' = [chan EXCEPT ![ps2] =
           Append(@, [kind |-> "event", op |-> d, from |-> "event", seq |-> 0])]
    /\ armed' = armed \ {d}
    /\ UNCHANGED <<proc, lost, client, handle, dirty, packets>>

pump(p) == ipc_component_pump(p) /\ UNCHANGED windowVars

Run(p) ==
    /\ ~asserts(p)
    /\ \/ pump(p)
       \/ main_step(p)
       \/ p = wm /\ (wm_render_fiber \/ wm_handler)
       \/ \E choice \in BOOLEAN :
            \/ p = wm /\ wm_server_dispatch(choice)
            \/ p = app /\ app_handler(choice)
            \/ p = ps2 /\ ps2_interrupt_handle(choice)

WindowNext == (\E p \in Proc : Run(p)) \/ tick_now \/ (\E d \in Devices : interrupt(d))

\* The kernel runs every process that can go on, and time passes.
WindowFairness ==
    /\ \A p \in Proc : WF_<<componentVars, windowVars>>(Run(p))
    /\ WF_<<componentVars, windowVars>>(tick_now)

-----------------------------------------------------------------------------

\* The packets of a device are put together by one handler at a time (mouse.c:
\* 78-130): while one waits for the window server, no second handler of the
\* same event is started on the half-read state of the driver.
OneHandlerPerDevice ==
    \A d \in Devices :
        Cardinality({i \in DOMAIN proc[ps2].ring : LET f == proc[ps2].ring[i] IN
            f.job = "handler" /\ f.own.op = d /\ f.state # "CANCELED"}) <= 1

\* What is marked is drawn (server.c:42-57), unless an assertion ends the server:
\* the render fiber is woken by its deadline even if no message comes, and is
\* not passed over for ever.
DirtyIsRendered == dirty ~> (~dirty \/ asserts(wm))

\* An interrupt is acknowledged once its event has gone through the server and
\* the application (mouse.c:129), unless a message on the way was lost: sent to
\* a full channel or to nobody, or taken for the response to another request.
\* Without that, nobody waits for somebody who waits for them.
InputIsAcknowledged == \A d \in Devices : d \notin armed ~> (d \in armed \/ lost)
=============================================================================
