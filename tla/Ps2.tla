-------------------------------- MODULE Ps2 ---------------------------------
(* The drivers of the PS/2 keyboard and mouse (libs/hw/ps2, srvs/ps2).  The  *)
(* two devices share one output buffer of one byte.  A byte in it raises the *)
(* interrupt of its device; the handler, a fiber of the server, reads as     *)
(* long as the buffer has a byte of its device, decodes, calls the window    *)
(* server for every event (and so lets the other fiber run), and then        *)
(* acknowledges the event, which arms the interrupt again.                   *)
EXTENDS Integers, Sequences, SequencesExt

CONSTANTS
    Nothing,     \* no byte, nobody
    Keys,        \* keys pressed or released: [key, up], key < 256
    Moves,       \* movements of the mouse: [buttons, x, y, scroll]
    MaxInputs    \* bound: the inputs of each device

VARIABLES
    wire,        \* the bytes each device has still to send
    out,         \* the output buffer: [dev, byte]
    irq,         \* per device, whether its event is armed in the kernel
    fiber,       \* per device, where its handler is
    running,     \* the fiber that runs
    mouse,       \* Ps2Mouse: [buf, wheel, prev]; cycle is the length of buf
    kb_escaped,  \* Ps2Keyboard.kb_escaped
    inputs,      \* history: the inputs of each device
    events,      \* history: the events sent to the window server
    unseen       \* history: a byte came behind the last look of its handler

ps2Vars == <<wire, out, irq, fiber, running, mouse, kb_escaped, inputs, events, unseen>>

Kb == "keyboard"
Mouse == "mouse"
Port == {Kb, Mouse}

PS2_KEYBOARD_ESCAPED == 224

bit(byte, n) == (byte \div 2^n) % 2

\* A packet has the right button in bit 1 and the middle one in bit 2; MSBTN_RIGHT
\* and MSBTN_MIDDLE are the other way round.
swapped(b) == bit(b, 0) + 2 * bit(b, 2) + 4 * bit(b, 1)

-----------------------------------------------------------------------------
(* The devices (hardware): the bytes that they send.                         *)

key_bytes(k) ==
    LET code == (k.key % 128) + (IF k.up THEN 128 ELSE 0)
    IN  IF k.key >= 128 THEN <<PS2_KEYBOARD_ESCAPED, code>> ELSE <<code>>

\* Two's complement in nine bits, whose sign is in the first byte.
move_bytes(m, wheel) ==
    LET sign(n, b) == IF n < 0 THEN 2^b ELSE 0
    IN  <<swapped(m.buttons) + 8 + sign(m.x, 4) + sign(m.y, 5), m.x % 256, m.y % 256>>
        \o (IF wheel THEN <<m.scroll % 256>> ELSE <<>>)

-----------------------------------------------------------------------------
(* Decoding.                                                                 *)

\* kb_escaped after a byte.
escaped(byte) == ~kb_escaped /\ byte = PS2_KEYBOARD_ESCAPED

\* ps2_keyboard_handle_code: the event, unless the byte is a prefix.
ps2_keyboard_handle_code(byte) ==
    IF escaped(byte) THEN <<>>
    ELSE <<[key |-> (byte % 128) + (IF kb_escaped THEN 128 ELSE 0), up |-> bit(byte, 7) = 1]>>

\* Whether a movement is told from none by the event before it, as in the code.
ps2_mouse_event_type(prev, next) ==
    CASE next.buttons > prev.buttons -> "UI_EVENT_MOUSE_DOWN"
      [] next.buttons < prev.buttons -> "UI_EVENT_MOUSE_UP"
      [] next.buttons = prev.buttons /\ (prev.x # 0 \/ prev.y # 0) -> "UI_EVENT_MOUSE_MOVE"
      [] next.buttons = prev.buttons /\ prev.x = 0 /\ prev.y = 0 /\ prev.scroll # 0 ->
            "UI_EVENT_MOUSE_SCROLL"
      [] OTHER -> "UI_EVENT_IGNORE"

\* The movement in a packet; y grows downwards.
ps2_mouse_handle_packed(buf) ==
    LET signed(n, b) == IF n # 0 /\ bit(buf[1], b) = 1 THEN n - 256 ELSE n
        int8(n) == IF n >= 128 THEN n - 256 ELSE n
    IN  [buttons |-> swapped(buf[1]), x |-> signed(buf[2], 4), y |-> -signed(buf[3], 5),
         scroll |-> IF mouse.wheel THEN int8(buf[4]) ELSE 0]

packet_size == IF mouse.wheel THEN 4 ELSE 3

\* The packet with one more byte: the first one has bit 3 set.
ps2_mouse_handle_packet(byte) ==
    IF mouse.buf = <<>> /\ bit(byte, 3) = 0 THEN <<>> ELSE Append(mouse.buf, byte)

-----------------------------------------------------------------------------
(* The interrupt handlers.                                                   *)

\* Mutant: whatever byte is in the buffer.
readable_any(dev) == out # Nothing

\* PS2_OUTPUT_STATUS_FULL and bit 5 of the status, which tells the device.
readable(dev) == out # Nothing /\ out.dev = dev

start(dev) ==
    /\ fiber[dev] = "queued" /\ running = Nothing
    /\ fiber' = [fiber EXCEPT ![dev] = "loop"] /\ running' = dev
    /\ UNCHANGED <<wire, out, irq, mouse, kb_escaped, inputs, events, unseen>>

\* The fiber waits in the callback for the answer of the window server.
callback(dev, event) ==
    /\ events' = [events EXCEPT ![dev] = Append(@, event)]
    /\ fiber' = [fiber EXCEPT ![dev] = "callback"] /\ running' = Nothing

no_event == UNCHANGED <<events, fiber, running>>

ps2_keyboard_read ==
    /\ running = Kb /\ fiber[Kb] = "loop" /\ readable(Kb)
    /\ out' = Nothing
    /\ kb_escaped' = escaped(out.byte)
    /\ LET decoded == ps2_keyboard_handle_code(out.byte)
       IN  IF decoded = <<>> THEN no_event ELSE callback(Kb, decoded[1])
    /\ UNCHANGED <<wire, irq, mouse, inputs, unseen>>

\* The cycle starts again before the callback, prev is set behind it.
ps2_mouse_read ==
    /\ running = Mouse /\ fiber[Mouse] = "loop" /\ readable(Mouse)
    /\ out' = Nothing
    /\ LET buf == ps2_mouse_handle_packet(out.byte)
           next == ps2_mouse_handle_packed(buf)
       IN  IF Len(buf) < packet_size
           THEN mouse' = [mouse EXCEPT !.buf = buf] /\ no_event
           ELSE /\ mouse' = [mouse EXCEPT !.buf = <<>>]
                /\ callback(Mouse, [type |-> ps2_mouse_event_type(mouse.prev, next), move |-> next])
    /\ UNCHANGED <<wire, irq, kb_escaped, inputs, unseen>>

\* The answer of the window server.
callback_returns(dev) ==
    /\ fiber[dev] = "callback" /\ running = Nothing
    /\ fiber' = [fiber EXCEPT ![dev] = "loop"] /\ running' = dev
    /\ mouse' = IF dev = Mouse THEN [mouse EXCEPT !.prev = Last(events[Mouse]).move] ELSE mouse
    /\ UNCHANGED <<wire, out, irq, kb_escaped, inputs, events, unseen>>

\* The last look at the status, which ends the loop.
leave(dev) ==
    /\ running = dev /\ fiber[dev] = "loop" /\ ~readable(dev)
    /\ fiber' = [fiber EXCEPT ![dev] = "ack"]
    /\ UNCHANGED <<wire, out, irq, running, mouse, kb_escaped, inputs, events, unseen>>

\* Mutant: the handler ends without br_ack.
br_ack_never(dev) ==
    /\ running = dev /\ fiber[dev] = "ack"
    /\ fiber' = [fiber EXCEPT ![dev] = "idle"] /\ running' = Nothing
    /\ UNCHANGED <<irq, wire, out, mouse, kb_escaped, inputs, events, unseen>>

br_ack(dev) ==
    /\ running = dev /\ fiber[dev] = "ack"
    /\ irq' = [irq EXCEPT ![dev] = TRUE]
    /\ fiber' = [fiber EXCEPT ![dev] = "idle"] /\ running' = Nothing
    /\ UNCHANGED <<wire, out, mouse, kb_escaped, inputs, events, unseen>>

-----------------------------------------------------------------------------

at_rest == [buttons |-> 0, x |-> 0, y |-> 0, scroll |-> 0]

\* The server is ready, its buffer flushed and both events bound.
Ps2Init ==
    /\ wire = [dev \in Port |-> <<>>] /\ out = Nothing
    /\ irq = [dev \in Port |-> TRUE]
    /\ fiber = [dev \in Port |-> "idle"] /\ running = Nothing
    /\ \E wheel \in BOOLEAN :
          mouse = [buf |-> <<>>, wheel |-> wheel, prev |-> at_rest]
    /\ kb_escaped = FALSE
    /\ inputs = [dev \in Port |-> <<>>] /\ events = [dev \in Port |-> <<>>] /\ unseen = FALSE

input(dev, bytes, value) ==
    /\ Len(inputs[dev]) < MaxInputs
    /\ inputs' = [inputs EXCEPT ![dev] = Append(@, value)]
    /\ wire' = [wire EXCEPT ![dev] = @ \o bytes]
    /\ UNCHANGED <<out, irq, fiber, running, mouse, kb_escaped, events, unseen>>

\* A byte enters the buffer.  The kernel sends an event that is armed, and
\* drops another one.
interrupt(dev) ==
    /\ out = Nothing /\ wire[dev] # <<>>
    /\ out' = [dev |-> dev, byte |-> Head(wire[dev])]
    /\ wire' = [wire EXCEPT ![dev] = Tail(@)]
    /\ fiber' = IF irq[dev] THEN [fiber EXCEPT ![dev] = "queued"] ELSE fiber
    /\ irq' = [irq EXCEPT ![dev] = FALSE]
    /\ unseen' = (unseen \/ fiber[dev] = "ack")
    /\ UNCHANGED <<running, mouse, kb_escaped, inputs, events>>

Ps2Next ==
    \/ \E k \in Keys : input(Kb, key_bytes(k), k)
    \/ \E m \in Moves : input(Mouse, move_bytes(m, mouse.wheel), m)
    \/ \E dev \in Port : interrupt(dev) \/ start(dev) \/ callback_returns(dev) \/ leave(dev) \/ br_ack(dev)
    \/ ps2_keyboard_read \/ ps2_mouse_read

Ps2Spec == Ps2Init /\ [][Ps2Next]_ps2Vars

-----------------------------------------------------------------------------

\* The event for the n-th movement, with the one before it.
moved(n) == LET m == inputs[Mouse][n]
            IN  [m EXCEPT !.y = -@, !.scroll = IF mouse.wheel THEN @ ELSE 0]

\* What the window server is told is what was typed and how the mouse was
\* moved, in order: though the devices share the buffer and each handler stops
\* in its callback for the other one to run, no byte is read by the wrong
\* handler and no packet is torn or taken against a stale predecessor
\* (keyboard.c:5-52, mouse.c:30-130).
DecodesInput ==
    /\ IsPrefix(events[Kb], inputs[Kb])
    /\ Len(events[Mouse]) <= Len(inputs[Mouse])
    /\ \A n \in DOMAIN events[Mouse] :
          events[Mouse][n] =
              [type |-> ps2_mouse_event_type(IF n = 1 THEN at_rest ELSE moved(n - 1), moved(n)),
               move |-> moved(n)]

\* A byte in the buffer has a handler that will read it, unless it came
\* between the last look of its handler and br_ack (keyboard.c:43-51,
\* mouse.c:120-129).  That byte stays, as its interrupt was dropped, and with
\* it in the buffer neither device is heard again.
ByteIsAwaited == out # Nothing /\ fiber[out.dev] = "idle" => unseen
=============================================================================
