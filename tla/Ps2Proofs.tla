----------------------------- MODULE Ps2Proofs ------------------------------
(* No byte is left behind in the shared output buffer, but for the one that  *)
(* comes between the last look and br_ack: for all keys and movements and    *)
(* any number of them.                                                       *)
EXTENDS Ps2, TLAPS

Places == {"idle", "queued", "loop", "callback", "ack"}

Typed ==
  /\ fiber \in [Port -> Places]
  /\ irq \in [Port -> BOOLEAN]
  /\ unseen \in BOOLEAN
  /\ out # Nothing => out.dev \in Port

\* An event is armed exactly while its handler is idle: the kernel disarms it
\* when it sends it, and br_ack arms it as the last thing a handler does.
ArmedIsIdle == \A d \in Port : irq[d] = TRUE <=> fiber[d] = "idle"

\* A handler that has looked for the last time has left no byte, or one that
\* came after the look.
LookedIsUnseen == out # Nothing /\ fiber[out.dev] \in {"ack", "idle"} => unseen = TRUE

IInv == Typed /\ ArmedIsIdle /\ LookedIsUnseen
-----------------------------------------------------------------------------
LEMMA Initially == Ps2Init => IInv
BY DEF Ps2Init, IInv, Typed, ArmedIsIdle, LookedIsUnseen, Places, Port

\* A step that leaves the buffer, the events and unseen alone and moves one
\* handler between places of work.
LEMMA WorkKeeps ==
  ASSUME IInv, NEW d \in Port, NEW to \in {"loop", "callback"},
         fiber[d] # "idle", fiber' = [fiber EXCEPT ![d] = to],
         out' = out \/ out' = Nothing, irq' = irq, unseen' = unseen
  PROVE  IInv'
<1>1. \A e \in Port : fiber'[e] = IF e = d THEN to ELSE fiber[e]
  BY DEF IInv, Typed
<1>2. Typed'
  BY DEF IInv, Typed, Places
<1>3. ArmedIsIdle'
  BY <1>1 DEF IInv, ArmedIsIdle
<1>4. LookedIsUnseen'
  BY <1>1 DEF IInv, Typed, LookedIsUnseen
<1> QED BY <1>2, <1>3, <1>4 DEF IInv

LEMMA IdleKeeps ==
  ASSUME IInv, out' = out \/ out' = Nothing, UNCHANGED <<fiber, irq, unseen>>
  PROVE  IInv'
BY DEF IInv, Typed, ArmedIsIdle, LookedIsUnseen

LEMMA InterruptKeeps ==
  ASSUME IInv, NEW d \in Port, interrupt(d)
  PROVE  IInv'
<1>1. /\ fiber' = IF irq[d] THEN [fiber EXCEPT ![d] = "queued"] ELSE fiber
      /\ irq' = [irq EXCEPT ![d] = FALSE]
      /\ out'.dev = d
      /\ unseen' = (unseen \/ fiber[d] = "ack")
  BY DEF interrupt
<1>2. Typed'
  <2>1. fiber' \in [Port -> Places] /\ irq' \in [Port -> BOOLEAN]
    BY <1>1 DEF IInv, Typed, Places
  <2>2. unseen' \in BOOLEAN
    BY <1>1
  <2> QED BY <1>1, <2>1, <2>2 DEF Typed
<1>3. ArmedIsIdle'
  BY <1>1 DEF IInv, Typed, ArmedIsIdle
<1>4. fiber'[d] = "ack" => fiber[d] = "ack"
  BY <1>1 DEF IInv, Typed
<1>5. fiber'[d] # "idle"
  BY <1>1 DEF IInv, Typed, ArmedIsIdle
<1>6. LookedIsUnseen'
  <2>1. fiber[d] = "ack" => unseen' = TRUE
    BY <1>1, Zenon
  <2> QED BY <1>1, <1>4, <1>5, <2>1 DEF LookedIsUnseen
<1> QED BY <1>2, <1>3, <1>6 DEF IInv

LEMMA LeaveKeeps ==
  ASSUME IInv, NEW d \in Port, leave(d)
  PROVE  IInv'
BY DEF leave, readable, IInv, Typed, ArmedIsIdle, LookedIsUnseen, Places

LEMMA AckKeeps ==
  ASSUME IInv, NEW d \in Port, br_ack(d)
  PROVE  IInv'
BY DEF br_ack, IInv, Typed, ArmedIsIdle, LookedIsUnseen, Places

LEMMA ReadKeeps ==
  ASSUME IInv, ps2_keyboard_read \/ ps2_mouse_read
  PROVE  IInv'
<1>1. out' = Nothing /\ irq' = irq /\ unseen' = unseen
  BY DEF ps2_keyboard_read, ps2_mouse_read
<1>2. \/ fiber' = fiber
      \/ \E d \in Port : fiber[d] = "loop" /\ fiber' = [fiber EXCEPT ![d] = "callback"]
  BY DEF ps2_keyboard_read, ps2_mouse_read, callback, no_event, Port
<1>3. CASE fiber' = fiber
  BY <1>1, <1>3, IdleKeeps
<1>4. CASE \E d \in Port : fiber[d] = "loop" /\ fiber' = [fiber EXCEPT ![d] = "callback"]
  BY <1>1, <1>4, WorkKeeps
<1> QED BY <1>2, <1>3, <1>4

LEMMA Inductive == IInv /\ [Ps2Next]_ps2Vars => IInv'
<1> SUFFICES ASSUME IInv, [Ps2Next]_ps2Vars PROVE IInv'
  OBVIOUS
<1>1. ASSUME NEW k \in Keys, input(Kb, key_bytes(k), k) PROVE IInv'
  BY <1>1, IdleKeeps DEF input
<1>2. ASSUME NEW m \in Moves, input(Mouse, move_bytes(m, mouse.wheel), m) PROVE IInv'
  BY <1>2, IdleKeeps DEF input
<1>3. ASSUME NEW d \in Port, start(d) \/ callback_returns(d) PROVE IInv'
  BY <1>3, WorkKeeps DEF start, callback_returns
<1>4. CASE UNCHANGED ps2Vars
  BY <1>4, IdleKeeps DEF ps2Vars
<1> QED BY <1>1, <1>2, <1>3, <1>4, InterruptKeeps, LeaveKeeps, AckKeeps, ReadKeeps DEF Ps2Next

\* A byte in the output buffer has a handler that will read it, unless it came
\* between the last look of its handler and br_ack (keyboard.c:43-51,
\* mouse.c:120-129), however the two devices and their handlers interleave.
THEOREM Ps2Safe == Ps2Spec => []ByteIsAwaited
<1>1. IInv => ByteIsAwaited
  BY DEF IInv, LookedIsUnseen, ByteIsAwaited
<1> QED BY <1>1, Initially, Inductive, PTL DEF Ps2Spec
=============================================================================
