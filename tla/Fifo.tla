-------------------------------- MODULE Fifo --------------------------------
(***************************************************************************)
(* What a ring promises its users: a queue of at most Capacity elements.   *)
(* A push is refused exactly when the queue is full, a pop exactly when it *)
(* is empty, elements come out once each and in the order they went in.    *)
(***************************************************************************)
EXTENDS Naturals, Sequences

CONSTANTS Capacity, Data, None

VARIABLES queue,   \* the elements, oldest first
          ret      \* what the last operation returned

vars == <<queue, ret>>

Init == queue = <<>> /\ ret = None

Push(d) ==
  /\ Len(queue) < Capacity
  /\ queue' = Append(queue, d)
  /\ ret' = TRUE

PushRefused ==
  /\ Len(queue) = Capacity
  /\ ret' = FALSE
  /\ UNCHANGED queue

Pop ==
  /\ queue # <<>>
  /\ queue' = Tail(queue)
  /\ ret' = Head(queue)

PopRefused ==
  /\ queue = <<>>
  /\ ret' = FALSE
  /\ UNCHANGED queue

Clear == queue' = <<>> /\ ret' = None

Next ==
  \/ \E d \in Data : Push(d)
  \/ PushRefused
  \/ Pop
  \/ PopRefused
  \/ Clear

Spec == Init /\ [][Next]_vars
=============================================================================
