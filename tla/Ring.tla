-------------------------------- MODULE Ring --------------------------------
(***************************************************************************)
(* The ring buffer of libs/brutal-ds/ring.c, which holds the parcels of a  *)
(* kernel channel.  The array `data` is never cleared: what lies outside   *)
(* the `used` elements from `tail` on is left over from earlier pushes.    *)
(* `ret` is what the last call returned; for a pop that succeeds, it is    *)
(* the element copied to the caller's buffer.                              *)
(***************************************************************************)
EXTENDS Naturals, Sequences

CONSTANTS Capacity,   \* the capacity given to ring_init
          Data,       \* the elements pushed
          None        \* no element: the zeroed memory of alloc_calloc

ASSUME RingAssumption ==
  /\ Capacity \in Nat \ {0}
  /\ None \notin Data
  /\ Data \cap BOOLEAN = {}
  /\ None \notin BOOLEAN

VARIABLES data, head, tail, used, ret

vars == <<data, head, tail, used, ret>>

Index == 0 .. Capacity - 1

ring_init ==
  /\ data = [i \in Index |-> None]
  /\ head = 0
  /\ tail = 0
  /\ used = 0
  /\ ret = None

ring_full == used = Capacity

ring_any == used # 0

advance(i) == (i + 1) % Capacity

\* Mutant: pushing without the test.
ring_push_unchecked(d) ==
  /\ data' = [data EXCEPT ![head] = d]
  /\ head' = advance(head)
  /\ used' = IF ring_full THEN used ELSE used + 1
  /\ ret' = TRUE
  /\ UNCHANGED tail

ring_push(d) ==
  \/ /\ ring_full
     /\ ret' = FALSE
     /\ UNCHANGED <<data, head, tail, used>>
  \/ /\ ~ring_full
     /\ data' = [data EXCEPT ![head] = d]
     /\ head' = advance(head)
     /\ used' = used + 1
     /\ ret' = TRUE
     /\ UNCHANGED tail

\* Mutant: popping from the end that ring_push fills.
ring_pop_head ==
  \/ /\ ~ring_any
     /\ ret' = FALSE
     /\ UNCHANGED <<data, head, tail, used>>
  \/ /\ ring_any
     /\ ret' = data[IF head = 0 THEN Capacity - 1 ELSE head - 1]
     /\ tail' = advance(tail)
     /\ used' = used - 1
     /\ UNCHANGED <<data, head>>

ring_pop ==
  \/ /\ ~ring_any
     /\ ret' = FALSE
     /\ UNCHANGED <<data, head, tail, used>>
  \/ /\ ring_any
     /\ ret' = data[tail]
     /\ tail' = advance(tail)
     /\ used' = used - 1
     /\ UNCHANGED <<data, head>>

ring_clear ==
  /\ head' = 0
  /\ tail' = 0
  /\ used' = 0
  /\ ret' = None
  /\ UNCHANGED data

Next ==
  \/ \E d \in Data : ring_push(d)
  \/ ring_pop
  \/ ring_clear

Spec == ring_init /\ [][Next]_vars
-----------------------------------------------------------------------------
(* Every index stays inside the allocation of ring_init_impl (ring.c:3-14)  *)
(* and the slots in use hold elements that were pushed.                     *)
TypeOK ==
  /\ data \in [Index -> Data \union {None}]
  /\ head \in Index
  /\ tail \in Index
  /\ used \in 0 .. Capacity
  /\ ret \in Data \union BOOLEAN \union {None}

\* The slot k elements after the oldest one, the position wrapping at most once.
slot(k) == IF tail + k < Capacity THEN tail + k ELSE tail + k - Capacity

(* head, tail and used, which ring_push_impl and ring_pop_impl move         *)
(* independently (ring.c:22-48), always describe the same window, and every *)
(* slot in that window holds a pushed element, never leftover memory.       *)
WindowAgrees ==
  /\ head = slot(used)
  /\ \A k \in 0 .. used - 1 : data[slot(k)] \in Data

\* The elements in the order in which ring_pop will return them.
contents == [k \in 1 .. used |-> data[slot(k - 1)]]

Abstract == INSTANCE Fifo WITH queue <- contents

(* ring_push_impl, ring_pop_impl and ring_clear_impl (ring.c:22-55)         *)
(* implement a bounded first-in first-out queue: nothing is lost,           *)
(* duplicated, reordered or read from a slot that was never filled, and     *)
(* `false` is returned exactly when the queue is full or empty.             *)
IsFifo == Abstract!Spec
=============================================================================
