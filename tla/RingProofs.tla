----------------------------- MODULE RingProofs -----------------------------
(***************************************************************************)
(* The ring implements a bounded queue for every capacity and every type   *)
(* of element.                                                             *)
(***************************************************************************)
EXTENDS Ring, SequenceTheorems, TLAPS

IInv == TypeOK /\ WindowAgrees

(* The remainder of advance (ring.c:30 and 44) wraps to 0 exactly at the    *)
(* end of the array.                                                        *)
LEMMA Advance ==
  ASSUME NEW i \in Index
  PROVE  advance(i) = IF i + 1 = Capacity THEN 0 ELSE i + 1
<1>1. CASE i + 1 = Capacity
  BY <1>1, RingAssumption DEF advance, Index
<1>2. CASE i + 1 < Capacity
  BY <1>2, RingAssumption DEF advance, Index
<1> QED
  BY <1>1, <1>2, RingAssumption DEF Index

(* A position of the window names a slot of the array.                      *)
LEMMA SlotIndex ==
  ASSUME TypeOK, NEW k \in 0 .. Capacity
  PROVE  slot(k) \in Index
BY RingAssumption DEF TypeOK, slot, Index

(* Different positions of the window are different slots.                   *)
LEMMA SlotInjective ==
  ASSUME TypeOK, NEW j \in 0 .. Capacity - 1, NEW k \in 0 .. Capacity - 1, j # k
  PROVE  slot(j) # slot(k)
BY RingAssumption DEF TypeOK, slot, Index

(* A fresh ring satisfies the invariant.                                    *)
LEMMA InitIInv == ring_init => IInv
<1> SUFFICES ASSUME ring_init PROVE IInv
  OBVIOUS
<1>1. TypeOK
  BY RingAssumption DEF ring_init, TypeOK, Index
<1>2. WindowAgrees
  BY RingAssumption DEF ring_init, WindowAgrees, slot
<1> QED
  BY <1>1, <1>2 DEF IInv

(* A push that is not refused writes the slot behind the window, which is   *)
(* none of the slots in use.                                                *)
LEMMA PushIInv ==
  ASSUME IInv, NEW d \in Data, ~ring_full, ring_push(d)
  PROVE  /\ IInv'
         /\ used' = used + 1
         /\ \A k \in 0 .. used - 1 : data'[slot(k)'] = data[slot(k)]
         /\ \A k \in 0 .. Capacity : k = used => data'[slot(k)'] = d
<1>1. /\ data' = [data EXCEPT ![head] = d]
      /\ head' = advance(head)
      /\ used' = used + 1
      /\ ret' = TRUE
      /\ tail' = tail
  BY DEF ring_push
<1>2. head \in Index /\ tail \in Index /\ used \in 0 .. Capacity - 1
  BY RingAssumption DEF IInv, TypeOK, ring_full
<1>3. head' = IF head + 1 = Capacity THEN 0 ELSE head + 1
  BY <1>1, <1>2, Advance
<1>4. head = slot(used)
  BY DEF IInv, WindowAgrees
<1>5. head' = slot(used + 1)
  BY <1>2, <1>3, <1>4, RingAssumption DEF slot, Index
<1>6. \A k \in 0 .. Capacity : slot(k)' = slot(k)
  BY <1>1 DEF slot
<1>7. TypeOK'
  BY <1>1, <1>2, <1>3, RingAssumption DEF IInv, TypeOK, Index
<1>8. \A k \in 0 .. used - 1 : slot(k) \in Index /\ slot(k) # head
  BY <1>2, <1>4, SlotIndex, SlotInjective, RingAssumption DEF IInv
<1>9. \A k \in 0 .. used - 1 : data'[slot(k)'] = data[slot(k)]
  BY <1>1, <1>2, <1>6, <1>8, RingAssumption DEF IInv, TypeOK
<1>10. \A k \in 0 .. Capacity : k = used => data'[slot(k)'] = d
  BY <1>1, <1>2, <1>4, <1>6, RingAssumption DEF IInv, TypeOK
<1>11. \A k \in 0 .. used' - 1 : data'[slot(k)'] \in Data
  <2>1. \A k \in 0 .. used - 1 : data'[slot(k)'] \in Data
    BY <1>9 DEF IInv, WindowAgrees
  <2>2. \A k \in 0 .. used' - 1 : k \in 0 .. used - 1 \/ (k = used /\ k \in 0 .. Capacity)
    BY <1>1, <1>2, RingAssumption
  <2> QED
    BY <1>10, <2>1, <2>2
<1>12. WindowAgrees'
  <2>1. head' = slot(used)'
    BY <1>1, <1>5 DEF slot
  <2> QED
    BY <1>11, <2>1 DEF WindowAgrees
<1> QED
  BY <1>1, <1>7, <1>9, <1>10, <1>12 DEF IInv

(* A pop that is not refused moves the window by one position.              *)
LEMMA PopIInv ==
  ASSUME IInv, ring_any, ring_pop
  PROVE  /\ IInv'
         /\ used' = used - 1
         /\ \A k \in 0 .. used - 2 : data'[slot(k)'] = data[slot(k + 1)]
         /\ ret' = data[slot(0)]
<1>1. /\ data' = data
      /\ head' = head
      /\ used' = used - 1
      /\ tail' = advance(tail)
      /\ ret' = data[tail]
  BY DEF ring_pop
<1>2. head \in Index /\ tail \in Index /\ used \in 1 .. Capacity
  BY RingAssumption DEF IInv, TypeOK, ring_any
<1>3. tail' = IF tail + 1 = Capacity THEN 0 ELSE tail + 1
  BY <1>1, <1>2, Advance
<1>4. \A k \in 0 .. Capacity - 1 : slot(k)' = slot(k + 1)
  BY <1>2, <1>3, RingAssumption DEF slot, Index
<1>5. slot(0) = tail
  BY <1>2, RingAssumption DEF slot, Index
<1>6. data[tail] \in Data
  BY <1>2, <1>5 DEF IInv, WindowAgrees
<1>7. TypeOK'
  BY <1>1, <1>2, <1>3, <1>6, RingAssumption DEF IInv, TypeOK, Index
<1>8. \A k \in 0 .. used - 2 : data'[slot(k)'] = data[slot(k + 1)]
  BY <1>1, <1>2, <1>4, RingAssumption
<1>9. \A k \in 0 .. used' - 1 : data'[slot(k)'] \in Data
  BY <1>1, <1>2, <1>8 DEF IInv, WindowAgrees
<1>10. WindowAgrees'
  <2>1. head' = slot(used)'
    BY <1>1, <1>2, <1>3, RingAssumption DEF IInv, WindowAgrees, slot, Index
  <2> QED
    BY <1>9, <2>1 DEF WindowAgrees
<1> QED
  BY <1>1, <1>5, <1>7, <1>8, <1>10 DEF IInv

(* Every step preserves the invariant.                                      *)
LEMMA NextIInv == IInv /\ [Next]_vars => IInv'
<1> SUFFICES ASSUME IInv, [Next]_vars PROVE IInv'
  OBVIOUS
<1>1. ASSUME NEW d \in Data, ring_push(d), ring_full PROVE IInv'
  BY <1>1, RingAssumption
     DEF ring_push, ring_full, IInv, TypeOK, WindowAgrees, slot
<1>2. ASSUME NEW d \in Data, ring_push(d), ~ring_full PROVE IInv'
  BY <1>2, PushIInv
<1>3. CASE ring_pop /\ ~ring_any
  BY <1>3 DEF ring_pop, ring_any, IInv, TypeOK, WindowAgrees, slot
<1>4. CASE ring_pop /\ ring_any
  BY <1>4, PopIInv
<1>5. CASE ring_clear
  <2>1. TypeOK'
    BY <1>5, RingAssumption DEF ring_clear, IInv, TypeOK, Index
  <2>2. WindowAgrees'
    BY <1>5, RingAssumption DEF ring_clear, WindowAgrees, slot
  <2> QED
    BY <2>1, <2>2 DEF IInv
<1>6. CASE UNCHANGED vars
  BY <1>6 DEF vars, IInv, TypeOK, WindowAgrees, slot
<1> QED
  BY <1>1, <1>2, <1>3, <1>4, <1>5, <1>6 DEF Next

ContentsIsSeq ==
  /\ contents \in Seq(Data)
  /\ Len(contents) = used
  /\ \A k \in 1 .. used : contents[k] = data[slot(k - 1)]
  /\ contents = <<>> <=> used = 0

(* The window read from its tail is a sequence of `used` elements.          *)
LEMMA Contents == IInv => ContentsIsSeq
<1> SUFFICES ASSUME IInv PROVE ContentsIsSeq
  OBVIOUS
<1>1. used \in Nat
  BY RingAssumption DEF IInv, TypeOK
<1>2. \A k \in 1 .. used : data[slot(k - 1)] \in Data
  <2>1. \A k \in 1 .. used : k - 1 \in 0 .. used - 1
    BY <1>1
  <2> QED
    BY <2>1 DEF IInv, WindowAgrees
<1>3. contents \in [1 .. used -> Data]
  BY <1>2 DEF contents
<1>4. contents \in Seq(Data)
  BY <1>1, <1>3, SeqDef
<1>5. Len(contents) = used
  BY <1>1, <1>3, <1>4, LenProperties
<1>6. contents = <<>> <=> used = 0
  BY <1>4, <1>5, EmptySeq
<1> QED
  BY <1>4, <1>5, <1>6 DEF contents, ContentsIsSeq

(* A step of the ring is a step of the queue.                               *)
LEMMA StepRefines ==
  IInv /\ [Next]_vars => [Abstract!Next]_(Abstract!vars)
<1> SUFFICES ASSUME IInv, [Next]_vars PROVE [Abstract!Next]_(Abstract!vars)
  OBVIOUS
<1> USE DEF Abstract!Next, Abstract!vars
<1>0. IInv'
  BY NextIInv
<1>1. /\ contents' \in Seq(Data)
      /\ Len(contents') = used'
      /\ \A k \in 1 .. used' : contents'[k] = data'[slot(k - 1)']
      /\ contents' = <<>> <=> used' = 0
  <2>1. ContentsIsSeq'
    BY <1>0, Contents, PTL
  <2> QED
    BY <2>1 DEF ContentsIsSeq
<1>2. used \in 0 .. Capacity /\ Capacity \in Nat
  BY RingAssumption DEF IInv, TypeOK
<1>3. ASSUME NEW d \in Data, ring_push(d), ~ring_full
      PROVE  Abstract!Push(d)
  <2>1. /\ used' = used + 1
        /\ \A k \in 0 .. used - 1 : data'[slot(k)'] = data[slot(k)]
        /\ \A k \in 0 .. Capacity : k = used => data'[slot(k)'] = d
    BY <1>3, PushIInv
  <2>2. /\ Append(contents, d) \in Seq(Data)
        /\ Len(Append(contents, d)) = used + 1
        /\ \A k \in 1 .. used : Append(contents, d)[k] = contents[k]
        /\ Append(contents, d)[used + 1] = d
    BY Contents, AppendProperties DEF ContentsIsSeq
  <2>3. \A k \in 1 .. used : contents'[k] = contents[k]
    <3>1. \A k \in 1 .. used : k \in 1 .. used' /\ k - 1 \in 0 .. used - 1
      BY <1>2, <2>1
    <3> QED
      BY <1>1, <2>1, <3>1, Contents DEF ContentsIsSeq
  <2>4. contents'[used + 1] = d
    <3>1. used + 1 \in 1 .. used' /\ (used + 1) - 1 \in 0 .. Capacity /\ (used + 1) - 1 = used
      BY <1>2, <2>1
    <3>2. PICK n \in 1 .. used' : n = used + 1
      BY <3>1
    <3>3. contents'[n] = data'[slot(n - 1)']
      BY <1>1
    <3>4. n - 1 \in 0 .. Capacity /\ n - 1 = used
      BY <3>1, <3>2
    <3> QED
      BY <2>1, <3>2, <3>3, <3>4
  <2>5. \A k \in 1 .. Len(contents') : contents'[k] = Append(contents, d)[k]
    <3>1. \A k \in 1 .. Len(contents') : k \in 1 .. used \/ k = used + 1
      BY <1>1, <1>2, <2>1
    <3> QED
      BY <2>2, <2>3, <2>4, <3>1
  <2>6. contents' = Append(contents, d)
    BY <1>1, <2>1, <2>2, <2>5, SeqEqual
  <2>7. Len(contents) < Capacity
    BY <1>2, <1>3, Contents DEF ring_full, ContentsIsSeq
  <2> QED
    BY <1>3, <2>6, <2>7 DEF Abstract!Push, ring_push
<1>4. ASSUME NEW d \in Data, ring_push(d), ring_full
      PROVE  Abstract!PushRefused
  <2>1. contents' = contents
    BY <1>4, <1>2 DEF ring_push, contents, slot
  <2> QED
    BY <1>4, <2>1, Contents DEF ring_push, ring_full, Abstract!PushRefused, ContentsIsSeq
<1>5. CASE ring_pop /\ ~ring_any
  <2>1. contents' = contents
    BY <1>5, <1>2 DEF ring_pop, contents, slot
  <2> QED
    BY <1>5, <2>1, Contents DEF ring_pop, ring_any, Abstract!PopRefused, ContentsIsSeq
<1>6. CASE ring_pop /\ ring_any
  <2>1. /\ used' = used - 1
        /\ \A k \in 0 .. used - 2 : data'[slot(k)'] = data[slot(k + 1)]
        /\ ret' = data[slot(0)]
    BY <1>6, PopIInv
  <2>2. contents # <<>>
    BY <1>6, Contents DEF ring_any, ContentsIsSeq
  <2>3. /\ Tail(contents) \in Seq(Data)
        /\ Len(Tail(contents)) = used - 1
        /\ \A k \in 1 .. Len(Tail(contents)) : Tail(contents)[k] = contents[k + 1]
    BY <2>2, Contents, HeadTailProperties DEF ContentsIsSeq
  <2>4. \A k \in 1 .. used - 1 : contents'[k] = contents[k + 1]
    <3>1. \A k \in 1 .. used - 1 :
            /\ k \in 1 .. used'
            /\ k - 1 \in 0 .. used - 2
            /\ k + 1 \in 1 .. used
            /\ (k - 1) + 1 = (k + 1) - 1
      BY <1>2, <2>1
    <3>2. \A k \in 1 .. used - 1 : data'[slot(k - 1)'] = data[slot((k - 1) + 1)]
      BY <2>1, <3>1
    <3>3. \A k \in 1 .. used - 1 : contents[k + 1] = data[slot((k + 1) - 1)]
      BY <3>1, Contents DEF ContentsIsSeq
    <3> QED
      BY <1>1, <3>1, <3>2, <3>3
  <2>5. contents' = Tail(contents)
    BY <1>1, <1>2, <2>1, <2>3, <2>4, SeqEqual
  <2>6. ret' = Head(contents)
    <3>1. 1 \in 1 .. used /\ 1 - 1 = 0
      BY <1>2, <1>6 DEF ring_any
    <3>2. contents[1] = data[slot(1 - 1)]
      BY <3>1, Contents DEF ContentsIsSeq
    <3> QED
      BY <2>1, <2>2, <3>1, <3>2, Contents DEF ContentsIsSeq
  <2> QED
    BY <2>2, <2>5, <2>6 DEF Abstract!Pop
<1>7. CASE ring_clear
  <2>1. contents' = <<>>
    BY <1>1, <1>7 DEF ring_clear
  <2> QED
    BY <1>7, <2>1 DEF ring_clear, Abstract!Clear
<1>8. CASE UNCHANGED vars
  BY <1>8 DEF vars, contents, slot
<1> QED
  BY <1>3, <1>4, <1>5, <1>6, <1>7, <1>8 DEF Next

(***************************************************************************)
(* Whatever is pushed, popped and cleared, the indexes stay inside the      *)
(* allocation and agree with the count, and the window holds only elements  *)
(* that were pushed (ring.c:22-55).                                         *)
(***************************************************************************)
THEOREM RingSafe == Spec => [](TypeOK /\ WindowAgrees)
<1>1. IInv => TypeOK /\ WindowAgrees
  BY DEF IInv
<1> QED
  BY <1>1, InitIInv, NextIInv, PTL DEF Spec

(***************************************************************************)
(* The ring of every capacity implements the bounded first-in first-out     *)
(* queue (ring.c:3-55 against module Fifo).                                 *)
(***************************************************************************)
THEOREM RingImplementsFifo == Spec => IsFifo
<1>1. ring_init => Abstract!Init
  <2> SUFFICES ASSUME ring_init PROVE Abstract!Init
    OBVIOUS
  <2>1. IInv
    BY InitIInv
  <2>2. contents = <<>> /\ ret = None
    BY <2>1, Contents DEF ring_init, ContentsIsSeq
  <2> QED
    BY <2>2 DEF Abstract!Init
<1> QED
  BY <1>1, InitIInv, NextIInv, StepRefines, PTL DEF Spec, IsFifo, Abstract!Spec
=============================================================================
