------------------------------- MODULE Frames -------------------------------
(* What the manager of physical memory promises: a run of pages that nobody  *)
(* has, and a panic only when there is no such run.                          *)
EXTENDS Integers, Ranges

CONSTANTS Pages,   \* the pages that may be given out
          Sizes    \* the sizes that are asked for

VARIABLES owned,   \* the ranges given out
          panic    \* the kernel has stopped

\* Runs of n pages that nobody has.
Runs(n) ==
    {r \in [base : Pages, size : {n}] :
        /\ units(r) \subseteq Pages
        /\ \A o \in owned : units(r) \intersect units(o) = {}}

Init == owned = {} /\ panic = FALSE

Alloc == \E n \in Sizes : \E r \in Runs(n) : owned' = owned \union {r} /\ UNCHANGED panic

OutOfMemory == \E n \in Sizes : Runs(n) = {} /\ panic' = TRUE /\ UNCHANGED owned

Free == \E r \in owned : owned' = owned \ {r} /\ UNCHANGED panic

Next == ~panic /\ (Alloc \/ OutOfMemory \/ Free)

Spec == Init /\ [][Next]_<<owned, panic>>
=============================================================================
