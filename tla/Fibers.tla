------------------------------- MODULE Fibers -------------------------------
(* The fibers of a process (libs/brutal-fibers/fibers.c), which run in turn  *)
(* and give way only by themselves.  The ring of fibers is a sequence that   *)
(* starts with the running one (_current): the next fiber is the one behind  *)
(* it, and a new fiber goes to the end, which is the place before _current.  *)
(*                                                                           *)
(* A fiber is a record: the code it runs (job) and how far it is (pc, 0 if   *)
(* it was never entered), its state, what it waits for, and for a handler    *)
(* the message it has read (msg) and, as history, the one it was started for *)
(* (own).  A process is a record of its ring and what the waits look at.     *)
EXTENDS Naturals, Sequences, SequencesExt, FiniteSets, FiniteSetsExt

NoWait == [on |-> "nothing"]
Sleep(due) == [on |-> "deadline", due |-> due]
Response(seq) == [on |-> "pending", seq |-> seq]
Dispatcher == [on |-> "dispatcher"]

NoMsg == [kind |-> "none"]

fiber(job, pc, state) ==
    [job |-> job, pc |-> pc, state |-> state, wait |-> NoWait, msg |-> NoMsg, own |-> NoMsg]

-----------------------------------------------------------------------------

fiber_alloc(ring, f) == Append(ring, f)

\* Mutant: only a deadline is looked at.
unblocks_deadline(P, f) == f.wait.on = "deadline" /\ f.wait.due

\* Whether the function of the blocker or its deadline lets the fiber go on.
\* No program ends its dispatcher (ipc_component_exit has no caller), so a
\* wait for it never ends, and the state FIBER_CANCELING does not occur.
unblocks(P, f) ==
    \/ f.wait.on = "pending" /\ \E q \in P.pendings : q.seq = f.wait.seq /\ q.ok
    \/ f.wait.on = "deadline" /\ f.wait.due

fiber_try_unblock(P, f) == f.state # "BLOCKED" \/ unblocks(P, f)

\* The walk of fiber_next ends at the first fiber that is not blocked, or is
\* no longer, and at the running one (index 1) if there is none.
walk_end(P) ==
    LET open == {i \in 2 .. Len(P.ring) : fiber_try_unblock(P, P.ring[i])}
    IN  IF open = {} THEN 1 ELSE Min(open)

\* A fiber that fiber_yield may go on with.
ready(P, f) == fiber_try_unblock(P, f) /\ f.state # "CANCELED"

\* What fiber_wait_unblocked finds, going round and round.
wait_end(P) ==
    LET found == {i \in 2 .. Len(P.ring) : ready(P, P.ring[i])}
    IN  IF found = {} THEN 1 ELSE Min(found)

\* The fiber that fiber_yield goes on with: the end of the walk if it is in
\* the state FIBER_RUNNING, else if it is in the state FIBER_IDLE, else what
\* the second search finds.
fiber_choice(P) == IF ready(P, P.ring[walk_end(P)]) THEN walk_end(P) ELSE wait_end(P)

\* Mutant: fibers that have returned are kept.
fiber_free_canceled_never(ring) == ring

\* A fiber that comes back from fibers_switch frees those that have returned;
\* one that is entered for the first time does not.
fiber_free_canceled(ring) ==
    SelectSeq(ring, LAMBDA f : f.state # "CANCELED" \/ ring[1].pc = 0)

fibers_switch(P, i) ==
    LET next == [P.ring[i] EXCEPT !.state = IF @ = "BLOCKED" THEN "RUNNING" ELSE @]
    IN  <<next>> \o SubSeq(P.ring, i + 1, Len(P.ring)) \o SubSeq(P.ring, 1, i - 1)

\* (The sets make values of what is looked at from many sides.)
fiber_yield(P) ==
    LET yields(R) == {IF i = 1 THEN R
                      ELSE [R EXCEPT !.ring = fiber_free_canceled(fibers_switch(R, i))] :
                         i \in {fiber_choice(R)}}
    IN  CHOOSE Q \in UNION {yields(R) : R \in {P}} : TRUE

fiber_start(P, f) == [P EXCEPT !.ring = fiber_alloc(@, f)]

fiber_block(P, wait) ==
    fiber_yield([P EXCEPT !.ring[1].state = "BLOCKED", !.ring[1].wait = wait])

\* Only fibers that were started to be forgotten return.
fiber_ret(P) == fiber_yield([P EXCEPT !.ring[1].state = "CANCELED"])

\* Mutant: the receive has no deadline.
fiber_deadline_over_never(P) == FALSE

\* Whether a receive with the deadline of fiber_deadline ends without a
\* message.
fiber_deadline_over(P) ==
    \E i \in DOMAIN P.ring :
        P.ring[i].state = "BLOCKED" /\ P.ring[i].wait = Sleep(TRUE)
=============================================================================
