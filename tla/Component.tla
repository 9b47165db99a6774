----------------------------- MODULE Component ------------------------------
(* Components (libs/ipc/component.c): processes whose dispatcher fiber turns *)
(* messages into responses for waiting fibers and into new fibers that run a *)
(* handler.  A process steps from one fiber_yield to the next; in between it *)
(* sends at most one message, so that nothing is lost by taking the whole as *)
(* one step.  The channels are those of module Ipc, cut down to the order of *)
(* messages, the limit and the non-blocking send.                            *)
(*                                                                           *)
(* A message is a request or a response for an operation of an object, or an *)
(* event of the kernel; the port and the protocol that find the object and   *)
(* its provider are part of the operation.                                   *)
EXTENDS Fibers

CONSTANTS
    Proc,           \* the processes
    Nil,            \* the address of a capability that was never set
    IPC_CHANNEL_SIZE    \* messages a channel holds

VARIABLES
    proc,           \* [Proc -> [ring, pendings, seq, literal, pumped]]
    chan,           \* [Proc -> Seq of messages]
    lost            \* history: a message was sent to Nil or to a full channel,
                    \* or was taken for a response that it is not

componentVars == <<proc, chan, lost>>

\* A process with its main fiber running and the dispatcher as given.
component(ring, seq) ==
    [ring |-> ring, pendings |-> {}, seq |-> seq, literal |-> NoMsg, pumped |-> FALSE]

current(p) == proc[p].ring[1]

at(p, job) == current(p).job = job

-----------------------------------------------------------------------------
(* The dispatcher                                                            *)

is_response(q, msg) == q.seq = msg.seq /\ q.from = msg.from

dispatch_to_pending(P, msg) ==
    LET q == CHOOSE x \in P.pendings : is_response(x, msg)
    IN  [P EXCEPT !.pendings = (@ \ {q}) \union {[q EXCEPT !.ok = TRUE, !.resp = msg]}]

\* ipc_object_dispatch and dispatch_to_binding: the context of the handler is
\* a literal on the stack of the dispatcher, of which the fiber has a pointer.
start_handler(P, msg) ==
    [fiber_start(P, [fiber("handler", 0, "RUNNING") EXCEPT !.own = msg]) EXCEPT !.literal = msg]

dispatch(P, msg) ==
    IF \E q \in P.pendings : is_response(q, msg) THEN dispatch_to_pending(P, msg)
    ELSE IF msg.kind = "response" THEN P
    ELSE start_handler(P, msg)

\* What is dispatched to a pending request need not be a response.
mistaken(P, msg) == msg.kind # "response" /\ \E q \in P.pendings : is_response(q, msg)

\* Mutant: all messages there are.
received_all(p) == chan[p]

\* What br_ipc receives in one turn of the dispatcher.
received(p) == SubSeq(chan[p], 1, 1)

\* One turn of ipc_component_dispatch.
ipc_component_pump(p) ==
    \E P \in {[proc[p] EXCEPT !.pumped = TRUE, !.ring[1].pc = 1]} :
    /\ at(p, "dispatcher")
    /\ \/ /\ chan[p] # <<>>
          /\ proc' = [proc EXCEPT ![p] = fiber_yield(FoldLeft(dispatch, P, received(p)))]
          /\ chan' = [chan EXCEPT ![p] = SubSeq(@, Len(received(p)) + 1, Len(@))]
          /\ lost' = (lost \/ mistaken(P, Head(chan[p])))
       \/ /\ chan[p] = <<>> /\ fiber_deadline_over(P)
          /\ proc' = [proc EXCEPT ![p] = fiber_yield(P)]
          /\ UNCHANGED <<chan, lost>>

-----------------------------------------------------------------------------
(* Requests and responses.  P is process p when the fiber goes on.           *)

\* The non-blocking br_ipc, whose result the callers do not look at.
send(to, msg) ==
    IF to # Nil /\ Len(chan[to]) < IPC_CHANNEL_SIZE
    THEN chan' = [chan EXCEPT ![to] = Append(@, msg)] /\ UNCHANGED lost
    ELSE lost' = TRUE /\ UNCHANGED chan

\* What a fiber does first: a handler that is entered reads its context, and
\* one that waited for a response takes it and frees the pending request.
resumed(P) ==
    LET f == P.ring[1] IN
    CASE f.job = "handler" /\ f.pc = 0 -> [P EXCEPT !.ring[1].msg = P.literal]
      [] f.wait.on = "pending" ->
            [P EXCEPT !.pendings = {q \in @ : q.seq # f.wait.seq}, !.ring[1].wait = NoWait]
      [] OTHER -> [P EXCEPT !.ring[1].wait = NoWait]

\* The assertion of ipc_hook_call on the type of the response fails, and the
\* process ends.
asserts(p) ==
    \E q \in proc[p].pendings :
        current(p).wait = Response(q.seq) /\ q.ok /\ (q.resp.kind # "response" \/ q.resp.op # q.op)

step(P) == [P EXCEPT !.ring[1].pc = @ + 1]

\* All the operations used here have a response.
ipc_component_request(p, P, to, op) ==
    LET pending == [seq |-> P.seq, from |-> to, op |-> op, ok |-> FALSE, resp |-> NoMsg]
        Q == [step(P) EXCEPT !.seq = @ + 1, !.pendings = @ \union {pending}]
    IN  /\ send(to, [kind |-> "request", op |-> op, from |-> p, seq |-> P.seq])
        /\ proc' = [proc EXCEPT ![p] = fiber_block(Q, Response(P.seq))]

\* The handler answers, unless it was started for an event, and returns.
ipc_component_respond(p, P) ==
    LET req == P.ring[1].msg IN
    /\ IF req.kind = "request"
       THEN send(req.from, [req EXCEPT !.kind = "response", !.from = p])
       ELSE UNCHANGED <<chan, lost>>
    /\ proc' = [proc EXCEPT ![p] = fiber_ret(step(P))]

\* The main fiber waits for the dispatcher.
ipc_component_run(p, P) ==
    /\ proc' = [proc EXCEPT ![p] = fiber_block(step(P), Dispatcher)]
    /\ UNCHANGED <<chan, lost>>

-----------------------------------------------------------------------------

\* A handler that has not run yet finds its own message in the literal
\* (component.c:331): no other message is dispatched before it has copied
\* it, although the function that made the literal has returned and other
\* fibers may run in between.
HandlerReadsItsRequest ==
    \A p \in Proc : \A i \in DOMAIN proc[p].ring :
        LET f == proc[p].ring[i] IN
        (f.job = "handler" /\ f.pc = 0) => proc[p].literal = f.own

\* "assert_equal(resp_msg.type, (BrArg)binding.resp_id)" (hooks.c:54): what a
\* fiber gets as the response to its request is the response of the operation
\* that it asked for.
AnswersMatch ==
    \A p \in Proc : \A q \in proc[p].pendings :
        q.ok => q.resp.kind = "response" /\ q.resp.op = q.op

\* From the second receive on, the dispatcher waits in the kernel only when
\* every other fiber is marked BLOCKED (fibers.c:192-209, component.c:111-115):
\* none that is running, and none that has returned and is not freed yet, stays
\* behind it until a message happens to come.  A fiber marked BLOCKED whose
\* blocker would by now let it go may stay behind it.
WaitsOnlyWhenIdle ==
    \A p \in Proc :
        (at(p, "dispatcher") /\ proc[p].pumped) =>
            \A i \in 2 .. Len(proc[p].ring) : proc[p].ring[i].state = "BLOCKED"
=============================================================================
