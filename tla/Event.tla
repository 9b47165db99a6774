-------------------------------- MODULE Event --------------------------------
(***************************************************************************)
(* Interrupts as messages (kernel/event.c): a task binds an event, every   *)
(* interrupt sends one message to each task whose binding is armed (its    *)
(* `ack` is set), and the task arms the binding again with sys_ack.        *)
(*                                                                         *)
(* Several CPUs may be inside event_trigger, since it holds the lock of    *)
(* the bindings for reading only; so does event_ack.  The operations that  *)
(* hold it for writing are single steps that wait until no CPU reads.      *)
(*                                                                         *)
(* Tasks behave as the drivers of libs/hw do: they acknowledge an event    *)
(* that they received.  They may bind, unbind and exit at any time.        *)
(***************************************************************************)
EXTENDS Naturals, Sequences, FiniteSets, SequencesExt

CONSTANTS Cpu, Task, Event,
          None,
          ChannelSize,   \* IPC_CHANNEL_SIZE
          MaxBind        \* bound on the calls of sys_bind per task and event

ASSUME EventAssumption ==
  /\ ChannelSize \in Nat \ {0}
  /\ MaxBind \in Nat
  /\ None \notin Event

VARIABLES bindings,   \* _bindings
          msgs,       \* the channel of each task: events, and other messages as None
          trigger,    \* event_trigger on each CPU
          alive,      \* tasks that are not destroyed
          hand,       \* how many messages of each event a task has yet to acknowledge
          binds,      \* ghost: the calls of event_bind that succeeded
          dropped     \* ghost: the bindings disarmed because a channel was full

vars == <<bindings, msgs, trigger, alive, hand, binds, dropped>>

EventBinding == [task : Task, event : Event, ack : BOOLEAN]

\* at: the index of vec_foreach; in: before the compare-exchange, after it succeeded,
\* or after the send failed.
Trigger == [event : Event \union {None}, at : Nat, in : {"test", "send", "drop"}]

NoTrigger == [event |-> None, at |-> 0, in |-> "test"]

Init ==
  /\ bindings = <<>>
  /\ msgs = [t \in Task |-> <<>>]
  /\ trigger = [c \in Cpu |-> NoTrigger]
  /\ alive = Task
  /\ hand = [t \in Task |-> [e \in Event |-> 0]]
  /\ binds = [t \in Task |-> [e \in Event |-> 0]]
  /\ dropped = {}
-----------------------------------------------------------------------------
Reading == \E c \in Cpu : trigger[c].event # None

event_binding_get(t, e) == {i \in DOMAIN bindings : bindings[i].task = t /\ bindings[i].event = e}

\* The only call is sys_bind, of the task itself.
event_bind(t, e) ==
  /\ ~Reading /\ t \in alive
  /\ binds[t][e] < MaxBind
  /\ event_binding_get(t, e) = {}
  /\ bindings' = Append(bindings, [task |-> t, event |-> e, ack |-> TRUE])
  /\ binds' = [binds EXCEPT ![t][e] = @ + 1]
  /\ dropped' = dropped \ {<<t, e>>}
  /\ UNCHANGED <<msgs, trigger, alive, hand>>

event_unbind(t, e) ==
  /\ ~Reading /\ t \in alive
  /\ \E i \in event_binding_get(t, e) : bindings' = RemoveAt(bindings, i)
  /\ UNCHANGED <<msgs, trigger, alive, hand, binds, dropped>>

BindingsOf(t) == {i \in DOMAIN bindings : bindings[i].task = t}

\* The bindings that the loop of event_unbind_all removes: after vec_splice the next
\* one has the index just done, so that the second of two neighbours, the fourth of
\* four, and so on are passed over.
unbind_all_removes(t) ==
  LET Run(i) == {j \in BindingsOf(t) : j <= i /\ j .. i \subseteq BindingsOf(t)}
  IN {i \in BindingsOf(t) : Cardinality(Run(i)) % 2 = 1}

\* task_destroy: event_unbind_all, then the channel is freed.
event_unbind_all(t) ==
  /\ ~Reading /\ t \in alive
  /\ alive' = alive \ {t}
  /\ bindings' = LET kept == DOMAIN bindings \ unbind_all_removes(t)
                     order == SetToSortSeq(kept, <)
                 IN [i \in DOMAIN order |-> bindings[order[i]]]
  /\ msgs' = [msgs EXCEPT ![t] = <<>>]
  /\ hand' = [hand EXCEPT ![t] = [e \in Event |-> 0]]
  /\ UNCHANGED <<trigger, binds, dropped>>
-----------------------------------------------------------------------------
(* event_trigger.                                                           *)

\* interrupt_handler, with the lock acquired for reading.
event_trigger(c, e) ==
  /\ trigger[c] = NoTrigger
  /\ trigger' = [trigger EXCEPT ![c] = [event |-> e, at |-> 1, in |-> "test"]]
  /\ UNCHANGED <<bindings, msgs, alive, hand, binds, dropped>>

InLoop(c, phase) ==
  /\ trigger[c].event # None /\ trigger[c].in = phase
  /\ trigger[c].at <= Len(bindings)

NextBinding(c) == [event |-> trigger[c].event, at |-> trigger[c].at + 1, in |-> "test"]

\* A mutation: the binding stays armed until the message is sent.
compare_exchange_late(c) ==
  /\ InLoop(c, "test")
  /\ LET b == bindings[trigger[c].at]
     IN IF b.event = trigger[c].event /\ b.ack
          THEN trigger' = [trigger EXCEPT ![c].in = "send"]
          ELSE trigger' = [trigger EXCEPT ![c] = NextBinding(c)]
  /\ UNCHANGED <<bindings, msgs, alive, hand, binds, dropped>>

\* A mutation: a binding of another event is disarmed.
compare_exchange_any(c) ==
  /\ InLoop(c, "test")
  /\ LET i == trigger[c].at
         matches == bindings[i].event = trigger[c].event /\ bindings[i].ack
     IN /\ bindings' = [bindings EXCEPT ![i].ack = FALSE]
        /\ trigger' = [trigger EXCEPT ![c] = IF matches THEN [@ EXCEPT !.in = "send"]
                                             ELSE NextBinding(c)]
  /\ UNCHANGED <<msgs, alive, hand, binds, dropped>>

\* The test of one binding, with its atomic_compare_exchange_strong.
compare_exchange(c) ==
  /\ InLoop(c, "test")
  /\ LET i == trigger[c].at
         matches == bindings[i].event = trigger[c].event /\ bindings[i].ack
     IN IF matches
          THEN /\ bindings' = [bindings EXCEPT ![i].ack = FALSE]
               /\ trigger' = [trigger EXCEPT ![c].in = "send"]
          ELSE /\ trigger' = [trigger EXCEPT ![c] = NextBinding(c)]
               /\ UNCHANGED bindings
  /\ UNCHANGED <<msgs, alive, hand, binds, dropped>>

\* event_dispatch: a non-blocking send.  The channel of a destroyed task is freed
\* memory, where the send may find anything; no other state of the model changes.
event_dispatch(c) ==
  /\ InLoop(c, "send")
  /\ LET t == bindings[trigger[c].at].task
     IN \/ /\ t \in alive /\ Len(msgs[t]) < ChannelSize
           /\ msgs' = [msgs EXCEPT ![t] = Append(@, trigger[c].event)]
           /\ trigger' = [trigger EXCEPT ![c] = NextBinding(c)]
        \/ /\ t \in alive => Len(msgs[t]) = ChannelSize
           /\ trigger' = [trigger EXCEPT ![c].in = "drop"]
           /\ UNCHANGED msgs
        \/ /\ t \notin alive
           /\ trigger' = [trigger EXCEPT ![c] = NextBinding(c)]
           /\ UNCHANGED msgs
  /\ UNCHANGED <<bindings, alive, hand, binds, dropped>>

\* "Channel full, dropping event"
event_drop(c) ==
  /\ InLoop(c, "drop")
  /\ LET i == trigger[c].at
     IN /\ bindings' = [bindings EXCEPT ![i].ack = FALSE]
        /\ dropped' = dropped \union {<<bindings[i].task, bindings[i].event>>}
  /\ trigger' = [trigger EXCEPT ![c] = NextBinding(c)]
  /\ UNCHANGED <<msgs, alive, hand, binds>>

event_trigger_end(c) ==
  /\ trigger[c].event # None /\ trigger[c].at > Len(bindings)
  /\ trigger' = [trigger EXCEPT ![c] = NoTrigger]
  /\ UNCHANGED <<bindings, msgs, alive, hand, binds, dropped>>
-----------------------------------------------------------------------------
(* The driver.                                                              *)

\* The handler of an event ends with br_ack; BR_NOT_BINDED if it was unbound.
event_ack(t, e) ==
  /\ t \in alive /\ hand[t][e] > 0
  /\ hand' = [hand EXCEPT ![t][e] = @ - 1]
  /\ bindings' = [i \in DOMAIN bindings |->
                    IF i \in event_binding_get(t, e) THEN [bindings[i] EXCEPT !.ack = TRUE]
                    ELSE bindings[i]]
  /\ dropped' = dropped \ {<<t, e>>}
  /\ UNCHANGED <<msgs, trigger, alive, binds>>

channel_recv(t) ==
  /\ t \in alive /\ msgs[t] # <<>>
  /\ msgs' = [msgs EXCEPT ![t] = Tail(@)]
  /\ hand' = IF Head(msgs[t]) = None THEN hand
             ELSE [hand EXCEPT ![t][Head(msgs[t])] = @ + 1]
  /\ UNCHANGED <<bindings, trigger, alive, binds, dropped>>

\* A message from another task.
channel_send(t) ==
  /\ t \in alive /\ Len(msgs[t]) < ChannelSize
  /\ msgs' = [msgs EXCEPT ![t] = Append(@, None)]
  /\ UNCHANGED <<bindings, trigger, alive, hand, binds, dropped>>

TriggerStep(c) == compare_exchange(c) \/ event_dispatch(c) \/ event_drop(c) \/ event_trigger_end(c)

Next ==
  \/ \E c \in Cpu : TriggerStep(c) \/ \E e \in Event : event_trigger(c, e)
  \/ \E t \in Task :
       \/ event_unbind_all(t) \/ channel_recv(t) \/ channel_send(t)
       \/ \E e \in Event : event_bind(t, e) \/ event_unbind(t, e) \/ event_ack(t, e)

Spec == Init /\ [][Next]_vars

\* A CPU finishes its interrupt handler; the loop of a driver keeps receiving, and
\* each event it receives is handled by a fiber of its own, which ends with br_ack.
Fairness ==
  /\ \A c \in Cpu : WF_vars(TriggerStep(c))
  /\ \A t \in Task : WF_vars(channel_recv(t)) /\ \A e \in Event : WF_vars(event_ack(t, e))

FairSpec == Spec /\ Fairness
-----------------------------------------------------------------------------
Sending(t, e) == {c \in Cpu : /\ trigger[c].in # "test"
                              /\ bindings[trigger[c].at].task = t
                              /\ trigger[c].event = e}

Queued(t, e) == {i \in DOMAIN msgs[t] : msgs[t][i] = e}

Armed(t, e) == {i \in event_binding_get(t, e) : bindings[i].ack}

(***************************************************************************)
(* A binding gives its task one message at a time: however many interrupts  *)
(* arrive on however many CPUs, the messages queued, being sent and not yet *)
(* acknowledged, and the armed binding itself, are together no more than    *)
(* the calls of event_bind (event.c:27-48, 105-143).  A driver that binds   *)
(* once never has two messages of an event in its channel.                  *)
(***************************************************************************)
OneMessagePerAck ==
  \A t \in Task, e \in Event :
    Cardinality(Queued(t, e)) + hand[t][e] + Cardinality(Sending(t, e)) + Cardinality(Armed(t, e))
      <= binds[t][e]

(***************************************************************************)
(* A driver that keeps receiving and acknowledging has its binding armed    *)
(* again after every interrupt, unless it lost the binding, was destroyed   *)
(* or the message met a full channel (event.c:105-143).                     *)
(***************************************************************************)
Rearmed ==
  \A t \in Task, e \in Event :
    (event_binding_get(t, e) # {} /\ Armed(t, e) = {})
      ~> (event_binding_get(t, e) = {} \/ Armed(t, e) # {} \/ t \notin alive \/ <<t, e>> \in dropped)
=============================================================================
