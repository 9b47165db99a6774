----------------------------- MODULE MCRuntime ------------------------------
(* Interrupts as messages, and components that exchange messages.  A         *)
(* behaviour is one of the two, chosen at the start.                         *)
EXTENDS Event, Window

VARIABLE part

windowAll == <<componentVars, windowVars>>

OneAndOne == [d \in Devices |-> 1]

\* The processes when another part is looked at: none of them goes on.
Parked == [p \in Proc |-> component(<<fiber("parked", 1, "RUNNING")>>, 0)]

RuntimeInit ==
    /\ part \in {"event", "window"}
    /\ Init
    /\ IF part = "window" THEN WindowInit
       ELSE /\ proc = Parked /\ chan = [p \in Proc |-> <<>>] /\ lost = FALSE
            /\ client = FALSE /\ handle = Nil /\ dirty = FALSE
            /\ armed = Devices /\ packets = [d \in Devices |-> 0]

RuntimeNext ==
    /\ UNCHANGED part
    /\ \/ part = "event" /\ Next /\ UNCHANGED windowAll
       \/ part = "window" /\ WindowNext /\ UNCHANGED vars

RuntimeSpec ==
    /\ RuntimeInit /\ [][RuntimeNext]_<<part, vars, windowAll>>
    /\ Fairness /\ WindowFairness
=============================================================================
