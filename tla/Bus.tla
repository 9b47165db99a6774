-------------------------------- MODULE Bus ---------------------------------
(* The system server (srvs/system): services declare the protocols they      *)
(* consume, the server hands each of them the capabilities that others       *)
(* expose, and starts it when it has as many as it asked for.  A service     *)
(* that runs exposes what it provides, in an order nobody fixes.             *)
(*                                                                           *)
(* A capability is [proto, from]: its protocol and the service that exposed  *)
(* it, 0 for the system server and -1 for a capability not provided yet.     *)
EXTENDS Integers, Sequences, SequencesExt, FiniteSets, FiniteSetsExt

CONSTANTS
    Boot,           \* the protocols the system server exposes itself, a sequence
    Manifests       \* the tables of services [consume, provide] to be looked at

VARIABLES
    manifest,       \* the table, which never changes
    caps,           \* Bus.caps
    bus_units,      \* Bus.units: [consume, ready, state], and starts as history
    exposes         \* history: the protocols each service has exposed

busVars == <<manifest, caps, bus_units, exposes>>

Cap(p, i) == [proto |-> p, from |-> i]

\* unit_init_from_module with its unit_consume.
unit_init(service) ==
    [consume |-> [j \in DOMAIN service.consume |-> Cap(service.consume[j], -1)],
     ready |-> 0, state |-> "UNIT_PENDING", starts |-> 0]

\* The first capability of the protocol in the list.
wanted(unit, cap) == {j \in DOMAIN unit.consume : unit.consume[j].proto = cap.proto}

\* Mutant: the unit is ready with its first capability.
becomes_ready_first(unit) == unit.ready + 1 = 1

becomes_ready(unit) == unit.ready + 1 = Len(unit.consume)

unit_provide(unit, cap) ==
    IF wanted(unit, cap) = {} THEN unit
    ELSE [unit EXCEPT !.consume[Min(wanted(unit, cap))] = cap,
                      !.ready = @ + 1,
                      !.state = IF becomes_ready(unit) THEN "UNIT_READY" ELSE @]

unit_start(unit) ==
    IF unit.state # "UNIT_READY" THEN unit
    ELSE [unit EXCEPT !.state = "UNIT_RUNNING", !.starts = @ + 1]

provide_and_start(unit, cap) == unit_start(unit_provide(unit, cap))

bus_activate(table, unit) == FoldLeft(provide_and_start, unit, table)

\* br_main: its own capabilities are exposed before there is a unit.
BusInit ==
    /\ manifest \in Manifests
    /\ caps = [j \in DOMAIN Boot |-> Cap(Boot[j], 0)]
    /\ bus_units = [i \in DOMAIN manifest |-> bus_activate(caps, unit_init(manifest[i]))]
    /\ exposes = [i \in DOMAIN manifest |-> {}]

bus_expose(cap) ==
    /\ caps' = Append(caps, cap)
    /\ bus_units' = [i \in DOMAIN bus_units |-> provide_and_start(bus_units[i], cap)]

\* system_server_expose_handler, for a request of service i.
expose(i, p) ==
    /\ bus_units[i].starts > 0 /\ p \in manifest[i].provide \ exposes[i]
    /\ bus_expose(Cap(p, i))
    /\ exposes' = [exposes EXCEPT ![i] = @ \union {p}]
    /\ UNCHANGED manifest

BusNext == \E i \in DOMAIN bus_units : \E p \in manifest[i].provide : expose(i, p)

-----------------------------------------------------------------------------

protos == {cap.proto : cap \in ToSet(caps)}

\* A service is started once, however the capabilities come in, and as long as
\* no protocol is exposed twice this is when the last of the capabilities it
\* consumes is exposed (unit.c:68-109, bus.c:23-68): it then has all of them.
\* One that consumes nothing is never started, as only unit_provide makes a
\* unit ready.
StartsWhenProvided ==
    \A i \in DOMAIN bus_units : LET u == bus_units[i] IN
        /\ u.starts <= 1
        /\ Cardinality(protos) = Len(caps) =>
              /\ u.starts = 1 <=> (u.consume # <<>> /\ ToSet(manifest[i].consume) \subseteq protos)
              /\ u.starts = 1 => ToSet(u.consume) \subseteq ToSet(caps)
=============================================================================
