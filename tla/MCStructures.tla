------------------------------ MODULE MCStructures ------------------------------
(* Data structures and drivers that run one operation at a time: the memory *)
(* of the kernel, the ring buffer of a channel, the boot of the processors,  *)
(* the heap, the start of the services, the PS/2 drivers and the views of a  *)
(* window.  A behaviour is one of the parts, chosen at the start.            *)
EXTENDS Handover, Space, Ring, Smp, Heap, Bus, Ps2, Ui, TLC

VARIABLE part

structuresVars == <<part, hvars, pmmVars, rangeVars, spaceVars, vars, smpVars, heapVars,
                    busVars, ps2Vars, uiVars>>

\* Memory of six pages of two bytes, whole or in parts, some of which end
\* inside a page.
SmallEntries ==
    [base : {0, 2, 4, 8}, size : {2, 3, 4}, type : {0, 3}] \union
    [base : {2, 6}, size : {2}, type : {1}] \union
    [base : {0}, size : {12}, type : {0}]

entry(first, n, kind) == [base |-> first, size |-> n, type |-> kind]

\* Eleven pages of which six can be given out once the bitmap lies in the
\* seventh free one, as a device tree would report them.
Firmware == <<entry(0, 10, HANDOVER_MMAP_FREE), entry(10, 1, HANDOVER_MMAP_RESERVED),
              entry(1, 2, HANDOVER_MMAP_USED)>>

BootMmap ==
    LET pages(e) == [e EXCEPT !.base = PageSize * @, !.size = PageSize * @]
        map == FoldLeft(LAMBDA m, e : handover_mmap_append(m, pages(e)),
                           [entries |-> <<>>, panic |-> FALSE], Firmware)
    IN  [i \in DOMAIN map.entries |->
            [map.entries[i] EXCEPT !.base = @ \div PageSize, !.size = @ \div PageSize]]

\* Three entries of the root: one that is walked, one that is not, and one of
\* the kernel, whose first page the range of a space includes.
UserRange4 == [base |-> 1, size |-> 4]
TwoParts == {<<0, 0>>, <<1, 1>>}
Fixed2 == {[base |-> 2, size |-> 2]}
SpaceSymmetry == Permutations(Spaces)

\* Three services that consume protocols of the system server and of each other.
BootProtos == <<"system">>
Services ==
    [1 .. 3 -> [consume : {<<>>, <<"system">>, <<"system", "a">>, <<"b", "a">>, <<"system", "a", "b">>},
                provide : SUBSET {"a", "b"}]]

\* A plain key and an escaped one; a click, a movement with negative parts and
\* a turn of the wheel.
SomeKeys == {[key |-> 30, up |-> FALSE], [key |-> 200, up |-> TRUE]}
move(buttons, x, y, scroll) == [buttons |-> buttons, x |-> x, y |-> y, scroll |-> scroll]
SomeMoves == {move(1, 0, 0, 0), move(1, -3, 8, -1), move(0, 0, 0, 1)}

\* The system server when another part is looked at.
NoServices == manifest = <<>> /\ caps = <<>> /\ bus_units = <<>> /\ exposes = <<>>

StructuresInit ==
    /\ part \in {"handover", "pmm", "ranges", "space", "ring", "smp", "heap", "bus", "ps2", "ui"}
    /\ HandoverInit /\ PmmInit /\ RangeInit /\ SpaceInit /\ ring_init /\ SmpInit /\ HeapInit
    /\ (firmware = "fdt" => part = "handover")
    /\ Ps2Init /\ (mouse.wheel => part = "ps2") /\ UiInit
    /\ IF part = "bus" THEN BusInit ELSE NoServices

StructuresNext ==
    /\ UNCHANGED part
    /\ \/ part = "handover" /\ HandoverNext
       \/ part = "pmm" /\ PmmNext
       \/ part = "ranges" /\ RangeNext
       \/ part = "space" /\ SpaceNext
       \/ part = "ring" /\ Next
       \/ part = "smp" /\ SmpNext
       \/ part = "heap" /\ HeapNext
       \/ part = "bus" /\ BusNext
       \/ part = "ps2" /\ Ps2Next
       \/ part = "ui" /\ UiNext
    /\ IF part = "handover" THEN TRUE ELSE UNCHANGED hvars
    /\ IF part = "pmm" THEN TRUE ELSE UNCHANGED pmmVars
    /\ IF part = "ranges" THEN TRUE ELSE UNCHANGED rangeVars
    /\ IF part = "space" THEN TRUE ELSE UNCHANGED spaceVars
    /\ IF part = "ring" THEN TRUE ELSE UNCHANGED vars
    /\ IF part = "smp" THEN TRUE ELSE UNCHANGED smpVars
    /\ IF part = "heap" THEN TRUE ELSE UNCHANGED heapVars
    /\ IF part = "bus" THEN TRUE ELSE UNCHANGED busVars
    /\ IF part = "ps2" THEN TRUE ELSE UNCHANGED ps2Vars
    /\ IF part = "ui" THEN TRUE ELSE UNCHANGED uiVars

StructuresSpec == StructuresInit /\ [][StructuresNext]_structuresVars
=============================================================================
