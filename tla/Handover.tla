------------------------------ MODULE Handover ------------------------------
(* The memory map the loader hands to the kernel: an array of ranges of      *)
(* physical memory, each with a type, built one entry at a time from what    *)
(* the firmware reports (loader/protocol.c, libs/hw/fdt/handover.c).         *)
(* handover_mmap_append sorts the entry in, merges it with a neighbour of    *)
(* its own type, and lets the larger type win where two entries overlap.     *)
EXTENDS Ranges, Sequences, SequencesExt

CONSTANTS
    PageSize,   \* MEM_PAGE_SIZE
    MapSize,    \* HANDOVER_MMAP_MAX_SIZE
    Entries     \* what the firmware may report

VARIABLES
    firmware,   \* "efi" (loader/protocol.c) or "fdt" (a device tree)
    mmap,       \* [entries, panic]: the map, and whether it overflowed
    given,      \* history: the entries reported so far
    overlaid    \* history: an entry was merged although it overlaps another

hvars == <<firmware, mmap, given, overlaid>>

-----------------------------------------------------------------------------
align_down(x) == x - (x % PageSize)
align_up(x) == align_down(x + PageSize - 1)

range_align_smaller(r) == [r EXCEPT !.base = align_up(r.base), !.size = align_down(r.size)]
range_align_bigger(r) == [r EXCEPT !.base = align_down(r.base), !.size = align_up(r.size)]

-----------------------------------------------------------------------------

\* Mutant: memory that is not free loses the page it ends in.
aligned_smaller(entry) == range_align_smaller(entry)

aligned(entry) ==
    IF entry.type = HANDOVER_MMAP_FREE
    THEN range_align_smaller(entry) ELSE range_align_bigger(entry)

merges(e, entry) == range_touch(e, entry) /\ e.type = entry.type

\* The loop stops at the first entry that it can merge with, that it
\* overlaps, or that starts behind the new one.
stops_at(self, entry) ==
    {i \in DOMAIN self : \/ merges(self[i], entry)
                         \/ range_colide(self[i], entry)
                         \/ self[i].base > entry.base}

\* The entry that stays whole where e and entry overlap.
wins(e, entry) == IF entry.type < e.type THEN e ELSE entry
loses(e, entry) == IF wins(e, entry) = e THEN entry ELSE e

RECURSIVE handover_mmap_append(_, _)
handover_mmap_append(self, new) ==
    IF self.panic \/ Len(self.entries) + 1 >= MapSize
    THEN [self EXCEPT !.panic = TRUE]
    ELSE IF new.size = 0 THEN self
    ELSE LET entry == aligned(new)
             s == self.entries
             stops == stops_at(s, entry)
             i == Min(stops)
             win == wins(s[i], entry)
             lose == loses(s[i], entry)
             replaced == [self EXCEPT !.entries[i] = win]
             under == handover_mmap_append(replaced, range_half_under(lose, win))
         IN  CASE stops = {} -> [self EXCEPT !.entries = Append(s, entry)]
               [] stops # {} /\ merges(s[i], entry) ->
                    [self EXCEPT !.entries[i] = range_merge(s[i], entry)]
               [] stops # {} /\ ~merges(s[i], entry) /\ range_colide(s[i], entry) ->
                    handover_mmap_append(under, range_half_over(lose, win))
               [] OTHER -> [self EXCEPT !.entries = InsertAt(s, i, entry)]

-----------------------------------------------------------------------------

HandoverInit ==
    /\ firmware \in {"efi", "fdt"}
    /\ mmap = [entries |-> <<>>, panic |-> FALSE]
    /\ given = {}
    /\ overlaid = FALSE

inside(r, e) == e.base <= r.base /\ range_end(r) <= range_end(e)

givenOf(type) == {e \in given : e.type = type}
apart(entry, S) == \A e \in S : ~range_colide(aligned(e), aligned(entry))

\* The descriptors of EFI, in any order, overlap none of each other.
efi_reports(entry) == apart(entry, given)

\* Of a device tree, the memory comes first, then the reserved nodes one by
\* one, at last the kernel.  The latter overlap the memory, not each other; two
\* reserved nodes may touch.
fdt_reports(entry) ==
    /\ apart(entry, given \ givenOf(HANDOVER_MMAP_FREE))
    /\ givenOf(HANDOVER_MMAP_USED) = {}
    /\ entry.type \in IF given = {} THEN {HANDOVER_MMAP_FREE}
                      ELSE {HANDOVER_MMAP_RESERVED, HANDOVER_MMAP_USED}

\* Entries start at a page and hold one: base and size are rounded apart from
\* each other, which moves the end of any other entry.
reported(entry) ==
    /\ entry.base % PageSize = 0 /\ aligned(entry).size > 0
    /\ IF firmware = "efi" THEN efi_reports(entry) ELSE fdt_reports(entry)

\* The loop merges the entry with one of its own type and returns, though the
\* entry also overlaps another one, from which it is then not cut.
overlays(s, entry) ==
    LET i == Min(stops_at(s, entry)) IN
    /\ stops_at(s, entry) # {} /\ merges(s[i], entry)
    /\ \E j \in DOMAIN s \ {i} : range_colide(s[j], entry)

append(entry) ==
    /\ ~mmap.panic /\ reported(entry)
    /\ mmap' = handover_mmap_append(mmap, entry)
    /\ given' = given \union {entry}
    /\ overlaid' = (overlaid \/ overlays(mmap.entries, aligned(entry)))
    /\ UNCHANGED firmware

HandoverNext == \E entry \in Entries : append(entry)

page(p) == [base |-> PageSize * p, size |-> PageSize]

\* Page p is free memory only if it is so as a whole.
claims(e, p) ==
    IF e.type = HANDOVER_MMAP_FREE THEN inside(page(p), e) ELSE range_colide(page(p), e)

\* Every page has in the map the largest of the types that the firmware
\* reported for it, and no type it did not report (handover.c:62-124).  The map
\* is sorted, its entries do not overlap and the page has no other type: what
\* the kernel takes as free is memory that nothing else lies in, not even a
\* part of the page.  The second half is so until an entry is merged with its
\* lower neighbour while it overlaps free memory (handover.c:87-90), as for two
\* reserved nodes of a device tree that touch, the lower one first: they stay
\* in the map, and so does the free memory under the second.
MapIsUnion ==
    LET types(S, p) == {e.type : e \in {x \in S : claims(x, p)}}
        last == Max({0} \union {range_end(e) : e \in given \union ToSet(mmap.entries)})
    IN  ~mmap.panic =>
        /\ \A p \in 0 .. (last \div PageSize) :
              LET is == types(ToSet(mmap.entries), p)
                  said == types(given, p)
              IN  /\ is \subseteq said
                  /\ said # {} => Max(said) \in is
                  /\ ~overlaid => is \subseteq {Max({0} \union said)}
        /\ ~overlaid => \A i, j \in DOMAIN mmap.entries :
              i < j => range_end(mmap.entries[i]) <= mmap.entries[j].base
=============================================================================
