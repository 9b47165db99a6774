-------------------------------- MODULE Pmm ---------------------------------
(* The manager of physical memory (kernel/pmm.c) on its bitmap               *)
(* (libs/brutal-ds/bits.c), and the page heap (kernel/x86_64/heap.c), which  *)
(* adds an offset to every address and nothing else.  Addresses are counted  *)
(* in pages from the first page of the memory map; the bitmap is the set of  *)
(* the pages whose bit says PMM_USED.                                        *)
(*                                                                           *)
(* The functions take the state and return it, as the operations of the      *)
(* address spaces call several of them.                                      *)
EXTENDS Integers, Ranges, Sequences, SequencesExt, FiniteSets

CONSTANTS
    Mmap,         \* the memory map handed over: ranges of pages with their types
    PageBytes,    \* MEM_PAGE_SIZE, which the size of the bitmap is rounded to
    LowPages,     \* 0x4000 / MEM_PAGE_SIZE: the first pages, never given out
    Sizes         \* the sizes, in pages, that are asked for

VARIABLES pmm,    \* [used, upper, lower, memory, panic], the statics of pmm.c
          owned   \* history: the ranges allocated and not freed

pmmVars == <<pmm, owned>>

_usable_range == spanning(Mmap[1], Mmap[1].base, range_end(Mmap[Len(Mmap)]))

bitmap_size == LET bytes == _usable_range.size \div 8
               IN  PageBytes * ((bytes + PageBytes - 1) \div PageBytes)

bits_len == 8 * bitmap_size
Bits == 0 .. (bits_len - 1)

addr2pages(r) == [base |-> r.base - _usable_range.base, size |-> r.size]

-----------------------------------------------------------------------------

\* The bases at which size clear bits are found, going down from start or up
\* from it.  The search down begins at the bit with number start, which may
\* be the one behind the bitmap, and never looks at bit 0.
bits_find_free(used, start, size, upper) ==
    LET clear(b) == \A i \in b .. (b + size - 1) : i \notin used
    IN  IF upper
        THEN {b \in 1 .. bits_len : b + size - 1 <= start /\ clear(b)}
        ELSE {b \in Bits : start <= b /\ b + size <= bits_len /\ clear(b)}

\* Mutant: the second search starts where the first one did.
pmm_retry_same(p, upper) == IF upper THEN p.upper ELSE p.lower

\* Where the second search starts: -1, cut to the length of the bitmap, or 0.
pmm_retry(p, upper) == IF upper THEN bits_len ELSE 0

\* Mutant: an allocation is not counted.
pmm_taken_uncounted(p, r, upper) ==
    [p EXCEPT !.used = @ \union units(r),
              !.upper = IF upper THEN r.base ELSE @,
              !.lower = IF upper THEN @ ELSE range_end(r)]

pmm_taken(p, r, upper) ==
    [p EXCEPT !.used = @ \union units(r),
              !.upper = IF upper THEN r.base ELSE @,
              !.lower = IF upper THEN @ ELSE range_end(r),
              !.memory = @ + r.size]

\* beyond tells whether the bit behind the bitmap reads as used.  It belongs
\* to a page that is given out like any other, and may read as anything.
pmm_found(p, size, upper, beyond) ==
    LET bits == p.used \union (IF beyond THEN {bits_len} ELSE {})
        first == bits_find_free(bits, IF upper THEN p.upper ELSE p.lower, size, upper)
    IN  IF first # {} THEN first
        ELSE bits_find_free(bits, pmm_retry(p, upper), size, upper)

\* bits_set_range asserts that the range lies inside the bitmap.
bits_set_range(p, r, after) ==
    IF range_end(r) > bits_len THEN [p EXCEPT !.panic = "outside the bitmap"] ELSE after

\* The search stops at the first run of clear bits it meets.
pmm_alloc_at(found, size, upper) ==
    [base |-> IF upper THEN Max(found) ELSE Min(found), size |-> size]

\* The state after an allocation; it panics when the second search fails.
pmm_alloc(p, size, upper, beyond) ==
    LET found == pmm_found(p, size, upper, beyond)
        r == pmm_alloc_at(found, size, upper)
    IN  IF found = {} THEN [p EXCEPT !.panic = "out of memory"]
        ELSE bits_set_range(p, r, pmm_taken(p, r, upper))

pmm_used(p, r) ==
    bits_set_range(p, r,
        [p EXCEPT !.used = @ \union units(r),
                  !.memory = @ + Cardinality(units(r) \ p.used)])

\* The pages that really change.
pmm_freed(p, r) == Cardinality(units(r) \intersect p.used)

\* Address 0 is refused.
pmm_unused(p, r) ==
    IF r.base + _usable_range.base = 0 THEN p
    ELSE bits_set_range(p, r,
        [p EXCEPT !.used = @ \ units(r),
                  !.memory = @ - pmm_freed(p, r),
                  !.upper = IF @ < range_end(r) THEN range_end(r) - 1 ELSE @,
                  !.lower = IF @ > r.base THEN r.base ELSE @])

-----------------------------------------------------------------------------
(* pmm_initialize                                                            *)

\* The bitmap lies at the start of the first free entry that is larger than
\* it and outside the low pages.
bitmap_entries ==
    {i \in DOMAIN Mmap :
        /\ Mmap[i].type = HANDOVER_MMAP_FREE
        /\ Mmap[i].size * PageBytes > bitmap_size
        /\ ~range_colide(Mmap[i], [base |-> 0, size |-> LowPages])}

bitmap_range == [base |-> Mmap[Min(bitmap_entries)].base - _usable_range.base,
                 size |-> bitmap_size \div PageBytes]

pmm_mmap_load(p, entry) ==
    LET counted == [p EXCEPT !.memory = @ + entry.size]
    IN  CASE entry.type = HANDOVER_MMAP_FREE -> pmm_unused(counted, addr2pages(entry))
          [] entry.type = HANDOVER_MMAP_USED -> counted
          [] OTHER -> p

pmm_initialize ==
    LET filled == [used |-> Bits, upper |-> 0, lower |-> bits_len,
                   memory |-> 0, panic |-> "no"]
        loaded == FoldLeft(pmm_mmap_load, filled, Mmap)
        low == pmm_used(loaded, [base |-> 0, size |-> LowPages])
        first == IF _usable_range.base > 0 THEN pmm_used(low, [base |-> 0, size |-> 1]) ELSE low
    IN  IF bitmap_entries = {} THEN [filled EXCEPT !.panic = "assert"]
        ELSE pmm_used(first, bitmap_range)

_available_memory ==
    LET counted == {i \in DOMAIN Mmap : Mmap[i].type \in {HANDOVER_MMAP_FREE, HANDOVER_MMAP_USED}}
    IN  MapThenSumSet(LAMBDA i : Mmap[i].size, counted)

-----------------------------------------------------------------------------
(* The allocator on its own: any program that frees what it allocated.       *)

PmmInit == pmm = pmm_initialize /\ owned = {}

alloc_pages(size, upper) ==
    \E beyond \in BOOLEAN :
        LET found == pmm_found(pmm, size, upper, beyond)
            r == pmm_alloc_at(found, size, upper)
        IN  /\ pmm' = pmm_alloc(pmm, size, upper, beyond)
            /\ owned' = IF pmm'.panic # "no" THEN owned ELSE owned \union {r}

free_pages(r) == pmm' = pmm_unused(pmm, r) /\ owned' = owned \ {r}

PmmNext ==
    /\ pmm.panic = "no"
    /\ \/ \E size \in Sizes, upper \in BOOLEAN : alloc_pages(size, upper)
       \/ \E r \in owned : free_pages(r)

PmmSpec == PmmInit /\ [][PmmNext]_pmmVars

\* _used_memory is what is left of the available memory beside the clear bits
\* (pmm.c:151, 171, 195): bits that pmm_used and pmm_unused find as they want
\* them are not counted twice.
UsedMemoryExact ==
    pmm.panic = "no" => pmm.memory + Cardinality(Bits \ pmm.used) = _available_memory

\* The pages that may be given out.
free_at_boot == Bits \ pmm_initialize.used

F == INSTANCE Frames WITH Pages <- free_at_boot, panic <- pmm.panic = "out of memory"

\* The bitmap, the two best bets and the second search do what module Frames
\* says: pmm_alloc never hands out a page that somebody has, and it panics
\* with "out of memory" only when no run of that size is free.  It does not
\* say that a free run is found: where the bit behind the bitmap reads clear,
\* a second search downwards may end there, and the assertion of
\* bits_set_range (bits.c:16) stops the kernel.
AllocatesFreeRuns == F!Spec
=============================================================================
