------------------------------- MODULE Ranges -------------------------------
(* The ranges of libs/brutal-base/range.h, a base and a size, which the      *)
(* memory map, the page allocator and the address spaces are made of.  A     *)
(* record with more fields keeps them.                                       *)
EXTENDS Naturals, FiniteSetsExt

range_end(r) == r.base + r.size

range_colide(a, b) == a.base < range_end(b) /\ range_end(a) > b.base

range_contiguous(a, b) == a.base = range_end(b) \/ range_end(a) = b.base

range_touch(a, b) == range_colide(a, b) \/ range_contiguous(a, b)

\* The fields of e, with the range from start to end.
spanning(e, start, end) == [e EXCEPT !.base = start, !.size = end - start]

range_merge(a, b) == spanning(a, Min({a.base, b.base}), Max({range_end(a), range_end(b)}))

\* What is left of r under, and over, the range cut; the empty range 0 + 0
\* if nothing is.
range_half_under(r, cut) ==
    IF range_colide(r, cut) /\ r.base < cut.base
    THEN spanning(r, r.base, cut.base) ELSE spanning(r, 0, 0)

range_half_over(r, cut) ==
    IF range_colide(r, cut) /\ range_end(r) > range_end(cut)
    THEN spanning(r, range_end(cut), range_end(r)) ELSE spanning(r, 0, 0)

range_eq(a, b) == a.base = b.base /\ a.size = b.size

\* The units (pages or bytes) of a range.
units(r) == r.base .. (range_end(r) - 1)

\* HandoverMmapType: what the memory in a range of the memory map is.  The
\* order of the enumeration decides between entries that overlap.
HANDOVER_MMAP_FREE == 0
HANDOVER_MMAP_USED == 1
HANDOVER_MMAP_RECLAIMABLE == 2
HANDOVER_MMAP_RESERVED == 3
=============================================================================
