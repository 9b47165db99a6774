----------------------------- MODULE RangeAlloc -----------------------------
(* The list of free ranges of libs/brutal-ds/range.c, from which an address  *)
(* space takes the addresses of its mappings.                                *)
EXTENDS Ranges, Sequences, SequencesExt

CONSTANTS Room,        \* the addresses: 0 .. Room - 1
          MaxRange     \* the largest range used, freed or allocated here

VARIABLES ranges,      \* the vector of free ranges
          unused       \* history: the addresses given to the list and not taken

rangeVars == <<ranges, unused>>

-----------------------------------------------------------------------------

\* The two loops of range_alloc_compress at index i: they take the range behind
\* it into it, and the range before it, as long as one continues the other.
\* The second loop keeps its index though the merged range moves down by one,
\* so that it goes on with the range behind; behind the last one it finds a
\* copy of the merged range, which does not continue itself.
range_alloc_compress(self, i) ==
    LET behind(s, k) ==
            IF i < Len(s) /\ range_contiguous(s[i], s[i + 1])
            THEN RemoveAt([s EXCEPT ![i] = range_merge(s[i], s[i + 1])], i + 1) ELSE s
        before(s, k) ==
            IF i > 1 /\ i <= Len(s) /\ range_contiguous(s[i], s[i - 1])
            THEN RemoveAt([s EXCEPT ![i] = range_merge(s[i], s[i - 1])], i - 1) ELSE s
        turns == [k \in DOMAIN self |-> k]
    IN  FoldLeft(before, FoldLeft(behind, self, turns), turns)

\* The loop ends at the first range that continues r, or between whose base
\* and the next one's r starts; a range that finds no place goes to the end.
range_alloc_unused(self, r) ==
    LET joins(i) == range_contiguous(self[i], r)
        before(i) == i < Len(self) /\ self[i].base < r.base /\ r.base < self[i + 1].base
        stops == {i \in DOMAIN self : joins(i) \/ before(i)}
        i == Min(stops)
    IN  IF stops = {} THEN Append(self, r)
        ELSE IF joins(i)
        THEN range_alloc_compress([self EXCEPT ![i] = range_merge(self[i], r)], i)
        ELSE InsertAt(self, i + 1, r)

\* What stays in place of a range that the used one overlaps; a range that is
\* covered by a larger one stays as it is.
cut(curr, r) ==
    IF range_half_under(curr, r).size # 0 THEN range_half_under(curr, r)
    ELSE IF range_half_over(curr, r).size # 0 THEN range_half_over(curr, r)
    ELSE curr

\* Mutant: the half above the used range is forgotten when there is one below.
halved_never(self, r) == {}

\* The ranges that have something left on both sides.
halved(self, r) ==
    {i \in DOMAIN self : /\ range_half_under(self[i], r).size # 0
                         /\ range_half_over(self[i], r).size # 0}

range_alloc_used(self, r) ==
    LET equal == {i \in DOMAIN self : range_eq(self[i], r)}
        kept == [i \in DOMAIN self |-> cut(self[i], r)]
        add_over(i, s) == range_alloc_unused(s, range_half_over(self[i], r))
    IN  IF equal # {} THEN RemoveAt(self, Min(equal))
        ELSE FoldSet(add_over, kept, halved(self, r))

\* The range taken, empty if there is none, and the list left: the first
\* range that is large enough gives its lower end.
range_alloc_alloc(self, size) ==
    LET fits == {i \in DOMAIN self : self[i].size >= size}
        i == Min(fits)
    IN  IF fits = {} THEN [range |-> [base |-> 0, size |-> 0], ranges |-> self]
        ELSE [range |-> [base |-> self[i].base, size |-> size],
              ranges |-> IF self[i].size = size THEN RemoveAt(self, i)
                         ELSE [self EXCEPT ![i].base = @ + size, ![i].size = @ - size]]

-----------------------------------------------------------------------------
(* The list on its own, for callers that free what is in use and use what    *)
(* lies in one free range.  (Neighbours in the list may be contiguous, when  *)
(* a range was inserted between two, and a used range that covers the second *)
(* one without being equal to it would leave it in the list.)                *)

Chunk == {r \in [base : 0 .. (Room - 1), size : 1 .. MaxRange] : range_end(r) <= Room}

RangeInit == ranges = <<>> /\ unused = {}

make_unused(r) ==
    /\ units(r) \intersect unused = {}
    /\ ranges' = range_alloc_unused(ranges, r)
    /\ unused' = unused \union units(r)

make_used(r) ==
    /\ \E i \in DOMAIN ranges : units(r) \subseteq units(ranges[i])
    /\ ranges' = range_alloc_used(ranges, r)
    /\ unused' = unused \ units(r)

allocate(size) ==
    LET a == range_alloc_alloc(ranges, size) IN
    /\ ranges' = a.ranges
    /\ unused' = unused \ units(a.range)

RangeNext ==
    \/ \E r \in Chunk : make_unused(r) \/ make_used(r)
    \/ \E size \in 1 .. MaxRange : allocate(size)

\* The list holds every free address once and no other (range.c): splitting,
\* merging and inserting lose nothing and hand nothing out twice, whatever
\* the order of the list.
RangesAreUnused ==
    /\ UNION {units(ranges[i]) : i \in DOMAIN ranges} = unused
    /\ \A i, j \in DOMAIN ranges : i # j => units(ranges[i]) \intersect units(ranges[j]) = {}
=============================================================================
