-------------------------------- MODULE Heap --------------------------------
(* The heap of a process and of the kernel (libs/brutal-alloc/heap.c, behind *)
(* libs/embed/{brutal,kernel}/mem.c): memory comes from the system in majors *)
(* of whole pages, and each of them holds minors, the blocks handed out, in  *)
(* the order of their addresses.  A new block goes to the first gap that is  *)
(* large enough, and the search starts at the best bet if that has room.     *)
(*                                                                           *)
(* Sizes and offsets are counted in units of ALLOC_HEAP_ALIGN bytes; each of *)
(* the two headers takes one.  The linked lists are sequences; the address   *)
(* of a block is its major and its offset in it.                             *)
EXTENDS Integers, Sequences, SequencesExt, FiniteSetsExt

CONSTANTS
    PageUnits,   \* MEM_PAGE_SIZE / ALLOC_HEAP_ALIGN
    NodePages,   \* HeapAlloc.size, in pages
    FreePages,   \* the pages the system has for this heap
    Requests     \* the sizes that are asked for, in units

ASSUME HeapAssumption ==
    PageUnits \in Nat \ {0} /\ NodePages \in Nat /\ FreePages \in Nat /\ Requests \subseteq Nat

VARIABLES
    heap,        \* [majors, best, panic]; a major is [id, pages, usage, minors]
    blocks       \* history: what the program holds, block -> its size

heapVars == <<heap, blocks>>

header == 1      \* MAJOR_BLOCK_HEADER_SIZE and MINOR_BLOCK_HEADER_SIZE

\* HeapMajor.size; the bytes of it that no block has; the end of a block.
size(maj) == PageUnits * maj.pages
free(maj) == size(maj) - maj.usage
end(min) == min.offset + header + min.size

\* The position of a major in the list.
position(h, id) == CHOOSE i \in DOMAIN h.majors : h.majors[i].id = id

-----------------------------------------------------------------------------

\* The pages for a major with a block of that size.
pages_of(units) == Max({NodePages, (units + 2 * header + PageUnits - 1) \div PageUnits})

pages_taken(h) == FoldLeft(LAMBDA n, maj : n + maj.pages, 0, h.majors)

\* The system hands out memory that nobody has, often what was given back last.
embed_mem_acquire(h) == Min((1 .. Len(h.majors) + 1) \ {h.majors[i].id : i \in DOMAIN h.majors})

major_block_create(h, units) ==
    [id |-> embed_mem_acquire(h), pages |-> pages_of(units), usage |-> header, minors |-> <<>>]

\* The gap behind minor k, in front of the first one for k = 0.
gap_start(maj, k) == IF k = 0 THEN header ELSE end(maj.minors[k])
gap_end(maj, k) == IF k = Len(maj.minors) THEN size(maj) ELSE maj.minors[k + 1].offset

gaps(maj, units) ==
    {k \in 0 .. Len(maj.minors) : gap_end(maj, k) - gap_start(maj, k) >= units + header}

\* The search takes a major with enough free bytes that is new (case 2) or has
\* a gap for the block (cases 3 and 4).
takes(maj, units) ==
    free(maj) >= units + header /\ (maj.minors = <<>> \/ gaps(maj, units) # {})

gap_for(maj, units) == IF maj.minors = <<>> THEN 0 ELSE Min(gaps(maj, units))

\* The positions in the order in which they are visited.  A search that starts
\* at the best bet goes on to the end of the list, and then over all of it.
visited(h, units) ==
    LET n == Len(h.majors)
        from(i) == [j \in 1 .. (n - i + 1) |-> i + j - 1]
        bet == h.best # 0 /\ free(h.majors[position(h, h.best)]) > units + header
    IN  IF bet THEN from(position(h, h.best)) \o from(1) ELSE from(1)

\* The best bet after visiting these majors: [id, bytes], the first with more
\* free bytes than any before.
better(bet, maj) ==
    IF bet.bytes < free(maj) THEN [id |-> maj.id, bytes |-> free(maj)] ELSE bet

bet_before(h) ==
    [id |-> h.best, bytes |-> IF h.best = 0 THEN 0 ELSE free(h.majors[position(h, h.best)])]

\* The block is linked in at the start of the gap.
placed(maj, units) ==
    LET k == gap_for(maj, units)
        min == [offset |-> gap_start(maj, k), size |-> units, req_size |-> units]
    IN  [maj EXCEPT !.minors = InsertAt(@, k + 1, min), !.usage = @ + units + header]

block_in(maj, units) == [major |-> maj.id, offset |-> gap_start(maj, gap_for(maj, units))]

\* The state after the search and the block it returns.
heap_alloc_acquire(h, req) ==
    LET units == Max({req, 1})
        root == IF h.majors = <<>> THEN <<major_block_create(h, units)>> ELSE h.majors
        g == [h EXCEPT !.majors = root]
        order == visited(g, units)
        hits == {j \in DOMAIN order : takes(g.majors[order[j]], units)}
        seen == IF hits = {} THEN order ELSE SubSeq(order, 1, Min(hits))
        bet == FoldLeft(LAMBDA b, i : better(b, g.majors[i]), bet_before(g), seen)
        new == major_block_create(g, units)
        \* Case 5 visits the new major as the next one, case 1 falls through to it.
        loops == free(Last(g.majors)) >= units + header
        i == order[Min(hits)]
    IN  IF hits # {}
        THEN [heap |-> [g EXCEPT !.majors[i] = placed(@, units), !.best = bet.id],
              block |-> block_in(g.majors[i], units)]
        ELSE [heap |-> [g EXCEPT !.majors = Append(@, placed(new, units)),
                                 !.best = IF loops THEN better(bet, new).id ELSE bet.id],
              block |-> block_in(new, units)]

\* major_block_create panics when the system has no memory left.
enough(h) == pages_taken(h) <= FreePages

-----------------------------------------------------------------------------

index(maj, b) == CHOOSE k \in DOMAIN maj.minors : maj.minors[k].offset = b.offset

\* Mutant: the best bet may be the major that is given back.
best_without_kept(h, id) == h.best

\* The best bet once a major is gone.
best_without(h, id) == IF h.best = id THEN 0 ELSE h.best

heap_alloc_release(h, b) ==
    LET i == position(h, b.major)
        k == index(h.majors[i], b)
        maj == [h.majors[i] EXCEPT !.minors = RemoveAt(@, k),
                                   !.usage = @ - (h.majors[i].minors[k].size + header)]
        g == [h EXCEPT !.majors[i] = maj]
        best == g.majors[position(g, g.best)]
    IN  IF maj.minors = <<>>
        THEN [h EXCEPT !.majors = RemoveAt(@, i), !.best = best_without(h, maj.id)]
        ELSE IF h.best # 0 /\ free(maj) > free(best) THEN [g EXCEPT !.best = maj.id] ELSE g

-----------------------------------------------------------------------------
(* The program: it allocates, and resizes and frees what it holds.           *)

heap_alloc_init == [majors |-> <<>>, best |-> 0, panic |-> FALSE]

HeapInit == heap = heap_alloc_init /\ blocks = <<>>

\* What the program holds, with one block gone, and with another one.
without(b) == [x \in DOMAIN blocks \ {b} |-> blocks[x]]
with(held, b, req) == [x \in DOMAIN held \union {b} |-> IF x = b THEN req ELSE held[x]]

becomes(h, held) == heap' = h /\ blocks' = held
no_memory == heap' = [heap EXCEPT !.panic = TRUE] /\ UNCHANGED blocks

acquire(req) ==
    LET r == heap_alloc_acquire(heap, req)
    IN  IF enough(r.heap) THEN becomes(r.heap, with(blocks, r.block, Max({req, 1}))) ELSE no_memory

release(b) == becomes(heap_alloc_release(heap, b), without(b))

\* A block that is large enough stays where it is; another is copied.
resize(b, req) ==
    LET i == position(heap, b.major)
        k == index(heap.majors[i], b)
        r == heap_alloc_acquire(heap, req)
        fits == heap.majors[i].minors[k].size >= req
    IN  \/ req = 0 /\ release(b)
        \/ /\ req > 0 /\ fits
           /\ becomes([heap EXCEPT !.majors[i].minors[k].req_size = req], [blocks EXCEPT ![b] = req])
        \/ /\ req > 0 /\ ~fits
           /\ IF enough(r.heap)
              THEN becomes(heap_alloc_release(r.heap, b), with(without(b), r.block, req))
              ELSE no_memory

\* Every major goes back to the system, whatever blocks it has; the heap is
\* used again only after another heap_alloc_init.
heap_alloc_deinit == heap' = heap_alloc_init /\ blocks' = <<>>

HeapNext ==
    /\ ~heap.panic
    /\ \/ \E req \in Requests : acquire(req)
       \/ \E b \in DOMAIN blocks : release(b) \/ \E req \in Requests : resize(b, req)
       \/ heap_alloc_deinit

HeapSpec == HeapInit /\ [][HeapNext]_heapVars

-----------------------------------------------------------------------------

\* The blocks in the lists are the ones the program holds, each with the size
\* it asked for last, which resize copies when the block moves; with its
\* header each lies in its major, behind the one before it, so that no two
\* blocks overlap.  A major is given back with its last block, the best bet is
\* never a major that was given back, and the usage of a major, which the
\* search compares before it looks for a gap, is that of its blocks
\* (heap.c:72-400).
BlocksApart ==
    /\ DOMAIN blocks = UNION {{[major |-> maj.id, offset |-> min.offset] : min \in ToSet(maj.minors)} :
                                 maj \in ToSet(heap.majors)}
    /\ heap.best # 0 => \E maj \in ToSet(heap.majors) : maj.id = heap.best
    /\ \A maj \in ToSet(heap.majors) :
          /\ maj.minors # <<>>
          /\ maj.usage = FoldLeft(LAMBDA n, min : n + min.size + header, header, maj.minors)
          /\ \A k \in 0 .. Len(maj.minors) : gap_start(maj, k) <= gap_end(maj, k)
          /\ \A min \in ToSet(maj.minors) :
                LET req == blocks[[major |-> maj.id, offset |-> min.offset]]
                IN  min.req_size = req /\ req <= min.size
=============================================================================
