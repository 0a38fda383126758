--------------------------------- MODULE Slob ---------------------------------
(***************************************************************************)
(* The kernel heap, kern/mm/kmalloc.c: small blocks from a circular list   *)
(* of free blocks ordered by address, with a roving start, that grows by a *)
(* page and never shrinks; big ones as pages, described by a small block.  *)
(* The kernel is not preempted and no interrupt handler allocates, so a    *)
(* call is a step.  Addresses count units of SLOB_UNIT bytes.              *)
(***************************************************************************)
EXTENDS Integers, FiniteSetsExt, SequencesExt

CONSTANTS
    SLOB_UNIT,      \* bytes of a header: 16
    PAGE_SIZE,      \* bytes of a page: 4096
    DESC_SIZE,      \* sizeof(bigblock_t): 24
    NPages,         \* pages that the frame allocator has for the heap
    Sizes           \* the sizes, in bytes, that kmalloc is asked for

SLOB_UNITS(size) == (size + SLOB_UNIT - 1) \div SLOB_UNIT
PageUnits == PAGE_SIZE \div SLOB_UNIT

\* No caller asks for nothing, nor for a size that trips the assert of slob_alloc.
ASSUME SlobAssumption ==
    /\ SLOB_UNIT \in Nat /\ SLOB_UNIT > 0 /\ PAGE_SIZE % SLOB_UNIT = 0
    /\ DESC_SIZE > SLOB_UNIT /\ DESC_SIZE + SLOB_UNIT < PAGE_SIZE
    /\ NPages \in Nat
    /\ \A n \in Sizes : n > 0 /\ (n < PAGE_SIZE - SLOB_UNIT => n + 2 * SLOB_UNIT < PAGE_SIZE)

Page == 1 .. NPages
FirstUnit(page) == page * PageUnits
PageExtent(page) == FirstUnit(page) .. FirstUnit(page) + PageUnits - 1

\* The arena lies in the kernel's data, below every page.
Arena == 0

VARIABLES
    heap,       \* header: of the free blocks and of those in use, by address; slobfree
    bigblocks,  \* the list of big blocks, the newest first
    frames,     \* the pages the frame allocator has free
    live        \* history: what callers hold, the size asked for by address

vars == <<heap, bigblocks, frames, live>>

Header(units, next) == [units |-> units, next |-> next]

-----------------------------------------------------------------------------

\* The nodes met from slobfree on, for as long as there are blocks.
Walk(h) ==
    LET w[n \in 0 .. Cardinality(DOMAIN h.header)] ==
            IF n = 0 THEN h.slobfree ELSE h.header[w[n - 1]].next
    IN w

Least(S) == CHOOSE n \in S : \A m \in S : n <= m

\* After which free block b belongs: between its neighbours, or where the list wraps.
ReinsertionPoint(h, b) ==
    LET w == Walk(h)
        next(cur) == h.header[cur].next
        stop(cur) == \/ b > cur /\ b < next(cur)
                     \/ cur >= next(cur) /\ (b > cur \/ b < next(cur))
    IN w[Least({n \in DOMAIN w : stop(w[n])})]

\* Mutant of slob_free: no merge with the block before.
slob_free_NotJoined(h, b, units) ==
    LET cur == ReinsertionPoint(h, b)
        next == h.header[cur].next
        joins_next == b + units = next
        block == IF joins_next
                 THEN Header(units + h.header[next].units, h.header[next].next)
                 ELSE Header(units, next)
    IN [slobfree |-> cur,
        header |-> [a \in (DOMAIN h.header \cup {b}) \ (IF joins_next THEN {next} ELSE {}) |->
            CASE a = cur -> Header(h.header[cur].units, b)
              [] a = b   -> block
              [] OTHER   -> h.header[a]]]

slob_free(h, b, units) ==
    LET cur == ReinsertionPoint(h, b)
        next == h.header[cur].next
        joins_next == b + units = next
        joins_cur == cur + h.header[cur].units = b
        block == IF joins_next
                 THEN Header(units + h.header[next].units, h.header[next].next)
                 ELSE Header(units, next)
        gone == (IF joins_next THEN {next} ELSE {}) \cup (IF joins_cur THEN {b} ELSE {})
    IN [slobfree |-> cur,
        header |-> [a \in (DOMAIN h.header \cup {b}) \ gone |->
            CASE a = cur /\ joins_cur  -> Header(h.header[cur].units + block.units, block.next)
              [] a = cur /\ ~joins_cur -> Header(h.header[cur].units, b)
              [] a = b                 -> block
              [] OTHER                 -> h.header[a]]]

\* Steps from slobfree to the free blocks with room.
Fits(h, units) == LET w == Walk(h) IN {n \in DOMAIN w \ {0} : h.header[w[n]].units >= units}

\* Takes the front of the first block with room: the heap and the block.
TakeFirst(h, units) ==
    LET w == Walk(h)
        n == Least(Fits(h, units))
        prev == w[n - 1]
        cur == w[n]
        room == h.header[cur].units
        rest == cur + units
        next == IF room = units THEN h.header[cur].next ELSE rest
    IN [block |-> cur,
        heap |-> [slobfree |-> prev,
                  header |-> [a \in DOMAIN h.header \cup (IF room = units THEN {} ELSE {rest}) |->
                      CASE a = prev -> Header(h.header[prev].units, next)
                        [] a = cur  -> Header(units, Arena)
                        [] a = rest /\ room # units -> Header(room - units, h.header[cur].next)
                        [] OTHER    -> h.header[a]]]]

\* The outcomes of slob_alloc: the heap grows by a page when no block has room.
slob_alloc(h, size) ==
    LET units == SLOB_UNITS(size) IN
    IF Fits(h, units) # {}
    THEN {[frames |-> frames] @@ TakeFirst(h, units)}
    ELSE {[frames |-> frames \ {page}]
             @@ TakeFirst(slob_free(h, FirstUnit(page), PageUnits), units) : page \in frames}

find_order(size) == Least({o \in 0 .. NPages : size \div 2 ^ o <= PAGE_SIZE})

Run(page, order) == page .. page + 2 ^ order - 1

-----------------------------------------------------------------------------

Init ==
    /\ heap = [header |-> [a \in {Arena} |-> Header(1, Arena)], slobfree |-> Arena]
    /\ bigblocks = <<>>
    /\ frames = Page
    /\ live = [p \in {} |-> 0]

IsSmall(n) == n < PAGE_SIZE - SLOB_UNIT

\* The caller gets the address after the header.
kmalloc_small(n) ==
    /\ IsSmall(n)
    /\ \E r \in slob_alloc(heap, n + SLOB_UNIT) :
        /\ heap' = r.heap /\ frames' = r.frames
        /\ live' = live @@ (r.block + 1 :> n)
    /\ UNCHANGED bigblocks

kmalloc_big(n) ==
    /\ ~IsSmall(n)
    /\ \E r \in slob_alloc(heap, DESC_SIZE) :
        LET order == find_order(n)
            runs == {page \in r.frames : Run(page, order) \subseteq r.frames}
        IN \/ \E page \in runs :
               /\ heap' = r.heap
               /\ frames' = r.frames \ Run(page, order)
               /\ bigblocks' = <<[at |-> r.block, order |-> order, page |-> page]>> \o bigblocks
               /\ live' = live @@ (FirstUnit(page) :> n)
           \/ /\ runs = {}
              /\ heap' = slob_free(r.heap, r.block, SLOB_UNITS(DESC_SIZE))
              /\ frames' = r.frames
              /\ UNCHANGED <<bigblocks, live>>

\* Mutant of Big: every block on a page boundary is taken for the newest big one.
Big_Aligned(p) == {n \in DOMAIN bigblocks : p % PageUnits = 0 /\ n = 1}

\* Positions in bigblocks of the block at p: only what lies on a page boundary may have one.
Big(p) ==
    {n \in DOMAIN bigblocks : p % PageUnits = 0 /\ FirstUnit(bigblocks[n].page) = p}

kfree(p) ==
    /\ IF Big(p) # {}
       THEN LET n == Least(Big(p))
                bb == bigblocks[n]
            IN /\ heap' = slob_free(heap, bb.at, SLOB_UNITS(DESC_SIZE))
               /\ frames' = frames \cup Run(bb.page, bb.order)
               /\ bigblocks' = RemoveAt(bigblocks, n)
       ELSE /\ heap' = slob_free(heap, p - 1, heap.header[p - 1].units)
            /\ UNCHANGED <<frames, bigblocks>>
    /\ live' = [q \in DOMAIN live \ {p} |-> live[q]]

Next ==
    \/ \E n \in Sizes : kmalloc_small(n) \/ kmalloc_big(n)
    \/ \E p \in DOMAIN live : kfree(p)

Spec == Init /\ [][Next]_vars

-----------------------------------------------------------------------------

Block(a) == a .. a + heap.header[a].units - 1
FreeBlocks == LET w == Walk(heap) IN {w[n] : n \in DOMAIN w}
BigPages == UNION {Run(bigblocks[n].page, bigblocks[n].order) : n \in DOMAIN bigblocks}
InUse == {bigblocks[n].at : n \in DOMAIN bigblocks}
         \cup {p - 1 : p \in {q \in DOMAIN live : Big(q) = {}}}

\* The list that slob_free and slob_alloc relink runs through the free blocks in the order
\* of their addresses, wraps once, and has no two that touch: everything freed is merged.
ListIsOrdered ==
    LET free == FreeBlocks
        next(a) == heap.header[a].next
        after(a) == {b \in free : b > a}
    IN \A a \in free :
        IF after(a) = {} THEN next(a) = Arena
        ELSE next(a) = Least(after(a)) /\ a + heap.header[a].units < next(a)

\* No unit of the heap's pages is lost or owned twice: free blocks, blocks in use and the
\* descriptions of big blocks tile the pages the heap took, and no page has two owners.
HeapTiled ==
    /\ frames \cap BigPages = {}
    /\ LET blocks == DOMAIN heap.header
           units == {Arena} \cup UNION {PageExtent(page) : page \in Page \ (frames \cup BigPages)}
       IN /\ InUse \subseteq blocks /\ FreeBlocks = blocks \ InUse
          /\ UNION {Block(a) : a \in blocks} = units
          /\ FoldSet(LAMBDA a, sum : sum + heap.header[a].units, 0, blocks) = Cardinality(units)

\* Neither order nor space is lost by any sequence of calls.
HeapConsistent == ListIsOrdered /\ HeapTiled

\* Slob implements Heap: what kmalloc returns is large enough and nobody else's, though
\* blocks are cut, merged, and told from pages by their alignment only.
Abstract == INSTANCE Heap WITH Unit <- SLOB_UNIT, MaxAddr <- (NPages + 1) * PageUnits

ImplementsHeap == Abstract!Spec
=============================================================================
