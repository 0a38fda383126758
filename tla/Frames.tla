------------------------------- MODULE Frames -------------------------------
(***************************************************************************)
(* The first-fit and best-fit page frame managers of lab2,                 *)
(* default_pmm.c and best_fit_pmm.c, which differ in the search loop.      *)
(* The doubly linked list of free blocks is modelled pointer by pointer.   *)
(***************************************************************************)
EXTENDS Integers, SequencesExt

CONSTANTS
    N,              \* page frames
    MaxRequest,     \* frames asked for in one call
    LastFrameUsed,  \* whether callers may be given the last frame
    NULL

ASSUME FramesAssumption ==
    /\ N \in Nat \ {0} /\ MaxRequest \in 1 .. N
    /\ LastFrameUsed \in BOOLEAN /\ NULL \notin 0 .. N

VARIABLES
    manager,        \* which manager pmm_manager points to
    area,           \* free_area, and the fields of struct Page it uses
    page,           \* what the last alloc_pages returned
    held,           \* the frames the callers hold
    alive           \* no assertion failed and no search runs for ever

vars == <<manager, area, page, held, alive>>

Frames == 0 .. N - 1
head == N           \* the list entry &free_list
Nodes == 0 .. N
Run(b, n) == b .. b + n - 1

-----------------------------------------------------------------------------

(***************************************************************************)
(* list.h, with the stores in their order: elm may be one of its future    *)
(* neighbours.                                                             *)
(***************************************************************************)
ListAddBetween(a, elm, prev, next) ==
    [a EXCEPT !.prev[next] = elm, !.next[prev] = elm,
              !.next[elm] = next, !.prev[elm] = prev]
ListAdd(a, p, elm) == ListAddBetween(a, elm, p, a.next[p])
ListAddBefore(a, p, elm) == ListAddBetween(a, elm, a.prev[p], p)
ListDel(a, elm) ==
    [a EXCEPT !.next[a.prev[elm]] = a.next[elm], !.prev[a.next[elm]] = a.prev[elm]]

\* The nodes that a loop `while ((le = list_next(le)) != &free_list)' visits,
\* in order.  On a list without a way back to the head it never ends.
Visits(a) ==
    LET at[i \in 0 .. N] == IF i = 0 THEN a.next[head]
                            ELSE IF at[i - 1] = head THEN head ELSE a.next[at[i - 1]]
        visited == {i \in 0 .. N : at[i] # head}
    IN [nodes |-> [i \in 1 .. Cardinality(visited) |-> at[i - 1]],
        ends |-> at[N] = head]
Listed(a) == Visits(a).nodes

-----------------------------------------------------------------------------

(***************************************************************************)
(* The insertion by address, of init_memmap and free_pages.  The loop adds *)
(* a block above all others behind the last one and goes on: it comes to   *)
(* the new block, the last one now, and adds it again, behind itself.      *)
(***************************************************************************)
Insert(a, base) ==
    LET list == Listed(a)
        above == {i \in DOMAIN list : base < list[i]}
        last == list[Len(list)]
    IN CASE list = <<>> -> ListAdd(a, head, base)
         [] above # {}  -> ListAddBefore(a, list[Min(above)], base)
         [] OTHER       -> ListAdd(ListAdd(a, last, base), base, base)

InsertEnds(a, base) == Visits(a).ends \/ \E p \in ToSet(Listed(a)) : base < p

FirstFit(a, n) ==
    LET list == Listed(a) IN
    list[Min({i \in DOMAIN list : a.property[list[i]] >= n})]

\* Mutant of BestFit: the last of the smallest, found with <=.
BestFit_Last(a, n) ==
    LET list == Listed(a)
        fits == {i \in DOMAIN list : a.property[list[i]] >= n}
        size == Min({a.property[list[i]] : i \in fits})
    IN list[Max({i \in fits : a.property[list[i]] = size})]

\* The first of the smallest blocks that are large enough.
BestFit(a, n) ==
    LET list == Listed(a)
        fits == {i \in DOMAIN list : a.property[list[i]] >= n}
        size == Min({a.property[list[i]] : i \in fits})
    IN list[Min({i \in fits : a.property[list[i]] = size})]

\* The page that alloc_pages finds.  best_fit looks at sizes up to nr_free.
Found(a, n) ==
    LET sizes == {a.property[p] : p \in ToSet(Listed(a))} IN
    IF n > a.nr_free \/ ~\E m \in sizes : m >= n /\ (manager = "default" \/ m <= a.nr_free)
    THEN NULL
    ELSE IF manager = "default" THEN FirstFit(a, n) ELSE BestFit(a, n)

SearchEnds(a, n) ==
    n > a.nr_free \/ Visits(a).ends \/ (manager = "default" /\ Found(a, n) # NULL)

\* The head of the block loses its PG_property; what is left of it takes its
\* place in the list.
Take(a, p, n) ==
    LET prev == a.prev[p]
        b == [ListDel(a, p) EXCEPT !.nr_free = @ - n, !.flagged = @ \ {p}]
    IN IF a.property[p] > n
       THEN ListAdd([b EXCEPT !.property[p + n] = a.property[p] - n,
                              !.flagged = @ \cup {p + n}], prev, p + n)
       ELSE b

\* p takes in the block q behind it.
Join(a, p, q) ==
    ListDel([a EXCEPT !.property[p] = @ + a.property[q], !.flagged = @ \ {q}], q)

Adjacent(a, p, q) == p # head /\ q # head /\ p + a.property[p] = q

\* Mutant of Merge: the block before is not merged.
Merge_NextOnly(a, base) ==
    IF Adjacent(a, base, a.next[base]) THEN Join(a, base, a.next[base]) ELSE a

\* free_pages, after the insertion: merge with the neighbours in the list.
Merge(a, base) ==
    LET before == Adjacent(a, a.prev[base], base)
        b == IF before THEN Join(a, a.prev[base], base) ELSE a
        p == IF before THEN a.prev[base] ELSE base
    IN IF Adjacent(b, p, b.next[p]) THEN Join(b, p, b.next[p]) ELSE b

-----------------------------------------------------------------------------

\* init and init_memmap of the whole memory.
Empty == [next |-> [x \in Nodes |-> head], prev |-> [x \in Nodes |-> head],
          property |-> [f \in Frames |-> 0], flagged |-> {}, nr_free |-> 0]
WithBlock(a, base, n) ==
    [a EXCEPT !.property[base] = n, !.flagged = @ \cup {base}, !.nr_free = @ + n]

Init ==
    /\ manager \in {"default", "best_fit"}
    /\ area = Insert(WithBlock(Empty, 0, N), 0)
    /\ page = NULL
    /\ held = {}
    /\ alive = TRUE

\* alloc_pages.
Alloc(n) ==
    LET p == Found(area, n)
        granted == IF p = NULL THEN {} ELSE Run(p, n)
    IN
    /\ LastFrameUsed \/ N - 1 \notin granted
    /\ page' = p
    /\ area' = IF p = NULL THEN area ELSE Take(area, p, n)
    /\ held' = held \cup granted
    /\ alive' = SearchEnds(area, n)
    /\ UNCHANGED manager

\* free_pages, of any consecutive frames the callers hold.  It asserts that
\* none of them is the head of a free block, and clears their flags.
Free(b, n) ==
    /\ Run(b, n) \subseteq held
    /\ LET a == WithBlock(area, b, n) IN
       /\ area' = Merge(Insert(a, b), b)
       /\ alive' = (Run(b, n) \cap area.flagged = {} /\ InsertEnds(a, b))
    /\ held' = held \ Run(b, n)
    /\ UNCHANGED <<manager, page>>

Next ==
    /\ alive
    /\ \/ \E n \in 1 .. MaxRequest : Alloc(n)
       \/ \E b \in Frames, n \in 1 .. N : Free(b, n)

Spec == Init /\ [][Next]_vars

-----------------------------------------------------------------------------

\* The list is ordered by address, in both directions, and its blocks are the
\* holes between the held frames: the insertion, split and merge of alloc_pages
\* and free_pages lose nothing, list nothing twice, leave nothing unmerged, and
\* fail no assertion.
ListIsHoles ==
    LET list == Listed(area) IN
    /\ \A i \in 1 .. Len(list) - 1 :
          /\ list[i] + area.property[list[i]] < list[i + 1]
          /\ area.prev[list[i + 1]] = list[i]
    /\ UNION {Run(p, area.property[p]) : p \in ToSet(list)} = Frames \ held
    /\ area.flagged = ToSet(list)
    /\ alive

\* What default_check and best_fit_check assert of the list: every block has
\* PG_property, and the sizes add up to nr_free.
ListMatchesCount ==
    LET blocks == ToSet(Listed(area)) IN
    /\ blocks \subseteq area.flagged
    /\ SumFunctionOnSet(area.property, blocks) = area.nr_free

(***************************************************************************)
(* Refinement: what the managers do with their list is what FreeFrames     *)
(* says of the set of free frames.                                         *)
(***************************************************************************)
Promise == INSTANCE FreeFrames WITH free <- Frames \ held

ImplementsFreeFrames == Promise!Spec
=============================================================================
