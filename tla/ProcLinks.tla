----------------------------- MODULE ProcLinks -----------------------------
(***************************************************************************)
(* The relation links of lab5/kern/process/proc.c as operations on a       *)
(* record of pointer fields.  A process's children form a doubly linked    *)
(* chain: cptr is the youngest child, optr the next older sibling, yptr    *)
(* the next younger one.  The four fields are functions from processes.    *)
(***************************************************************************)
EXTENDS ProcIds, FiniteSets, SequencesExt

idleproc == 0

Procs == UserPids \cup {idleproc, initproc}

Links == [parent : [Procs -> Procs \cup {NULL}],
          cptr   : [Procs -> Procs \cup {NULL}],
          yptr   : [Procs -> Procs \cup {NULL}],
          optr   : [Procs -> Procs \cup {NULL}]]

\* Write v through a pointer that may be NULL (the `if (... != NULL)' tests).
Through(f, p, v) == IF p = NULL THEN f ELSE [f EXCEPT ![p] = v]

\* The chain of p's children from the youngest on, as do_wait walks it.
\* A chain that runs into a cycle is cut after one entry per process.
Walk(L, p) ==
    LET node[k \in 1 .. Cardinality(Procs)] ==
            IF k = 1 THEN L.cptr[p]
            ELSE IF node[k - 1] = NULL THEN NULL ELSE L.optr[node[k - 1]]
    IN node

Children(L, p) ==
    LET node == Walk(L, p) IN
    SubSeq(node, 1, Cardinality({k \in DOMAIN node : node[k] # NULL}))

\* set_links: c becomes the youngest child of the parent it already names.
SetLinks(L, c) ==
    LET p == L.parent[c] IN
    [L EXCEPT !.yptr = Through([@ EXCEPT ![c] = NULL], L.cptr[p], c),
              !.optr[c] = L.cptr[p],
              !.cptr[p] = c]

\* Mutant of RemoveLinks: the older sibling keeps its pointer to c.
RemoveLinks_StaleYptr(L, c) ==
    [L EXCEPT !.optr = Through(@, L.yptr[c], L.optr[c]),
              !.cptr = IF L.yptr[c] = NULL
                       THEN [@ EXCEPT ![L.parent[c]] = L.optr[c]] ELSE @]

\* remove_links: c leaves the chain; its own fields are freed with it.
RemoveLinks(L, c) ==
    [L EXCEPT !.yptr = Through(@, L.optr[c], L.yptr[c]),
              !.optr = Through(@, L.yptr[c], L.optr[c]),
              !.cptr = IF L.yptr[c] = NULL
                       THEN [@ EXCEPT ![L.parent[c]] = L.optr[c]] ELSE @]

\* One round of do_exit's loop: q's youngest child moves to heir's chain.
Adopt(L, q, heir) ==
    LET c == L.cptr[q] IN
    [L EXCEPT !.yptr = Through([@ EXCEPT ![c] = NULL], L.cptr[heir], c),
              !.optr[c] = L.cptr[heir],
              !.cptr = [@ EXCEPT ![q] = L.optr[c], ![heir] = c],
              !.parent[c] = heir]

\* Mutant of AdoptAll: only the youngest child is handed over.
AdoptAll_OnlyFirst(L, q, heir) ==
    IF L.cptr[q] = NULL THEN L ELSE Adopt(L, q, heir)

\* The loop of do_exit: until q has no child left.
AdoptAll(L, q, heir) ==
    LET rounds == Len(Children(L, q))
        after[n \in 0 .. rounds] == IF n = 0 THEN L ELSE Adopt(after[n - 1], q, heir)
    IN after[rounds]

\* Among the processes of `alive', every chain holds exactly the processes
\* that name its owner as parent, once each, and yptr mirrors optr.
WellFormed(L, alive) ==
    \A p \in alive :
        LET kids == Children(L, p) IN
        /\ IsInjective(kids)
        /\ ToSet(kids) = {c \in alive : L.parent[c] = p}
        /\ \A k \in DOMAIN kids :
              L.yptr[kids[k]] = IF k = 1 THEN NULL ELSE kids[k - 1]
=============================================================================
