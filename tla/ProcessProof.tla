---------------------------- MODULE ProcessProof ----------------------------
(***************************************************************************)
(* Proofs about Process, for every finite set of pids: the sibling chains  *)
(* stay well formed, the structures agree, somebody can always run, init   *)
(* ends last, and the life cycle is that of ProcTree.                      *)
(***************************************************************************)
EXTENDS Process, ListLemmas, FiniteSetTheorems

(***************************************************************************)
(* The pointers of a process and those that point to it, process by        *)
(* process.  rank is the place in a chain: a sibling's optr is further on, *)
(* so that no chain is a cycle.                                            *)
(***************************************************************************)
Mirrored(M) ==
    \A q \in Procs :
        /\ M.cptr[q] # NULL => /\ M.parent[M.cptr[q]] = q
                               /\ M.yptr[M.cptr[q]] = NULL
        /\ M.optr[q] # NULL => /\ M.parent[q] # NULL
                               /\ M.parent[M.optr[q]] = M.parent[q]
                               /\ M.yptr[M.optr[q]] = q
        /\ M.yptr[q] # NULL => /\ M.parent[q] # NULL
                               /\ M.parent[M.yptr[q]] = M.parent[q]
                               /\ M.optr[M.yptr[q]] = q
        /\ M.parent[q] # NULL /\ M.yptr[q] = NULL => M.cptr[M.parent[q]] = q

Ranks(M, rank) ==
    /\ rank \in [Procs -> Nat]
    /\ \A q \in Procs : M.optr[q] # NULL => rank[q] < rank[M.optr[q]]

Chained(M) == M \in Links /\ Mirrored(M) /\ \E rank : Ranks(M, rank)

-----------------------------------------------------------------------------

(***************************************************************************)
(* The walk along a chain.                                                 *)
(***************************************************************************)

LEMMA ProcsFinite == IsFiniteSet(Procs) /\ Cardinality(Procs) \in Nat /\ NULL \notin Procs
<1>1. IsFiniteSet(UserPids \cup {idleproc}) 
  BY ProcessAssumption, FS_AddElement
<1>2. IsFiniteSet((UserPids \cup {idleproc}) \cup {initproc}) 
  BY <1>1, FS_AddElement
<1>3. (UserPids \cup {idleproc}) \cup {initproc} = Procs
  BY DEF Procs
<1>4. IsFiniteSet(Procs) /\ Cardinality(Procs) \in Nat
  BY <1>2, <1>3, FS_CardinalityType
<1>5. NULL \notin Procs
  BY ProcAssumption DEF Procs, idleproc, AnyChild
<1> QED
  BY <1>4, <1>5

\* The pointer that the walk follows after n nodes exists: so the recursive function does.
LEMMA WalkEquation ==
    ASSUME NEW M, NEW p
    PROVE  Walk(M, p) = [k \in 1 .. Cardinality(Procs) |->
                IF k = 1 THEN M.cptr[p]
                ELSE IF Walk(M, p)[k - 1] = NULL THEN NULL ELSE M.optr[Walk(M, p)[k - 1]]]
<1> DEFINE Eq(g, n) == g = [k \in 1 .. n |-> IF k = 1 THEN M.cptr[p]
                              ELSE IF g[k - 1] = NULL THEN NULL ELSE M.optr[g[k - 1]]]
           bad == {n \in Nat : ~\E g : Eq(g, n)}
           N == Cardinality(Procs)
<1>1. ASSUME bad # {} PROVE FALSE
  <2> DEFINE m == Min(bad)
  <2>1. m \in bad /\ \A n \in bad : m <= n
    BY <1>1, LeastOfNat
  <2>2. m # 0
    <3>1. Eq([k \in 1 .. 0 |-> 0], 0)
      OBVIOUS
    <3> QED
      BY <2>1, <3>1
  <2> HIDE DEF m
  <2>3. m \in Nat /\ m - 1 \in Nat /\ m - 1 \notin bad
    BY <2>1, <2>2
  <2>4. PICK g : Eq(g, m - 1)
    BY <2>3
  <2> DEFINE h == [k \in 1 .. m |-> IF k = 1 THEN M.cptr[p]
                     ELSE IF g[k - 1] = NULL THEN NULL ELSE M.optr[g[k - 1]]]
  <2>5. \A k \in 1 .. m - 1 : h[k] = g[k]
    BY <2>3, <2>4
  <2>6. Eq(h, m)
    <3> HIDE DEF h
    <3>1. \A k \in 1 .. m : k # 1 => h[k - 1] = g[k - 1]
      <4>1. \A k \in 1 .. m : k # 1 => k - 1 \in 1 .. m - 1
        BY <2>3
      <4> QED
        BY <2>5, <4>1
    <3> QED
      BY <3>1 DEF h
  <2> QED
    BY <2>1, <2>6
<1>2. \E g : Eq(g, N)
  BY <1>1, ProcsFinite
<1>3. Walk(M, p) = CHOOSE g : Eq(g, N)
  BY DEF Walk
<1> QED
  BY <1>2, <1>3


\* A node of the walk is a child of p, behind the node before it.
LEMMA WalkNodes ==
    ASSUME NEW M, Chained(M), NEW p \in Procs, NEW rank, Ranks(M, rank)
    PROVE  LET w == Walk(M, p)
               N == Cardinality(Procs)
           IN \A k \in 1 .. N :
                /\ w[k] \in Procs \cup {NULL}
                /\ w[k] = IF k = 1 THEN M.cptr[p]
                          ELSE IF w[k - 1] = NULL THEN NULL ELSE M.optr[w[k - 1]]
                /\ w[k] # NULL =>
                     /\ M.parent[w[k]] = p
                     /\ M.yptr[w[k]] = IF k = 1 THEN NULL ELSE w[k - 1]
                     /\ \A j \in 1 .. k - 1 : w[j] # NULL /\ rank[w[j]] < rank[w[k]]
<1> DEFINE w == Walk(M, p)
           N == Cardinality(Procs)
           Good(k) == /\ w[k] \in Procs \cup {NULL}
                      /\ w[k] # NULL =>
                           /\ M.parent[w[k]] = p
                           /\ M.yptr[w[k]] = IF k = 1 THEN NULL ELSE w[k - 1]
                           /\ \A j \in 1 .. k - 1 : w[j] # NULL /\ rank[w[j]] < rank[w[k]]
           bad == {k \in 1 .. N : ~Good(k)}
<1>1. \A k \in 1 .. N : w[k] = IF k = 1 THEN M.cptr[p]
                               ELSE IF w[k - 1] = NULL THEN NULL ELSE M.optr[w[k - 1]]
  <2>1. w = [k \in 1 .. N |-> IF k = 1 THEN M.cptr[p]
                              ELSE IF w[k - 1] = NULL THEN NULL ELSE M.optr[w[k - 1]]]
    BY WalkEquation
  <2> HIDE DEF w
  <2> QED
    BY <2>1
<1> HIDE DEF w
<1>2. NULL \notin Procs /\ N \in Nat
  BY ProcsFinite
<1>3. ASSUME bad # {} PROVE FALSE
  <2>1. PICK k \in bad : \A j \in bad : k <= j
    <3>1. bad \subseteq Nat
      BY <1>2
    <3> QED
      BY <1>3, <3>1, LeastOfNat
  <2>2. k \in 1 .. N /\ ~Good(k) /\ \A j \in 1 .. k - 1 : Good(j)
    BY <1>2, <2>1
  <2>3. CASE k = 1
    <3>1. w[1] = M.cptr[p] /\ w[1] \in Procs \cup {NULL}
      BY <1>1, <2>2, <2>3 DEF Chained, Links
    <3> QED
      BY <1>2, <2>2, <2>3, <3>1 DEF Chained, Mirrored
  <2>4. CASE k # 1
    <3>1. k - 1 \in 1 .. k - 1 /\ k \in Nat
      BY <1>2, <2>2, <2>4
    <3>2. Good(k - 1)
      BY <2>2, <3>1
    <3>3. w[k] = IF w[k - 1] = NULL THEN NULL ELSE M.optr[w[k - 1]]
      BY <1>1, <2>2, <2>4
    <3>4. CASE w[k] = NULL
      BY <2>2, <3>4
    <3>5. CASE w[k] # NULL
      <4>1. w[k - 1] \in Procs /\ w[k] = M.optr[w[k - 1]] /\ w[k] \in Procs
        BY <3>2, <3>3, <3>5 DEF Chained, Links
      <4>2. /\ M.parent[w[k]] = p /\ M.yptr[w[k]] = w[k - 1]
            /\ rank[w[k - 1]] < rank[w[k]]
        BY <1>2, <3>2, <3>5, <4>1 DEF Chained, Mirrored, Ranks
      <4>3. ASSUME NEW j \in 1 .. k - 1
            PROVE  w[j] # NULL /\ rank[w[j]] < rank[w[k]]
        <5>1. CASE j = k - 1
          BY <1>2, <4>1, <4>2, <5>1
        <5>2. CASE j # k - 1
          <6>1. j \in 1 .. (k - 1) - 1
            BY <3>1, <5>2
          <6>2. w[j] # NULL /\ rank[w[j]] < rank[w[k - 1]]
            BY <1>2, <3>2, <4>1, <6>1
          <6>3. w[j] \in Procs
            BY <2>2, <4>3, <6>2
          <6> QED
            BY <4>1, <4>2, <6>2, <6>3 DEF Ranks
        <5> QED
          BY <5>1, <5>2
      <4> QED
        BY <2>2, <2>4, <4>1, <4>2, <4>3
    <3> QED
      BY <3>4, <3>5
  <2> QED
    BY <2>3, <2>4
<1>4. \A k \in 1 .. N : Good(k)
  BY <1>3
<1> QED
  BY <1>1, <1>4 DEF w

\* What is left of the walk without its end: every child of p once, in the
\* order of the pointers.
LEMMA KidsInOrder ==
    ASSUME NEW M, Chained(M), NEW p \in Procs
    PROVE  LET s == Children(M, p) IN
           /\ s \in Seq(Procs) /\ IsInjective(s)
           /\ ToSet(s) = {c \in Procs : M.parent[c] = p}
           /\ M.cptr[p] = IF s = <<>> THEN NULL ELSE s[1]
           /\ \A k \in 1 .. Len(s) :
                 /\ M.yptr[s[k]] = IF k = 1 THEN NULL ELSE s[k - 1]
                 /\ M.optr[s[k]] = IF k = Len(s) THEN NULL ELSE s[k + 1]
<1> DEFINE w == Walk(M, p)
           N == Cardinality(Procs)
           s == Children(M, p)
           full == {k \in DOMAIN w : w[k] # NULL}
           m == Cardinality(full)
<1>1. PICK rank : Ranks(M, rank)
  BY DEF Chained
<1>2. NULL \notin Procs /\ N \in Nat /\ IsFiniteSet(Procs)
  BY ProcsFinite
<1>3. DOMAIN w = 1 .. N /\ w = [k \in 1 .. N |-> w[k]]
  <2>1. w = [k \in 1 .. N |-> IF k = 1 THEN M.cptr[p]
                              ELSE IF w[k - 1] = NULL THEN NULL ELSE M.optr[w[k - 1]]]
    BY WalkEquation
  <2> HIDE DEF w, N
  <2> QED
    BY <2>1
<1>4. \A k \in 1 .. N :
         /\ w[k] \in Procs \cup {NULL}
         /\ w[k] = IF k = 1 THEN M.cptr[p]
                   ELSE IF w[k - 1] = NULL THEN NULL ELSE M.optr[w[k - 1]]
         /\ w[k] # NULL =>
              /\ M.parent[w[k]] = p
              /\ M.yptr[w[k]] = IF k = 1 THEN NULL ELSE w[k - 1]
              /\ \A j \in 1 .. k - 1 : w[j] # NULL /\ rank[w[j]] < rank[w[k]]
  BY <1>1, WalkNodes
<1>5. s = SubSeq(w, 1, m)
  BY DEF Children
<1> HIDE DEF w, s
<1>6. m \in 0 .. N /\ full = 1 .. m
  <2>1. PICK l \in 0 .. N : full = 1 .. l
    <3>1. CASE full = 1 .. N
      BY <1>2, <3>1
    <3>2. CASE full # 1 .. N
      <4> DEFINE ends == {k \in 1 .. N : w[k] = NULL}
      <4>1. ends \subseteq Nat /\ ends # {}
        BY <1>2, <1>3, <3>2
      <4>2. PICK e \in ends : \A x \in ends : e <= x
        BY <4>1, LeastOfNat
      <4>3. e \in 1 .. N /\ w[e] = NULL /\ e - 1 \in 0 .. N
        BY <1>2, <4>2
      <4>4. \A k \in 1 .. e - 1 : k \in 1 .. N /\ w[k] # NULL
        BY <1>2, <4>2, <4>3
      <4>5. \A k \in 1 .. N : w[k] # NULL => k \in 1 .. e - 1
        BY <1>2, <1>4, <4>3
      <4>6. full = 1 .. e - 1
        BY <1>3, <4>4, <4>5
      <4> QED
        BY <4>3, <4>6
    <3> QED
      BY <3>1, <3>2
  <2>2. Cardinality(1 .. l) = l
    BY <1>2, <2>1, FS_Interval
  <2> QED
    BY <2>1, <2>2
<1>7. \A k \in 1 .. N : k \in 1 .. m <=> w[k] # NULL
  BY <1>2, <1>3, <1>6
<1> HIDE DEF m, full
<1>8. s = [k \in 1 .. m |-> w[k]] /\ s \in Seq(Procs) /\ Len(s) = m
  <2>1. w \in Seq(Procs \cup {NULL}) /\ Len(w) = N
    <3>1. w \in [1 .. N -> Procs \cup {NULL}]
      <4> HIDE DEF N
      <4> QED
        BY <1>3, <1>4
    <3> QED
      BY <1>2, <3>1, LenProperties
  <2>2. Len(s) = m /\ DOMAIN s = 1 .. m /\ s \in Seq(Procs \cup {NULL})
        /\ \A k \in 1 .. m : s[k] = w[k]
    BY <1>2, <1>5, <1>6, <2>1, SubSeqProperties
  <2>3. s = [k \in 1 .. m |-> w[k]]
    BY <2>2
  <2>4. \A k \in 1 .. m : w[k] \in Procs
    BY <1>2, <1>4, <1>6, <1>7
  <2> QED
    BY <1>6, <2>2, <2>3, <2>4
<1>9. ASSUME NEW a \in 1 .. m, NEW b \in 1 .. m, a < b
      PROVE  s[a] # s[b]
  <2>1. w[a] \in Procs /\ w[b] \in Procs /\ rank[w[a]] < rank[w[b]]
    BY <1>2, <1>4, <1>6, <1>7, <1>9
  <2> QED
    BY <1>1, <1>8, <2>1 DEF Ranks
<1>10. IsInjective(s)
  BY <1>6, <1>8, <1>9 DEF IsInjective
<1>11. \A k \in 1 .. m :
          /\ s[k] \in Procs /\ M.parent[s[k]] = p
          /\ M.yptr[s[k]] = IF k = 1 THEN NULL ELSE s[k - 1]
  BY <1>2, <1>4, <1>6, <1>7, <1>8
<1>12. ASSUME NEW k \in 1 .. m
       PROVE  M.optr[s[k]] = IF k = m THEN NULL ELSE s[k + 1]
  <2>1. CASE k # m
    <3>1. k + 1 \in 1 .. m /\ k + 1 # 1 /\ (k + 1) - 1 = k /\ k + 1 \in 1 .. N /\ k \in 1 .. N
      BY <1>2, <1>6, <2>1
    <3>2. w[k + 1] = M.optr[w[k]]
      BY <1>4, <1>7, <3>1
    <3> QED
      BY <1>8, <2>1, <3>1, <3>2
  <2>2. CASE k = m /\ m # N
    <3>1. k + 1 \notin 1 .. m /\ k + 1 # 1 /\ (k + 1) - 1 = k /\ k + 1 \in 1 .. N /\ k \in 1 .. N
      BY <1>2, <1>6, <2>2
    <3>2. w[k + 1] = NULL /\ w[k + 1] = M.optr[w[k]]
      BY <1>4, <1>7, <3>1
    <3> QED
      BY <1>8, <2>2, <3>2
  <2>3. CASE k = m /\ m = N
    <3>1. SUFFICES ASSUME M.optr[s[k]] # NULL PROVE FALSE
      BY <2>3
    <3>2. M.optr[s[k]] \in Procs /\ rank[s[k]] < rank[M.optr[s[k]]]
      BY <1>1, <1>11, <3>1 DEF Chained, Links, Ranks
    <3>3. s \in Injection(1 .. N, Procs)
      BY <1>8, <1>10, <2>3 DEF Injection, IsInjective
    <3>4. Cardinality(1 .. N) = N
      BY <1>2, FS_Interval
    <3>5. s \in Surjection(1 .. N, Procs)
      BY <1>2, <3>3, <3>4, FS_Injection
    <3>6. PICK j \in 1 .. N : s[j] = M.optr[s[k]]
      BY <3>2, <3>5 DEF Surjection
    <3>7. j = k \/ j \in 1 .. k - 1
      BY <1>2, <1>6, <2>3, <3>6
    <3>8. CASE j = k
      BY <1>1, <3>2, <3>6, <3>8 DEF Ranks
    <3>9. CASE j \in 1 .. k - 1
      <4>1. rank[w[j]] < rank[w[k]] /\ w[j] = s[j] /\ w[k] = s[k]
        BY <1>4, <1>7, <1>8, <2>3, <3>6, <3>9
      <4> QED
        BY <1>1, <1>11, <2>3, <3>2, <3>6, <4>1 DEF Ranks
    <3> QED
      BY <3>7, <3>8, <3>9
  <2> QED
    BY <2>1, <2>2, <2>3
<1>13. DOMAIN s = 1 .. m /\ ToSet(s) = {s[k] : k \in 1 .. m}
  BY <1>8 DEF ToSet
<1>14. M.cptr[p] = IF s = <<>> THEN NULL ELSE s[1]
  <2>1. 1 \in 1 .. N
    <3>1. N # 0
      BY <1>2, FS_EmptySet
    <3> QED
      BY <1>2, <3>1
  <2>2. w[1] = M.cptr[p]
    BY <1>4, <2>1
  <2>3. CASE m = 0
    BY <1>7, <1>8, <2>1, <2>2, <2>3
  <2>4. CASE m # 0
    BY <1>6, <1>8, <2>2, <2>4
  <2> QED
    BY <2>3, <2>4
<1>15. ASSUME NEW c \in Procs, M.parent[c] = p, c \notin ToSet(s)
       PROVE  FALSE
  <2> DEFINE lost == {d \in Procs : M.parent[d] = p /\ d \notin ToSet(s)}
             at == {rank[d] : d \in lost}
  <2>1. at \subseteq Nat /\ at # {}
    BY <1>1, <1>15 DEF Ranks
  <2>2. PICK d \in lost : \A x \in lost : rank[d] <= rank[x]
    <3>1. PICK r \in at : \A x \in at : r <= x
      BY <2>1, LeastOfNat
    <3> QED
      BY <3>1
  <2>3. CASE M.yptr[d] = NULL
    <3>1. M.cptr[p] = d
      BY <1>2, <2>2, <2>3 DEF Chained, Mirrored
    <3>2. s # <<>> /\ s[1] = d
      BY <1>2, <1>14, <2>2, <3>1
    <3>3. 1 \in 1 .. m
      BY <1>6, <1>8, <3>2
    <3> QED
      BY <1>13, <2>2, <3>2, <3>3
  <2>4. CASE M.yptr[d] # NULL
    <3> DEFINE y == M.yptr[d]
    <3>1. y \in Procs /\ M.parent[y] = p /\ M.optr[y] = d
      BY <2>2, <2>4 DEF Chained, Mirrored, Links
    <3>2. rank[y] < rank[d]
      BY <1>1, <1>2, <2>2, <3>1 DEF Ranks
    <3>3. y \in ToSet(s)
      BY <1>1, <2>2, <3>1, <3>2 DEF Ranks
    <3>4. PICK k \in 1 .. m : s[k] = y
      BY <1>13, <3>3
    <3>5. k # m /\ s[k + 1] = d
      BY <1>2, <1>12, <2>2, <3>1, <3>4
    <3>6. k + 1 \in 1 .. m
      BY <1>6, <3>5
    <3> QED
      BY <1>13, <2>2, <3>5, <3>6
  <2> QED
    BY <2>3, <2>4
<1>16. ToSet(s) = {c \in Procs : M.parent[c] = p}
  BY <1>11, <1>13, <1>15
<1> QED
  BY <1>8, <1>10, <1>11, <1>12, <1>14, <1>16 DEF s

-----------------------------------------------------------------------------

(***************************************************************************)
(* The operations on the links.                                            *)
(***************************************************************************)

\* set_links on a process that has no parent yet.
LEMMA SetLinksChained ==
    ASSUME NEW M, Chained(M), NEW p \in Procs, NEW c \in Procs,
           c # p, M.parent[c] = NULL
    PROVE  LET R == SetLinks([M EXCEPT !.parent[c] = p], c) IN
           /\ Chained(R)
           /\ R.parent = [M.parent EXCEPT ![c] = p]
<1> DEFINE R == SetLinks([M EXCEPT !.parent[c] = p], c)
           h == M.cptr[p]
<1>1. NULL \notin Procs
  BY ProcsFinite
<1>2. M \in Links /\ Mirrored(M) /\ h \in Procs \cup {NULL}
  BY DEF Chained, Links
<1>3. PICK rank : Ranks(M, rank)
  BY DEF Chained
<1>4. /\ R \in Links
      /\ R.parent = [M.parent EXCEPT ![c] = p]
      /\ R.cptr = [M.cptr EXCEPT ![p] = c]
      /\ R.optr = [M.optr EXCEPT ![c] = h]
      /\ R.yptr = [x \in Procs |-> IF x = h THEN c ELSE IF x = c THEN NULL ELSE M.yptr[x]]
  <2> DEFINE M1 == [M EXCEPT !.parent[c] = p]
  <2>1. /\ M1 \in Links /\ M1.parent = [M.parent EXCEPT ![c] = p]
        /\ M1.cptr = M.cptr /\ M1.yptr = M.yptr /\ M1.optr = M.optr
    BY <1>2 DEF Links
  <2> HIDE DEF M1
  <2>2. M1.parent[c] = p
    BY <1>2, <2>1 DEF Links
  <2> DEFINE yp == Through([M1.yptr EXCEPT ![c] = NULL], h, c)
  <2>3. R = [M1 EXCEPT !.yptr = yp, !.optr[c] = h, !.cptr[p] = c]
    BY <2>1, <2>2 DEF SetLinks, M1
  <2>4. yp = [x \in Procs |-> IF x = h THEN c ELSE IF x = c THEN NULL ELSE M.yptr[x]]
    <3> HIDE DEF h
    <3> QED
      BY <1>1, <1>2, <2>1 DEF Through, Links
  <2> HIDE DEF R, h, yp
  <2>5. R.parent = M1.parent /\ R.cptr = [M1.cptr EXCEPT ![p] = c] 
        /\ R.optr = [M1.optr EXCEPT ![c] = h] /\ R.yptr = yp
    BY <2>1, <2>3 DEF Links
  <2>6. yp \in [Procs -> Procs \cup {NULL}]
    BY <1>1, <1>2, <2>4 DEF Links
  <2>7. R \in Links
    BY <1>2, <2>1, <2>3, <2>6 DEF Links
  <2> QED
    BY <2>1, <2>4, <2>5, <2>7
<1>5. /\ M.optr[c] = NULL /\ M.yptr[c] = NULL
      /\ \A x \in Procs : M.optr[x] # c /\ M.yptr[x] # c /\ M.cptr[x] # c
      /\ h # c
  BY <1>1, <1>2 DEF Mirrored
<1> HIDE DEF R, h
<1>6. Mirrored(R)
  <2> SUFFICES ASSUME NEW q \in Procs
               PROVE  /\ R.cptr[q] # NULL => /\ R.parent[R.cptr[q]] = q
                                             /\ R.yptr[R.cptr[q]] = NULL
                      /\ R.optr[q] # NULL => /\ R.parent[q] # NULL
                                             /\ R.parent[R.optr[q]] = R.parent[q]
                                             /\ R.yptr[R.optr[q]] = q
                      /\ R.yptr[q] # NULL => /\ R.parent[q] # NULL
                                             /\ R.parent[R.yptr[q]] = R.parent[q]
                                             /\ R.optr[R.yptr[q]] = q
                      /\ R.parent[q] # NULL /\ R.yptr[q] = NULL => R.cptr[R.parent[q]] = q
    BY DEF Mirrored
  <2>1. R.cptr[q] # NULL => R.parent[R.cptr[q]] = q /\ R.yptr[R.cptr[q]] = NULL
    BY <1>1, <1>2, <1>4, <1>5 DEF Mirrored, Links, h
  <2>2. R.optr[q] # NULL => /\ R.parent[q] # NULL
                            /\ R.parent[R.optr[q]] = R.parent[q]
                            /\ R.yptr[R.optr[q]] = q
    BY <1>1, <1>2, <1>4, <1>5 DEF Mirrored, Links, h
  <2>3. R.yptr[q] # NULL => /\ R.parent[q] # NULL
                            /\ R.parent[R.yptr[q]] = R.parent[q]
                            /\ R.optr[R.yptr[q]] = q
    BY <1>1, <1>2, <1>4, <1>5 DEF Mirrored, Links, h
  <2>4. R.parent[q] # NULL /\ R.yptr[q] = NULL => R.cptr[R.parent[q]] = q
    BY <1>1, <1>2, <1>4, <1>5 DEF Mirrored, Links, h
  <2> QED
    BY <2>1, <2>2, <2>3, <2>4
<1>7. Ranks(R, [x \in Procs |-> IF x = c THEN 0 ELSE rank[x] + 1])
  BY <1>1, <1>2, <1>3, <1>4, <1>5 DEF Ranks, Links
<1> QED
  BY <1>4, <1>6, <1>7 DEF Chained, R

\* remove_links, and the fields of c freed with it; c has no child.
LEMMA RemoveLinksChained ==
    ASSUME NEW M, Chained(M), NEW c \in Procs,
           M.parent[c] \in Procs \ {c}, M.cptr[c] = NULL
    PROVE  LET R == [RemoveLinks(M, c) EXCEPT !.parent[c] = NULL, !.cptr[c] = NULL,
                                              !.yptr[c] = NULL, !.optr[c] = NULL]
           IN /\ Chained(R)
              /\ R.parent = [M.parent EXCEPT ![c] = NULL]
<1> DEFINE R == [RemoveLinks(M, c) EXCEPT !.parent[c] = NULL, !.cptr[c] = NULL,
                                          !.yptr[c] = NULL, !.optr[c] = NULL]
           p == M.parent[c]
           y == M.yptr[c]
           o == M.optr[c]
<1>1. NULL \notin Procs
  BY ProcsFinite
<1>2. M \in Links /\ Mirrored(M) /\ y \in Procs \cup {NULL} /\ o \in Procs \cup {NULL}
  BY DEF Chained, Links
<1>3. PICK rank : Ranks(M, rank)
  BY DEF Chained
<1>4. /\ R \in Links
      /\ R.parent = [M.parent EXCEPT ![c] = NULL]
      /\ R.cptr = [x \in Procs |-> IF x = c THEN NULL ELSE IF x = p /\ y = NULL THEN o
                                   ELSE M.cptr[x]]
      /\ R.yptr = [x \in Procs |-> IF x = c THEN NULL ELSE IF x = o THEN y ELSE M.yptr[x]]
      /\ R.optr = [x \in Procs |-> IF x = c THEN NULL ELSE IF x = y THEN o ELSE M.optr[x]]
  <2> DEFINE yp == Through(M.yptr, o, y)
             op == Through(M.optr, y, o)
             cp == IF y = NULL THEN [M.cptr EXCEPT ![p] = o] ELSE M.cptr
             M1 == [M EXCEPT !.yptr = yp, !.optr = op, !.cptr = cp]
  <2>1. RemoveLinks(M, c) = M1
    BY <1>2 DEF RemoveLinks, Links
  <2>2. R = [M1 EXCEPT !.parent[c] = NULL, !.cptr[c] = NULL,
                       !.yptr[c] = NULL, !.optr[c] = NULL]
    BY <2>1
  <2> HIDE DEF R, y, o, p
  <2>3. /\ yp = [x \in Procs |-> IF x = o THEN y ELSE M.yptr[x]]
        /\ op = [x \in Procs |-> IF x = y THEN o ELSE M.optr[x]]
        /\ cp = [x \in Procs |-> IF x = p /\ y = NULL THEN o ELSE M.cptr[x]]
    BY <1>1, <1>2 DEF Through, Links
  <2> HIDE DEF yp, op, cp
  <2>4. /\ yp \in [Procs -> Procs \cup {NULL}] /\ op \in [Procs -> Procs \cup {NULL}]
        /\ cp \in [Procs -> Procs \cup {NULL}]
    BY <1>2, <2>3 DEF Links
  <2>5. /\ M1 \in Links /\ M1.parent = M.parent
        /\ M1.yptr = yp /\ M1.optr = op /\ M1.cptr = cp
    BY <1>2, <2>4 DEF Links
  <2> HIDE DEF M1
  <2>6. /\ R \in Links /\ R.parent = [M1.parent EXCEPT ![c] = NULL]
        /\ R.yptr = [yp EXCEPT ![c] = NULL] /\ R.optr = [op EXCEPT ![c] = NULL]
        /\ R.cptr = [cp EXCEPT ![c] = NULL]
    BY <2>2, <2>5 DEF Links
  <2>7. [yp EXCEPT ![c] = NULL]
           = [x \in Procs |-> IF x = c THEN NULL ELSE IF x = o THEN y ELSE M.yptr[x]]
    BY <2>3
  <2>8. [op EXCEPT ![c] = NULL]
           = [x \in Procs |-> IF x = c THEN NULL ELSE IF x = y THEN o ELSE M.optr[x]]
    BY <2>3
  <2>9. [cp EXCEPT ![c] = NULL]
           = [x \in Procs |-> IF x = c THEN NULL ELSE IF x = p /\ y = NULL THEN o
                              ELSE M.cptr[x]]
    BY <2>3
  <2> QED
    BY <2>5, <2>6, <2>7, <2>8, <2>9
<1>5. /\ \A x \in Procs : M.parent[x] # c
      /\ \A x \in Procs : M.cptr[x] = c => x = p /\ y = NULL
      /\ \A x \in Procs : M.optr[x] = c => x = y
      /\ \A x \in Procs : M.yptr[x] = c => x = o
  <2>1. ASSUME NEW x \in Procs, M.parent[x] = c PROVE FALSE
    <3>1. ToSet(Children(M, c)) = {} /\ x \in {d \in Procs : M.parent[d] = c}
      <4>1. Children(M, c) = <<>>
        <5>1. Children(M, c) # <<>> => Children(M, c)[1] \in Procs
          BY KidsInOrder
        <5> QED
          BY <1>1, <5>1, KidsInOrder
      <4> QED
        BY <2>1, <4>1 DEF ToSet
    <3> QED
      BY <3>1, KidsInOrder
  <2>2. \A x \in Procs : M.cptr[x] = c => x = p /\ y = NULL
    BY <1>1, <1>2 DEF Mirrored
  <2>3. \A x \in Procs : M.optr[x] = c => x = y
    BY <1>1, <1>2 DEF Mirrored
  <2>4. \A x \in Procs : M.yptr[x] = c => x = o
    BY <1>1, <1>2 DEF Mirrored
  <2> QED
    BY <2>1, <2>2, <2>3, <2>4
<1>6. /\ y # NULL => M.parent[y] = p /\ M.optr[y] = c /\ y # c
      /\ o # NULL => M.parent[o] = p /\ M.yptr[o] = c /\ o # c
      /\ y # NULL /\ o # NULL => y # o
      /\ y = NULL => M.cptr[p] = c
      /\ p # c /\ p \in Procs
  <2>1. /\ y # NULL => M.parent[y] = p /\ M.optr[y] = c
        /\ o # NULL => M.parent[o] = p /\ M.yptr[o] = c
        /\ y = NULL => M.cptr[p] = c
    BY <1>1, <1>2 DEF Mirrored
  <2>2. y # NULL => rank[y] < rank[c] /\ rank[y] \in Nat /\ rank[c] \in Nat
    BY <1>1, <1>2, <1>3, <2>1 DEF Ranks
  <2>3. o # NULL => rank[c] < rank[o] /\ rank[o] \in Nat /\ rank[c] \in Nat
    BY <1>1, <1>2, <1>3, <2>1 DEF Ranks
  <2> HIDE DEF y, o
  <2>4. (y # NULL => y # c) /\ (o # NULL => o # c) /\ (y # NULL /\ o # NULL => y # o)
    BY <2>2, <2>3
  <2> QED
    BY <2>1, <2>4
<1> HIDE DEF R, p, y, o
<1>7. Mirrored(R)
  <2> SUFFICES ASSUME NEW q \in Procs
               PROVE  /\ R.cptr[q] # NULL => /\ R.parent[R.cptr[q]] = q
                                             /\ R.yptr[R.cptr[q]] = NULL
                      /\ R.optr[q] # NULL => /\ R.parent[q] # NULL
                                             /\ R.parent[R.optr[q]] = R.parent[q]
                                             /\ R.yptr[R.optr[q]] = q
                      /\ R.yptr[q] # NULL => /\ R.parent[q] # NULL
                                             /\ R.parent[R.yptr[q]] = R.parent[q]
                                             /\ R.optr[R.yptr[q]] = q
                      /\ R.parent[q] # NULL /\ R.yptr[q] = NULL => R.cptr[R.parent[q]] = q
    BY DEF Mirrored
  <2>1. R.cptr[q] # NULL => R.parent[R.cptr[q]] = q /\ R.yptr[R.cptr[q]] = NULL
    BY <1>1, <1>2, <1>4, <1>5, <1>6 DEF Mirrored, Links
  <2>2. R.optr[q] # NULL => /\ R.parent[q] # NULL
                            /\ R.parent[R.optr[q]] = R.parent[q]
                            /\ R.yptr[R.optr[q]] = q
    BY <1>1, <1>2, <1>4, <1>5, <1>6 DEF Mirrored, Links
  <2>3. R.yptr[q] # NULL => /\ R.parent[q] # NULL
                            /\ R.parent[R.yptr[q]] = R.parent[q]
                            /\ R.optr[R.yptr[q]] = q
    BY <1>1, <1>2, <1>4, <1>5, <1>6 DEF Mirrored, Links
  <2>4. R.parent[q] # NULL /\ R.yptr[q] = NULL => R.cptr[R.parent[q]] = q
    BY <1>1, <1>2, <1>4, <1>5, <1>6 DEF Mirrored, Links
  <2> QED
    BY <2>1, <2>2, <2>3, <2>4
<1>8. Ranks(R, rank)
  <2>1. y # NULL /\ o # NULL => rank[y] < rank[o]
    BY <1>1, <1>2, <1>3, <1>6 DEF Ranks, o
  <2> QED
    BY <1>1, <1>2, <1>3, <1>4, <1>5, <1>6, <2>1 DEF Ranks, Links
<1> QED
  BY <1>4, <1>7, <1>8 DEF Chained, R

\* The links once the youngest child of q forgets the sibling that left the
\* chain before it: do_exit resets its yptr only in the next round.
Settled(M, q) ==
    [M EXCEPT !.yptr = [x \in Procs |-> IF x = M.cptr[q] THEN NULL ELSE M.yptr[x]]]

\* One round of do_exit's loop moves one process from a chain to another.
LEMMA AdoptOne ==
    ASSUME NEW M \in Links, NEW q \in Procs, NEW heir \in Procs, q # heir,
           Chained(Settled(M, q)), M.cptr[q] \in Procs \ {heir}
    PROVE  LET R == Adopt(M, q, heir)
               c == M.cptr[q]
           IN /\ R \in Links /\ Chained(Settled(R, q))
              /\ R.parent = [M.parent EXCEPT ![c] = heir]
              /\ R.cptr[q] = M.optr[c]
              /\ \A x \in Procs \ {c} : R.optr[x] = M.optr[x]
<1> DEFINE R == Adopt(M, q, heir)
           S == Settled(M, q)
           T == Settled(R, q)
           c == M.cptr[q]
           h == M.cptr[heir]
           o == M.optr[c]
<1>1. NULL \notin Procs
  BY ProcsFinite
<1>2. /\ S \in Links /\ S.parent = M.parent /\ S.cptr = M.cptr /\ S.optr = M.optr
      /\ S.yptr = [x \in Procs |-> IF x = c THEN NULL ELSE M.yptr[x]]
  BY <1>1 DEF Settled, Links
<1>3. Mirrored(S) /\ c \in Procs /\ h \in Procs \cup {NULL} /\ o \in Procs \cup {NULL}
  BY DEF Chained, Links
<1>4. PICK rank : Ranks(S, rank)
  BY DEF Chained
<1>5. /\ R \in Links
      /\ R.parent = [M.parent EXCEPT ![c] = heir]
      /\ R.cptr = [x \in Procs |-> IF x = heir THEN c ELSE IF x = q THEN o ELSE M.cptr[x]]
      /\ R.optr = [M.optr EXCEPT ![c] = h]
      /\ R.yptr = [x \in Procs |-> IF x = h THEN c ELSE IF x = c THEN NULL ELSE M.yptr[x]]
  <2> DEFINE yp == Through([M.yptr EXCEPT ![c] = NULL], h, c)
             cp == [M.cptr EXCEPT ![q] = o, ![heir] = c]
  <2>1. R = [M EXCEPT !.yptr = yp, !.optr[c] = h, !.cptr = cp, !.parent[c] = heir]
    BY DEF Adopt, Links
  <2> HIDE DEF R, h, o, c
  <2>2. yp = [x \in Procs |-> IF x = h THEN c ELSE IF x = c THEN NULL ELSE M.yptr[x]]
    BY <1>1, <1>3 DEF Through, Links
  <2>3. cp = [x \in Procs |-> IF x = heir THEN c ELSE IF x = q THEN o ELSE M.cptr[x]]
    BY <1>3 DEF Links
  <2> HIDE DEF yp, cp
  <2>4. yp \in [Procs -> Procs \cup {NULL}] /\ cp \in [Procs -> Procs \cup {NULL}]
    BY <1>3, <2>2, <2>3 DEF Links
  <2>5. R \in Links /\ R.parent = [M.parent EXCEPT ![c] = heir]
        /\ R.cptr = cp /\ R.yptr = yp /\ R.optr = [M.optr EXCEPT ![c] = h]
    BY <1>3, <2>1, <2>4 DEF Links
  <2> QED
    BY <2>2, <2>3, <2>5
<1> HIDE DEF R, S
<1>6. /\ T \in Links /\ T.parent = R.parent /\ T.cptr = R.cptr /\ T.optr = R.optr
      /\ T.yptr = [x \in Procs |-> IF x = o THEN NULL ELSE R.yptr[x]]
  <2>1. R.cptr[q] = o
    BY <1>5
  <2> QED
    BY <1>5, <2>1 DEF Settled, Links
<1>7. /\ S.parent[c] = q /\ S.yptr[c] = NULL
      /\ \A x \in Procs : S.cptr[x] = c => x = q
      /\ \A x \in Procs : S.optr[x] # c
      /\ \A x \in Procs : S.yptr[x] = c => x = o
      /\ h # c /\ (o # NULL => o # c /\ S.yptr[o] = c /\ S.parent[o] = q)
      /\ (o # NULL => o # h)
      /\ (h # NULL => S.parent[h] = heir /\ S.yptr[h] = NULL)
  <2>1. /\ S.parent[c] = q /\ S.yptr[c] = NULL
        /\ \A x \in Procs : S.cptr[x] = c => x = q
        /\ \A x \in Procs : S.optr[x] # c
        /\ \A x \in Procs : S.yptr[x] = c => x = o
        /\ (o # NULL => S.yptr[o] = c /\ S.parent[o] = q)
        /\ (h # NULL => S.parent[h] = heir /\ S.yptr[h] = NULL)
    BY <1>1, <1>2, <1>3 DEF Mirrored
  <2> QED
    BY <1>1, <1>2, <2>1, <1>3
<1> HIDE DEF T, c, h, o
<1>8. Mirrored(T)
  <2> SUFFICES ASSUME NEW x \in Procs
               PROVE  /\ T.cptr[x] # NULL => /\ T.parent[T.cptr[x]] = x
                                             /\ T.yptr[T.cptr[x]] = NULL
                      /\ T.optr[x] # NULL => /\ T.parent[x] # NULL
                                             /\ T.parent[T.optr[x]] = T.parent[x]
                                             /\ T.yptr[T.optr[x]] = x
                      /\ T.yptr[x] # NULL => /\ T.parent[x] # NULL
                                             /\ T.parent[T.yptr[x]] = T.parent[x]
                                             /\ T.optr[T.yptr[x]] = x
                      /\ T.parent[x] # NULL /\ T.yptr[x] = NULL => T.cptr[T.parent[x]] = x
    BY DEF Mirrored
  <2> DEFINE yp == [z \in Procs |-> IF z = o THEN NULL ELSE IF z = h THEN c
                                     ELSE IF z = c THEN NULL ELSE S.yptr[z]]
  <2>1. /\ T.parent = [S.parent EXCEPT ![c] = heir]
        /\ T.cptr = [z \in Procs |-> IF z = heir THEN c ELSE IF z = q THEN o ELSE S.cptr[z]]
        /\ T.optr = [S.optr EXCEPT ![c] = h]
        /\ T.yptr = yp
    BY <1>2, <1>5, <1>6
  <2>2. T.cptr[x] # NULL => T.parent[T.cptr[x]] = x /\ T.yptr[T.cptr[x]] = NULL
    BY <1>1, <1>2, <1>3, <1>7, <2>1 DEF Mirrored, Links, o, h
  <2>3. T.optr[x] # NULL => /\ T.parent[x] # NULL
                            /\ T.parent[T.optr[x]] = T.parent[x]
                            /\ T.yptr[T.optr[x]] = x
    BY <1>1, <1>2, <1>3, <1>7, <2>1 DEF Mirrored, Links, o, h
  <2>4. T.yptr[x] # NULL => /\ T.parent[x] # NULL
                            /\ T.parent[T.yptr[x]] = T.parent[x]
                            /\ T.optr[T.yptr[x]] = x
    BY <1>1, <1>2, <1>3, <1>7, <2>1 DEF Mirrored, Links, o, h
  <2>5. T.parent[x] # NULL /\ T.yptr[x] = NULL => T.cptr[T.parent[x]] = x
    BY <1>1, <1>2, <1>3, <1>7, <2>1 DEF Mirrored, Links, o, h
  <2> QED
    BY <2>2, <2>3, <2>4, <2>5
<1>9. Ranks(T, [x \in Procs |-> IF x = c THEN 0 ELSE rank[x] + 1])
  BY <1>1, <1>2, <1>3, <1>4, <1>5, <1>6, <1>7 DEF Ranks, Links
<1>10. R.cptr[q] = o /\ \A x \in Procs \ {c} : R.optr[x] = M.optr[x]
  BY <1>3, <1>5 DEF Links
<1> QED
  BY <1>5, <1>6, <1>8, <1>9, <1>10 DEF Chained, R, T, c, o

\* do_exit's loop hands every child of q to heir.
LEMMA AdoptAllChained ==
    ASSUME NEW M, Chained(M), NEW q \in Procs, NEW heir \in Procs,
           q # heir, M.parent[heir] # q
    PROVE  LET R == AdoptAll(M, q, heir) IN
           /\ Chained(R)
           /\ R.parent = [x \in Procs |-> IF M.parent[x] = q THEN heir ELSE M.parent[x]]
<1> DEFINE kids == Children(M, q)
           m == Len(kids)
           Eq(g, n) == g = [k \in 0 .. n |-> IF k = 0 THEN M ELSE Adopt(g[k - 1], q, heir)]
           moved(k) == {kids[i] : i \in 1 .. k}
           Inv(R, k) ==
              /\ R \in Links /\ Chained(Settled(R, q))
              /\ R.parent = [x \in Procs |-> IF x \in moved(k) THEN heir ELSE M.parent[x]]
              /\ R.cptr[q] = IF k = m THEN NULL ELSE kids[k + 1]
              /\ \A i \in k + 1 .. m : R.optr[kids[i]] = M.optr[kids[i]]
           bad == {n \in Nat : ~\E g : Eq(g, n)}
<1>1. NULL \notin Procs
  BY ProcsFinite
<1>2. M \in Links /\ Mirrored(M)
  BY DEF Chained
<1>3. /\ kids \in Seq(Procs) /\ IsInjective(kids) /\ m \in Nat /\ DOMAIN kids = 1 .. m
      /\ ToSet(kids) = {x \in Procs : M.parent[x] = q}
      /\ M.cptr[q] = IF kids = <<>> THEN NULL ELSE kids[1]
      /\ \A k \in 1 .. m : /\ kids[k] \in Procs /\ kids[k] # heir
                           /\ M.optr[kids[k]] = IF k = m THEN NULL ELSE kids[k + 1]
  <2>1. /\ kids \in Seq(Procs) /\ IsInjective(kids)
        /\ ToSet(kids) = {x \in Procs : M.parent[x] = q}
        /\ M.cptr[q] = IF kids = <<>> THEN NULL ELSE kids[1]
        /\ \A k \in 1 .. m : M.optr[kids[k]] = IF k = m THEN NULL ELSE kids[k + 1]
    BY KidsInOrder
  <2> HIDE DEF kids
  <2>2. DOMAIN kids = 1 .. m /\ m \in Nat /\ \A k \in 1 .. m : kids[k] \in Procs
    BY <2>1
  <2>3. ToSet(kids) = {kids[k] : k \in 1 .. m}
    BY <2>2 DEF ToSet
  <2> QED
    BY <2>1, <2>2, <2>3
<1> HIDE DEF kids, m
<1>4. Inv(M, 0)
  <2>1. moved(0) = {}
    OBVIOUS
  <2>2. M.parent = [x \in Procs |-> IF x \in moved(0) THEN heir ELSE M.parent[x]]
    BY <1>2, <2>1 DEF Links
  <2>3. M.cptr[q] = IF 0 = m THEN NULL ELSE kids[0 + 1]
    BY <1>3
  <2>4. Settled(M, q) = M
    <3>1. M.yptr = [x \in Procs |-> IF x = M.cptr[q] THEN NULL ELSE M.yptr[x]]
      BY <1>1, <1>2 DEF Mirrored, Links
    <3> QED
      BY <1>2, <3>1 DEF Settled, Links
  <2> QED
    BY <1>2, <2>2, <2>3, <2>4
<1>5. ASSUME NEW R, NEW k \in 0 .. m - 1, Inv(R, k)
      PROVE  Inv(Adopt(R, q, heir), k + 1)
  <2> DEFINE c == kids[k + 1]
             A == Adopt(R, q, heir)
  <2>1. k \in Nat /\ k # m /\ k + 1 \in 1 .. m /\ k + 1 \in Nat
    BY <1>3
  <2>2. R.cptr[q] = c /\ c \in Procs /\ c # heir /\ c # NULL
    BY <1>1, <1>3, <1>5, <2>1
  <2>3. /\ A \in Links /\ Chained(Settled(A, q))
        /\ A.parent = [R.parent EXCEPT ![c] = heir]
        /\ A.cptr[q] = R.optr[c]
        /\ \A x \in Procs \ {c} : A.optr[x] = R.optr[x]
    BY <1>5, <2>2, AdoptOne
  <2> HIDE DEF A
  <2>4. A.parent = [x \in Procs |-> IF x \in moved(k + 1) THEN heir ELSE M.parent[x]]
    <3>1. moved(k + 1) = moved(k) \cup {c}
      <4>1. 1 .. k + 1 = (1 .. k) \cup {k + 1}
        BY <2>1
      <4> QED
        BY <4>1
    <3> HIDE DEF moved, c
    <3> QED
      BY <1>5, <2>2, <2>3, <3>1
  <2>5. A.cptr[q] = IF k + 1 = m THEN NULL ELSE kids[(k + 1) + 1]
    <3>1. R.optr[c] = M.optr[c]
      BY <1>3, <1>5, <2>1
    <3> QED
      BY <1>3, <2>1, <2>3, <3>1
  <2>6. ASSUME NEW i \in (k + 1) + 1 .. m
        PROVE  A.optr[kids[i]] = M.optr[kids[i]]
    <3>1. i \in 1 .. m /\ i # k + 1 /\ i \in k + 1 .. m
      BY <1>3, <2>1
    <3>2. kids[i] \in Procs \ {c}
      BY <1>3, <2>1, <3>1 DEF IsInjective
    <3> QED
      BY <1>5, <2>3, <3>1, <3>2
  <2> QED
    BY <2>3, <2>4, <2>5, <2>6 DEF A
<1> HIDE DEF Inv
<1>6. ASSUME bad # {} PROVE FALSE
  <2>1. PICK n \in bad : \A x \in bad : n <= x
    BY <1>6, LeastOfNat
  <2>2. n # 0
    <3>1. Eq([k \in 0 .. 0 |-> M], 0)
      OBVIOUS
    <3> QED
      BY <2>1, <3>1
  <2>3. n \in Nat /\ n - 1 \in Nat /\ n - 1 \notin bad
    BY <2>1, <2>2
  <2>4. PICK g : Eq(g, n - 1)
    BY <2>3
  <2> DEFINE h == [k \in 0 .. n |-> IF k = 0 THEN M ELSE Adopt(g[k - 1], q, heir)]
  <2>5. \A k \in 0 .. n - 1 : h[k] = g[k]
    BY <2>3, <2>4
  <2>6. \A k \in 0 .. n : k # 0 => h[k - 1] = g[k - 1]
    <3>1. \A k \in 0 .. n : k # 0 => k - 1 \in 0 .. n - 1
      BY <2>3
    <3> QED
      BY <2>5, <3>1
  <2>7. Eq(h, n)
    <3> HIDE DEF h
    <3> QED
      BY <2>6 DEF h
  <2> QED
    BY <2>1, <2>7
<1> DEFINE g == CHOOSE f : Eq(f, m)
<1>7. Eq(g, m) /\ AdoptAll(M, q, heir) = g[m]
  <2>1. \E f : Eq(f, m)
    BY <1>3, <1>6
  <2> QED
    BY <2>1 DEF AdoptAll, kids, m
<1> HIDE DEF g
<1>8. g[0] = M /\ \A k \in 0 .. m : k # 0 => g[k] = Adopt(g[k - 1], q, heir)
  BY <1>3, <1>7
<1>9. Inv(g[m], m)
  <2> DEFINE wrong == {k \in 0 .. m : ~Inv(g[k], k)}
  <2>1. SUFFICES ASSUME wrong # {} PROVE FALSE
    BY <1>3
  <2>2. PICK k \in wrong : \A x \in wrong : k <= x
    <3>1. wrong \subseteq Nat
      BY <1>3
    <3> QED
      BY <2>1, <3>1, LeastOfNat
  <2>3. k # 0
    BY <1>4, <1>8, <2>2
  <2>4. k \in 0 .. m /\ k - 1 \in 0 .. m - 1 /\ k - 1 \in 0 .. m /\ (k - 1) + 1 = k
        /\ k - 1 \notin wrong
    BY <1>3, <2>2, <2>3
  <2>5. Inv(Adopt(g[k - 1], q, heir), (k - 1) + 1)
    BY <1>5, <2>4
  <2> QED
    BY <1>8, <2>2, <2>3, <2>4, <2>5
<1>10. moved(m) = {x \in Procs : M.parent[x] = q}
  BY <1>3 DEF ToSet
<1> HIDE DEF moved
<1>11. /\ g[m] \in Links /\ Chained(Settled(g[m], q)) /\ g[m].cptr[q] = NULL
       /\ g[m].parent = [x \in Procs |-> IF M.parent[x] = q THEN heir ELSE M.parent[x]]
  <2>1. \A x \in Procs : x \in moved(m) <=> M.parent[x] = q
    BY <1>10
  <2> QED
    BY <1>9, <2>1 DEF Inv
<1>12. Settled(g[m], q) = g[m]
  <2>1. g[m].yptr = [x \in Procs |-> IF x = g[m].cptr[q] THEN NULL ELSE g[m].yptr[x]]
    BY <1>1, <1>11 DEF Links
  <2> QED
    BY <1>11, <2>1 DEF Settled, Links
<1> QED
  BY <1>7, <1>11, <1>12

-----------------------------------------------------------------------------

(***************************************************************************)
(* The inductive invariant: what the structures say of each other.         *)
(***************************************************************************)
InitLabels == {"init_main", "loop", "reaped", "checks"}

\* Where a process is agrees with its state.
LabelsAgree ==
    /\ state[current] = "RUNNABLE" /\ state[idleproc] = "RUNNABLE"
    /\ \A q \in Procs :
          /\ state[q] = "free" <=> pc[q] = "free"
          /\ state[q] = "ZOMBIE" <=> pc[q] = "zombie"
          /\ waitPid[q] # NULL <=> pc[q] = "wait"
          /\ state[q] = "SLEEPING" => pc[q] = "wait"
          /\ pc[q] = "idle" <=> q = idleproc
          /\ pc[q] \in InitLabels => q = initproc
          /\ state[q] = "free" => ~exiting[q]
    /\ pc[initproc] \in InitLabels \cup {"wait"}
    /\ waitPid[initproc] \in {NULL, AnyChild}

\* Init is alone before it forks user_main and when it has no child left.
AloneAtEnds ==
    pc[initproc] \in {"init_main", "checks"} => \A q \in UserPids : state[q] = "free"

\* A process has a parent that is not a zombie.
ParentsAlive ==
    /\ links.parent[idleproc] = NULL /\ links.parent[initproc] = idleproc
    /\ \A c \in UserPids :
          IF state[c] = "free" THEN links.parent[c] = NULL
          ELSE /\ links.parent[c] \in UserAndInit \ {c}
               /\ state[links.parent[c]] \in {"RUNNABLE", "SLEEPING"}

\* A sleeper has a child that will wake it.
Awaited(p) == {c \in UserPids : links.parent[c] = p /\ waitPid[p] \in {AnyChild, c}}

NoLostWakeup ==
    \A p \in UserAndInit :
        state[p] = "SLEEPING" =>
            Awaited(p) # {} /\ \A c \in Awaited(p) : state[c] # "ZOMBIE"

\* Parents lead to init: depth grows from a parent to its child.
Depths(M, depth) ==
    /\ depth \in [Procs -> Nat]
    /\ depth[idleproc] = 0 /\ depth[initproc] = 1
    /\ \A c \in UserPids :
          /\ depth[c] > 1
          /\ M.parent[c] # NULL => depth[M.parent[c]] < depth[c]

Rooted(M) == \E depth : Depths(M, depth)

EnoughStacks == kstacks >= Len(proc_list)

IInv ==
    /\ TypeOK /\ ListMatchesProcesses /\ WakeupOnlySleepers /\ EnoughStacks
    /\ LabelsAgree /\ AloneAtEnds /\ ParentsAlive /\ NoLostWakeup
    /\ Chained(links) /\ Rooted(links) /\ OnlyInitEndsIt

-----------------------------------------------------------------------------

(***************************************************************************)
(* What the searches find.                                                 *)
(***************************************************************************)

\* The scan of schedule() ends at idle or at a runnable process.
LEMMA NextToRunRuns ==
    ASSUME NEW p \in Procs, NEW st, NEW list \in Seq(Procs)
    PROVE  LET q == NextToRun(p, st, list) IN
           q \in Procs /\ (q = idleproc \/ st[q] = "RUNNABLE")
<1> DEFINE P == {i \in 1 .. Len(list) : list[i] = p}
           pos == IF p = idleproc THEN 0 ELSE SelectInSeq(list, LAMBDA q : q = p)
           order == SubSeq(list, pos + 1, Len(list)) \o SubSeq(list, 1, pos)
           I == {i \in 1 .. Len(order) : st[order[i]] = "RUNNABLE"}
           k == IF I = {} THEN 0 ELSE Min(I)
<1>1. pos \in 0 .. Len(list)
  <2>1. SelectInSeq(list, LAMBDA q : q = p) = IF P = {} THEN 0 ELSE Min(P)
    BY DEF SelectInSeq
  <2>2. P # {} => Min(P) \in P
    <3>1. P \subseteq Nat
      OBVIOUS
    <3> QED
      BY <3>1, LeastOfNat
  <2> QED
    BY <2>1, <2>2
<1>2. order \in Seq(Procs)
  <2> HIDE DEF pos
  <2>1. SubSeq(list, pos + 1, Len(list)) \in Seq(Procs)
    BY <1>1, SubSeqProperties
  <2>2. SubSeq(list, 1, pos) \in Seq(Procs)
    BY <1>1, SubSeqProperties
  <2> QED
    BY <2>1, <2>2, ConcatProperties
<1>3. SelectInSeq(order, LAMBDA q : st[q] = "RUNNABLE") = k
  <2> HIDE DEF order
  <2> QED
    BY DEF SelectInSeq
<1>4. NextToRun(p, st, list) = IF k = 0 THEN idleproc ELSE order[k]
  <2> HIDE DEF k
  <2> QED
    BY <1>3 DEF NextToRun, order, pos
<1> HIDE DEF order
<1>5. I # {} => k \in I
  <2>1. I \subseteq Nat
    BY <1>2
  <2> HIDE DEF I
  <2> QED
    BY <2>1, LeastOfNat
<1>6. CASE k = 0
  BY <1>4, <1>6 DEF Procs
<1>7. CASE k # 0
  <2>1. k \in 1 .. Len(order) /\ st[order[k]] = "RUNNABLE"
    BY <1>5, <1>7
  <2>2. order[k] \in Procs
    BY <1>2, <2>1
  <2> QED
    BY <1>4, <1>7, <2>1, <2>2
<1> QED
  BY <1>6, <1>7

\* The children do_wait(t) of p looks at, and the zombie it finds.
LEMMA SearchedKids ==
    ASSUME TypeOK, Chained(links), ParentsAlive, LabelsAgree,
           NEW p \in UserAndInit, NEW t \in Procs
    PROVE  LET s == Searched(p, t)
               kids == {c \in UserPids : links.parent[c] = p /\ (t = AnyChild \/ c = t)}
               k == FirstZombie(p, t)
           IN /\ s = <<>> <=> kids = {}
              /\ k = 0 <=> \A c \in kids : state[c] # "ZOMBIE"
              /\ k # 0 => s[k] \in kids /\ state[s[k]] = "ZOMBIE"
<1> DEFINE s == Searched(p, t)
           kids == {c \in UserPids : links.parent[c] = p /\ (t = AnyChild \/ c = t)}
           I == {i \in 1 .. Len(s) : state[s[i]] = "ZOMBIE"}
           k == IF I = {} THEN 0 ELSE Min(I)
<1>1. /\ NULL \notin Procs /\ idleproc # p /\ AnyChild = idleproc /\ p \in Procs
      /\ initproc # idleproc /\ idleproc \notin UserPids
  BY ProcsFinite, ProcAssumption DEF UserAndInit, idleproc, AnyChild, Procs
<1>2. s \in Seq(Procs) /\ ToSet(s) = kids
  <2>1. {c \in Procs : links.parent[c] = p} = {c \in UserPids : links.parent[c] = p}
    BY <1>1 DEF Procs, ParentsAlive
  <2>2. CASE t = AnyChild
    BY <1>1, <2>1, <2>2, KidsInOrder DEF Searched
  <2>3. CASE t # AnyChild
    <3>1. t \in UserPids /\ links.parent[t] = p
             <=> t \in Procs \ {idleproc} /\ state[t] # "free" /\ links.parent[t] = p
      BY <1>1, <2>3 DEF Procs, ParentsAlive, UserAndInit
    <3>2. CASE t \in UserPids /\ links.parent[t] = p
      <4>1. s = <<t>> /\ kids = {t}
        BY <1>1, <2>3, <3>1, <3>2 DEF Searched
      <4> QED
        BY <4>1 DEF ToSet
    <3>3. CASE ~(t \in UserPids /\ links.parent[t] = p)
      <4>1. s = <<>> /\ kids = {}
        BY <2>3, <3>1, <3>3 DEF Searched
      <4> QED
        BY <4>1 DEF ToSet
    <3> QED
      BY <3>2, <3>3
  <2> QED
    BY <2>2, <2>3
<1>3. FirstZombie(p, t) = k
  <2> HIDE DEF s
  <2> QED
    BY DEF FirstZombie, SelectInSeq, s
<1> HIDE DEF s, kids
<1>4. I # {} => k \in I
  <2>1. I \subseteq Nat
    BY <1>2
  <2> HIDE DEF I
  <2> QED
    BY <2>1, LeastOfNat
<1>5. DOMAIN s = 1 .. Len(s) /\ Len(s) \in Nat /\ ToSet(s) = {s[i] : i \in 1 .. Len(s)}
  BY <1>2 DEF ToSet
<1>6. s = <<>> <=> kids = {}
  <2>1. s = <<>> <=> Len(s) = 0
    BY <1>2, EmptySeq
  <2> QED
    BY <1>2, <1>5, <2>1
<1>7. k = 0 <=> \A c \in kids : state[c] # "ZOMBIE"
  BY <1>2, <1>4, <1>5
<1>8. k # 0 => s[k] \in kids /\ state[s[k]] = "ZOMBIE"
  BY <1>2, <1>4, <1>5
<1> QED
  BY <1>3, <1>6, <1>7, <1>8 DEF s, kids

-----------------------------------------------------------------------------

(***************************************************************************)
(* Every operation keeps the invariant.                                    *)
(***************************************************************************)

LEMMA PidFacts ==
    /\ NULL \notin Procs /\ NULL # idleproc /\ NULL # initproc /\ AnyChild = idleproc
    /\ idleproc \notin UserPids /\ initproc \notin UserPids /\ idleproc # initproc
    /\ idleproc \in Procs /\ initproc \in Procs /\ UserPids \subseteq Procs
    /\ \A x : x \in Procs <=> x \in UserPids \/ x = idleproc \/ x = initproc
    /\ \A x : x \in UserAndInit <=> x \in UserPids \/ x = initproc
BY ProcsFinite, ProcAssumption DEF Procs, UserAndInit, idleproc, AnyChild

\* Where a process that is not in do_wait may be.
Ready == {"user", "trap", "loop", "reaped", "user_main"}

\* Steps that leave the processes alone and move at most one of them on.
LEMMA QuietKeeps ==
    ASSUME IInv, UNCHANGED procVars,
           need_resched' \in [Procs -> BOOLEAN],
           current' \in Procs, state[current'] = "RUNNABLE",
           kstacks' \in Nat, kstacks' >= kstacks,
           panic' \in {"none", "initproc_exit", "assertion_failed",
                       "PADDR_invalid_kva"},
           OnlyInitEndsIt',
           NEW p \in Procs, NEW l \in PCs, pc' = [pc EXCEPT ![p] = l],
           \/ l = pc[p]
           \/ pc[p] \in Ready /\ l \in Ready /\ (l \in InitLabels <=> p = initproc)
    PROVE  IInv'
<1>a. /\ TypeOK /\ ListMatchesProcesses /\ WakeupOnlySleepers /\ EnoughStacks
      /\ LabelsAgree /\ AloneAtEnds /\ ParentsAlive /\ NoLostWakeup
      /\ Chained(links) /\ Rooted(links) /\ OnlyInitEndsIt
  BY DEF IInv
<1>b. /\ state' = state /\ wait_state' = wait_state /\ exiting' = exiting
      /\ links' = links /\ proc_list' = proc_list /\ nr_process' = nr_process
      /\ waitPid' = waitPid
  BY DEF procVars
<1>1. TypeOK'
  BY <1>a, <1>b DEF TypeOK
<1>2. ListMatchesProcesses' /\ WakeupOnlySleepers' /\ ParentsAlive' /\ Chained(links')
      /\ Rooted(links')
  BY <1>a, <1>b DEF ListMatchesProcesses, WakeupOnlySleepers, ParentsAlive, Alive
<1>3. EnoughStacks'
  <2>1. kstacks \in Nat /\ Len(proc_list) \in Nat
    BY <1>a, LenProperties DEF TypeOK
  <2> QED
    BY <1>a, <1>b, <2>1 DEF EnoughStacks
<1>4. NoLostWakeup'
  BY <1>a, <1>b DEF NoLostWakeup, Awaited
<1>5. LabelsAgree'
  <2>1. \A q \in Procs : pc'[q] = IF q = p THEN l ELSE pc[q]
    BY <1>a DEF TypeOK
  <2>2. state'[current'] = "RUNNABLE" /\ state'[idleproc] = "RUNNABLE"
        /\ waitPid'[initproc] \in {NULL, AnyChild}
    BY <1>a, <1>b DEF LabelsAgree
  <2>3. pc'[initproc] \in InitLabels \cup {"wait"}
    BY <1>a, <2>1, PidFacts DEF LabelsAgree
  <2>4. ASSUME NEW q \in Procs
        PROVE  /\ state'[q] = "free" <=> pc'[q] = "free"
               /\ state'[q] = "ZOMBIE" <=> pc'[q] = "zombie"
               /\ waitPid'[q] # NULL <=> pc'[q] = "wait"
               /\ state'[q] = "SLEEPING" => pc'[q] = "wait"
               /\ pc'[q] = "idle" <=> q = idleproc
               /\ pc'[q] \in InitLabels => q = initproc
               /\ state'[q] = "free" => ~exiting'[q]
    <3>1. CASE q # p \/ l = pc[p]
      BY <1>a, <1>b, <2>1, <3>1 DEF LabelsAgree
    <3>2. CASE q = p /\ l # pc[p]
      BY <1>a, <1>b, <2>1, <3>2 DEF LabelsAgree, Ready
    <3> QED
      BY <3>1, <3>2
  <2> QED
    BY <2>2, <2>3, <2>4 DEF LabelsAgree
<1>6. AloneAtEnds'
  <2>1. pc'[initproc] = IF initproc = p THEN l ELSE pc[initproc]
    BY <1>a, PidFacts DEF TypeOK
  <2> QED
    BY <1>a, <1>b, <2>1 DEF AloneAtEnds, Ready
<1> QED
  BY <1>1, <1>2, <1>3, <1>4, <1>5, <1>6 DEF IInv

\* do_fork.
LEMMA ForkKeeps ==
    ASSUME IInv, Running, NEW p \in UserAndInit, p = current, NEW c \in UserPids,
           NEW l \in {"user", "user_main"}, NEW next \in Ready,
           pc[p] \in Ready \cup {"init_main"}, next \in InitLabels <=> p = initproc,
           ForkChild(p, c, l, next)
    PROVE  /\ IInv'
           /\ state' = [state EXCEPT ![c] = "RUNNABLE"] /\ state[c] = "free"
           /\ links'.parent = [links.parent EXCEPT ![c] = p]
<1>a. /\ TypeOK /\ ListMatchesProcesses /\ WakeupOnlySleepers /\ EnoughStacks
      /\ LabelsAgree /\ AloneAtEnds /\ ParentsAlive /\ NoLostWakeup
      /\ Chained(links) /\ Rooted(links) /\ OnlyInitEndsIt
  BY DEF IInv
<1>1. state[c] = "free" /\ state[p] = "RUNNABLE" /\ c # p
  BY <1>a DEF ForkChild, LabelsAgree
<1>u. /\ state' = [state EXCEPT ![c] = "RUNNABLE"]
      /\ links' = SetLinks([links EXCEPT !.parent[c] = p], c)
      /\ proc_list' = <<c>> \o proc_list
      /\ nr_process' = nr_process + 1 /\ kstacks' = kstacks + 1
      /\ pc' = [pc EXCEPT ![c] = l, ![p] = next]
  BY DEF ForkChild
<1>v. /\ current' = current /\ need_resched' = need_resched /\ wait_state' = wait_state
      /\ exiting' = exiting /\ waitPid' = waitPid /\ panic' = panic
  BY DEF ForkChild, NoSwitch
<1>2. c \in Procs /\ p \in Procs
  BY PidFacts
<1>3. Chained(links') /\ links'.parent = [links.parent EXCEPT ![c] = p]
  <2>1. links.parent[c] = NULL
    BY <1>a, <1>1 DEF ParentsAlive
  <2> DEFINE R == SetLinks([links EXCEPT !.parent[c] = p], c)
  <2>2. Chained(R) /\ R.parent = [links.parent EXCEPT ![c] = p]
    BY <1>a, <1>1, <1>2, <2>1, SetLinksChained
  <2> HIDE DEF R
  <2>3. links' = R
    BY <1>u DEF R
  <2> QED
    BY <2>2, <2>3
<1>4. \A q \in Procs : /\ state'[q] = IF q = c THEN "RUNNABLE" ELSE state[q]
                       /\ links'.parent[q] = IF q = c THEN p ELSE links.parent[q]
                       /\ pc'[q] = IF q = p THEN next ELSE IF q = c THEN l ELSE pc[q]
  BY <1>a, <1>u, <1>1, <1>2, <1>3 DEF TypeOK, Links
<1>5. c \notin ToSet(proc_list) /\ Alive' = Alive \cup {c}
  BY <1>a, <1>1, <1>2, <1>4 DEF ListMatchesProcesses, Alive
<1>6. /\ proc_list' \in Seq(Procs) /\ IsInjective(proc_list')
      /\ ToSet(proc_list') = ToSet(proc_list) \cup {c}
      /\ Len(proc_list') = Len(proc_list) + 1
  BY <1>a, <1>u, <1>2, <1>5, PushNew DEF TypeOK, ListMatchesProcesses
<1>7. TypeOK'
  <2>1. l \in PCs /\ next \in PCs
    BY DEF PCs, Ready
  <2>2. pc' \in [Procs -> PCs]
    BY <1>a, <1>u, <1>2, <2>1 DEF TypeOK
  <2>3. state' \in [Procs -> {"free", "RUNNABLE", "SLEEPING", "ZOMBIE"}]
    BY <1>a, <1>u, <1>2 DEF TypeOK
  <2>4. links' \in Links /\ nr_process' \in Nat /\ kstacks' \in Nat
    BY <1>a, <1>u, <1>3 DEF TypeOK, Chained
  <2> QED
    BY <1>a, <1>v, <1>6, <2>2, <2>3, <2>4 DEF TypeOK
<1>8. ListMatchesProcesses'
  BY <1>a, <1>u, <1>5, <1>6, PidFacts DEF ListMatchesProcesses, TypeOK
<1>9. WakeupOnlySleepers'
  BY <1>a, <1>1, <1>v, <1>4 DEF WakeupOnlySleepers
<1>10. EnoughStacks'
  BY <1>a, <1>u, <1>6 DEF EnoughStacks, TypeOK
<1>11. LabelsAgree'
  <2>1. state'[current'] = "RUNNABLE" /\ state'[idleproc] = "RUNNABLE"
        /\ waitPid'[initproc] \in {NULL, AnyChild}
    BY <1>a, <1>1, <1>v, <1>4, PidFacts DEF LabelsAgree, TypeOK
  <2>2. pc'[initproc] \in InitLabels \cup {"wait"}
    BY <1>a, <1>4, PidFacts DEF LabelsAgree
  <2>3. ASSUME NEW q \in Procs
        PROVE  /\ state'[q] = "free" <=> pc'[q] = "free"
               /\ state'[q] = "ZOMBIE" <=> pc'[q] = "zombie"
               /\ waitPid'[q] # NULL <=> pc'[q] = "wait"
               /\ state'[q] = "SLEEPING" => pc'[q] = "wait"
               /\ pc'[q] = "idle" <=> q = idleproc
               /\ pc'[q] \in InitLabels => q = initproc
               /\ state'[q] = "free" => ~exiting'[q]
    <3>1. CASE q = p
      BY <1>a, <1>1, <1>v, <1>4, <3>1, PidFacts DEF LabelsAgree, Ready, InitLabels
    <3>2. CASE q = c
      BY <1>a, <1>1, <1>v, <1>4, <3>2, PidFacts DEF LabelsAgree, InitLabels
    <3>3. CASE q # p /\ q # c
      BY <1>a, <1>1, <1>v, <1>4, <3>3 DEF LabelsAgree
    <3> QED
      BY <3>1, <3>2, <3>3
  <2> QED
    BY <2>1, <2>2, <2>3 DEF LabelsAgree
<1>12. AloneAtEnds'
  BY <1>a, <1>1, <1>v, <1>4, PidFacts DEF AloneAtEnds, Ready
<1>13. ParentsAlive'
  BY <1>a, <1>1, <1>v, <1>4, PidFacts DEF ParentsAlive
<1>14. NoLostWakeup'
  <2>1. ASSUME NEW q \in UserAndInit, state'[q] = "SLEEPING"
        PROVE  Awaited(q)' # {} /\ \A d \in Awaited(q)' : state'[d] # "ZOMBIE"
    <3>1. state[q] = "SLEEPING" /\ q # p /\ q # c
      BY <1>1, <1>v, <1>4, <2>1, PidFacts
    <3>2. Awaited(q)' = Awaited(q)
      BY <1>a, <1>1, <1>v, <1>4, <3>1, PidFacts DEF Awaited, ParentsAlive
    <3> QED
      BY <1>a, <1>1, <1>v, <1>4, <3>1, <3>2, PidFacts DEF NoLostWakeup, Awaited
  <2> QED
    BY <2>1 DEF NoLostWakeup
<1>15. Rooted(links')
  <2>1. PICK depth : Depths(links, depth)
    BY <1>a DEF Rooted
  <2> DEFINE deeper == [depth EXCEPT ![c] = depth[p] + 1]
  <2>2. depth \in [Procs -> Nat] /\ depth[p] \in Nat /\ depth[p] > 0
    BY <2>1, <1>2, PidFacts DEF Depths
  <2>3. \A x \in Procs : x # c => links.parent[x] # c
    BY <1>a, <1>1, PidFacts DEF ParentsAlive
  <2>4. /\ deeper \in [Procs -> Nat]
        /\ \A x \in Procs : deeper[x] = IF x = c THEN depth[p] + 1 ELSE depth[x]
    BY <1>2, <2>2
  <2> HIDE DEF deeper
  <2>5. deeper[idleproc] = 0 /\ deeper[initproc] = 1
    BY <2>1, <2>4, PidFacts DEF Depths
  <2>6. ASSUME NEW x \in UserPids
        PROVE  deeper[x] > 1 /\ (links'.parent[x] # NULL => deeper[links'.parent[x]] < deeper[x])
    <3>1. CASE x = c
      BY <1>1, <1>2, <1>4, <2>2, <2>4, <3>1
    <3>2. CASE x # c
      <4>1. links'.parent[x] = links.parent[x] /\ links.parent[x] # c /\ deeper[x] = depth[x]
            /\ links.parent[x] \in Procs \cup {NULL}
        BY <1>a, <1>4, <2>3, <2>4, <3>2, PidFacts DEF TypeOK, Links
      <4> QED
        BY <2>1, <2>4, <4>1 DEF Depths
    <3> QED
      BY <3>1, <3>2
  <2> QED
    BY <2>4, <2>5, <2>6 DEF Rooted, Depths
<1>16. OnlyInitEndsIt'
  BY <1>v DEF OnlyInitEndsIt, Running
<1> QED
  BY <1>1, <1>u, <1>3, <1>7, <1>8, <1>9, <1>10, <1>11, <1>12, <1>13, <1>14, <1>15, <1>16 DEF IInv

\* do_exit of a user process: what it does, in terms of the processes.
LEMMA ExitEffect ==
    ASSUME IInv, NEW p \in UserPids, p = current, DoExit(p)
    PROVE  LET zombie == \E c \in UserPids : links.parent[c] = p /\ state[c] = "ZOMBIE"
               woken(q) == /\ state[q] = "SLEEPING"
                           /\ q = links.parent[p] \/ (q = initproc /\ zombie)
           IN /\ state' = [q \in Procs |-> IF q = p THEN "ZOMBIE"
                                           ELSE IF woken(q) THEN "RUNNABLE" ELSE state[q]]
              /\ wait_state' = [q \in Procs |-> IF woken(q) THEN "none" ELSE wait_state[q]]
              /\ Chained(links')
              /\ links'.parent = [x \in Procs |-> IF links.parent[x] = p THEN initproc
                                                  ELSE links.parent[x]]
              /\ pc' = [pc EXCEPT ![p] = "zombie"]
              /\ waitPid' = [waitPid EXCEPT ![p] = NULL]
              /\ exiting' = exiting /\ proc_list' = proc_list /\ nr_process' = nr_process
              /\ kstacks' = kstacks /\ panic' = panic
              /\ need_resched' \in [Procs -> BOOLEAN]
              /\ current' \in Procs /\ state'[current'] = "RUNNABLE"
<1> DEFINE zombie == \E c \in UserPids : links.parent[c] = p /\ state[c] = "ZOMBIE"
           woken(q) == /\ state[q] = "SLEEPING"
                       /\ q = links.parent[p] \/ (q = initproc /\ zombie)
           kids == ToSet(Children(links, p))
           S == {links.parent[p]} \cup Heir(kids)
<1>1. /\ TypeOK /\ WakeupOnlySleepers /\ LabelsAgree /\ ParentsAlive /\ Chained(links)
      /\ p \in Procs /\ p # initproc /\ p # idleproc /\ state[p] = "RUNNABLE"
  BY PidFacts DEF IInv, LabelsAgree
<1>2. /\ Wakeup(S, [state EXCEPT ![p] = "ZOMBIE"])
      /\ links' = AdoptAll(links, p, initproc)
      /\ pc' = [pc EXCEPT ![p] = "zombie"]
      /\ waitPid' = [waitPid EXCEPT ![p] = NULL]
      /\ exiting' = exiting /\ proc_list' = proc_list /\ nr_process' = nr_process
      /\ kstacks' = kstacks /\ panic' = panic
      /\ need_resched' = [need_resched EXCEPT ![current] = FALSE]
      /\ current' = NextToRun(current, state', proc_list')
  BY <1>1 DEF DoExit, Goto, Schedule
<1>3. kids = {c \in UserPids : links.parent[c] = p}
  <2>1. kids = {c \in Procs : links.parent[c] = p}
    BY <1>1, KidsInOrder
  <2> HIDE DEF kids
  <2> QED
    BY <1>1, <2>1, PidFacts DEF ParentsAlive
<1> HIDE DEF kids
<1>4. \A q \in Procs : q \in Sleepers(S) <=> woken(q)
  <2>1. \A q \in Procs : q \in S <=> q = links.parent[p] \/ (q = initproc /\ zombie)
    BY <1>3 DEF Heir
  <2> HIDE DEF S, zombie
  <2> QED
    BY <1>1, <2>1 DEF Sleepers, WakeupOnlySleepers
<1> HIDE DEF S
<1>5. ~woken(p)
  BY <1>1
<1> HIDE DEF woken
<1>6. /\ state' = [q \in Procs |-> IF q = p THEN "ZOMBIE"
                                   ELSE IF woken(q) THEN "RUNNABLE" ELSE state[q]]
      /\ wait_state' = [q \in Procs |-> IF woken(q) THEN "none" ELSE wait_state[q]]
  <2> DEFINE st == [state EXCEPT ![p] = "ZOMBIE"]
  <2>1. /\ state' = [q \in Procs |-> IF q \in Sleepers(S) THEN "RUNNABLE" ELSE st[q]]
        /\ wait_state' = [q \in Procs |-> IF q \in Sleepers(S) THEN "none" ELSE wait_state[q]]
    BY <1>2 DEF Wakeup
  <2>2. \A q \in Procs : st[q] = IF q = p THEN "ZOMBIE" ELSE state[q]
    BY <1>1 DEF TypeOK
  <2> HIDE DEF st
  <2> QED
    BY <1>4, <1>5, <2>1, <2>2
<1>7. Chained(links') /\ links'.parent = [x \in Procs |-> IF links.parent[x] = p THEN initproc
                                                          ELSE links.parent[x]]
  <2>1. links.parent[initproc] # p
    BY <1>1, PidFacts DEF ParentsAlive
  <2> QED
    BY <1>1, <1>2, <2>1, PidFacts, AdoptAllChained
<1>8. current' \in Procs /\ state'[current'] = "RUNNABLE"
  <2>1. current' \in Procs /\ (current' = idleproc \/ state'[current'] = "RUNNABLE")
    <3>1. current \in Procs /\ proc_list' \in Seq(Procs)
      BY <1>1, <1>2 DEF TypeOK
    <3> QED
      BY <1>2, <3>1, NextToRunRuns
  <2>2. state'[idleproc] = "RUNNABLE"
    BY <1>1, <1>6, PidFacts DEF LabelsAgree
  <2> QED
    BY <2>1, <2>2
<1>9. need_resched' \in [Procs -> BOOLEAN]
  BY <1>1, <1>2 DEF TypeOK
<1> QED
  BY <1>2, <1>6, <1>7, <1>8, <1>9 DEF woken

LEMMA ExitKeeps ==
    ASSUME IInv, Running, NEW p \in UserPids, p = current, DoExit(p)
    PROVE  IInv'
<1> DEFINE zombie == \E c \in UserPids : links.parent[c] = p /\ state[c] = "ZOMBIE"
           woken(q) == /\ state[q] = "SLEEPING"
                       /\ q = links.parent[p] \/ (q = initproc /\ zombie)
<1>a. /\ TypeOK /\ ListMatchesProcesses /\ WakeupOnlySleepers /\ EnoughStacks
      /\ LabelsAgree /\ AloneAtEnds /\ ParentsAlive /\ NoLostWakeup
      /\ Chained(links) /\ Rooted(links) /\ OnlyInitEndsIt
  BY DEF IInv
<1>1. p \in Procs /\ p # initproc /\ p # idleproc /\ state[p] = "RUNNABLE"
      /\ state[initproc] \in {"RUNNABLE", "SLEEPING"}
  BY <1>a, PidFacts DEF LabelsAgree, TypeOK, InitLabels
<1>u. /\ state' = [q \in Procs |-> IF q = p THEN "ZOMBIE"
                                   ELSE IF woken(q) THEN "RUNNABLE" ELSE state[q]]
      /\ wait_state' = [q \in Procs |-> IF woken(q) THEN "none" ELSE wait_state[q]]
      /\ Chained(links')
      /\ links'.parent = [x \in Procs |-> IF links.parent[x] = p THEN initproc
                                          ELSE links.parent[x]]
      /\ pc' = [pc EXCEPT ![p] = "zombie"]
      /\ waitPid' = [waitPid EXCEPT ![p] = NULL]
  BY ExitEffect
<1>v. /\ exiting' = exiting /\ proc_list' = proc_list /\ nr_process' = nr_process
      /\ kstacks' = kstacks /\ panic' = panic
      /\ need_resched' \in [Procs -> BOOLEAN]
      /\ current' \in Procs /\ state'[current'] = "RUNNABLE"
  BY ExitEffect
<1> HIDE DEF woken
<1>2. \A q \in Procs :
         /\ state'[q] = IF q = p THEN "ZOMBIE" ELSE IF woken(q) THEN "RUNNABLE" ELSE state[q]
         /\ wait_state'[q] = IF woken(q) THEN "none" ELSE wait_state[q]
         /\ pc'[q] = IF q = p THEN "zombie" ELSE pc[q]
         /\ waitPid'[q] = IF q = p THEN NULL ELSE waitPid[q]
         /\ links'.parent[q] = IF links.parent[q] = p THEN initproc ELSE links.parent[q]
  BY <1>a, <1>u DEF TypeOK
<1>3. \A q \in Procs : woken(q) => state[q] = "SLEEPING"
  BY DEF woken
<1>4. TypeOK'
  <2>1. pc' \in [Procs -> PCs]
    BY <1>a, <1>u DEF TypeOK, PCs
  <2>2. /\ state' \in [Procs -> {"free", "RUNNABLE", "SLEEPING", "ZOMBIE"}]
        /\ wait_state' \in [Procs -> {"none", "WT_CHILD"}]
        /\ waitPid' \in [Procs -> Procs \cup {NULL}]
    BY <1>a, <1>u DEF TypeOK
  <2>3. links' \in Links
    BY <1>u DEF Chained
  <2> QED
    BY <1>a, <1>v, <2>1, <2>2, <2>3 DEF TypeOK
<1>5. ListMatchesProcesses'
  <2>1. Alive' = Alive
    BY <1>1, <1>2, <1>3 DEF Alive
  <2> QED
    BY <1>a, <1>v, <2>1 DEF ListMatchesProcesses
<1>6. WakeupOnlySleepers'
  BY <1>a, <1>1, <1>2, <1>3 DEF WakeupOnlySleepers
<1>7. EnoughStacks'
  BY <1>a, <1>v DEF EnoughStacks
<1>8. LabelsAgree'
  <2>1. state'[idleproc] = "RUNNABLE" /\ waitPid'[initproc] \in {NULL, AnyChild}
        /\ pc'[initproc] \in InitLabels \cup {"wait"}
    BY <1>a, <1>1, <1>2, <1>3, PidFacts DEF LabelsAgree
  <2>2. ASSUME NEW q \in Procs
        PROVE  /\ state'[q] = "free" <=> pc'[q] = "free"
               /\ state'[q] = "ZOMBIE" <=> pc'[q] = "zombie"
               /\ waitPid'[q] # NULL <=> pc'[q] = "wait"
               /\ state'[q] = "SLEEPING" => pc'[q] = "wait"
               /\ pc'[q] = "idle" <=> q = idleproc
               /\ pc'[q] \in InitLabels => q = initproc
               /\ state'[q] = "free" => ~exiting'[q]
    <3>1. CASE q = p
      BY <1>1, <1>2, <3>1 DEF InitLabels
    <3>2. CASE q # p
      BY <1>a, <1>v, <1>2, <1>3, <3>2 DEF LabelsAgree
    <3> QED
      BY <3>1, <3>2
  <2> QED
    BY <1>v, <2>1, <2>2 DEF LabelsAgree
<1>9. AloneAtEnds'
  BY <1>a, <1>1, <1>2, PidFacts DEF AloneAtEnds
<1>10. ParentsAlive'
  <2>1. \A q \in Procs : state[q] \in {"RUNNABLE", "SLEEPING"} /\ q # p
                            => state'[q] \in {"RUNNABLE", "SLEEPING"}
    BY <1>2
  <2>2. \A q \in Procs : state'[q] = "free" <=> state[q] = "free"
    BY <1>1, <1>2, <1>3
  <2> QED
    BY <1>a, <1>1, <1>2, <2>1, <2>2, PidFacts DEF ParentsAlive
<1>11. NoLostWakeup'
  <2> SUFFICES ASSUME NEW q \in UserAndInit, state'[q] = "SLEEPING"
               PROVE  Awaited(q)' # {} /\ \A d \in Awaited(q)' : state'[d] # "ZOMBIE"
    BY DEF NoLostWakeup
  <2>1. q \in Procs /\ q # p /\ state[q] = "SLEEPING" /\ ~woken(q) /\ waitPid'[q] = waitPid[q]
    BY <1>2, PidFacts
  <2>2. q # links.parent[p] /\ (q = initproc => ~zombie)
    BY <2>1 DEF woken
  <2>3. Awaited(q) \subseteq Awaited(q)'
    BY <1>2, <2>1, PidFacts DEF Awaited
  <2>4. ASSUME NEW d \in Awaited(q)'
        PROVE  state'[d] # "ZOMBIE"
    <3>1. d \in UserPids /\ links'.parent[d] = q /\ waitPid[q] \in {AnyChild, d} /\ d \in Procs
      BY <2>1, PidFacts DEF Awaited
    <3>2. CASE links.parent[d] = p
      <4>1. q = initproc /\ state[d] # "ZOMBIE" /\ d # p
        BY <1>a, <1>1, <1>2, <2>2, <3>1, <3>2 DEF ParentsAlive
      <4> QED
        BY <1>2, <3>1, <4>1
    <3>3. CASE links.parent[d] # p
      <4>1. d \in Awaited(q) /\ d # p
        BY <1>2, <2>2, <3>1, <3>3 DEF Awaited
      <4>2. state[d] # "ZOMBIE"
        BY <1>a, <2>1, <4>1 DEF NoLostWakeup
      <4> QED
        BY <1>2, <3>1, <4>1, <4>2
    <3> QED
      BY <3>2, <3>3
  <2> QED
    BY <1>a, <2>1, <2>3, <2>4 DEF NoLostWakeup
<1>12. Rooted(links')
  <2>1. PICK depth : Depths(links, depth)
    BY <1>a DEF Rooted
  <2>2. ASSUME NEW c \in UserPids, links'.parent[c] # NULL
        PROVE  depth[links'.parent[c]] < depth[c]
    <3>1. c \in Procs /\ depth[c] \in Nat /\ depth[p] \in Nat /\ depth[p] > 1
      BY <1>1, <2>1, PidFacts DEF Depths
    <3>2. CASE links.parent[c] = p
      <4>1. links'.parent[c] = initproc /\ depth[p] < depth[c] /\ depth[initproc] = 1
        BY <1>2, <2>1, <3>1, <3>2, PidFacts DEF Depths
      <4> QED
        BY <3>1, <4>1
    <3>3. CASE links.parent[c] # p
      BY <1>2, <2>1, <2>2, <3>1, <3>3 DEF Depths
    <3> QED
      BY <3>2, <3>3
  <2> QED
    BY <2>1, <2>2 DEF Rooted, Depths
<1>13. OnlyInitEndsIt'
  BY <1>v DEF OnlyInitEndsIt, Running
<1> QED
  BY <1>u, <1>4, <1>5, <1>6, <1>7, <1>8, <1>9, <1>10, <1>11, <1>12, <1>13 DEF IInv

\* do_wait(t) of p frees its zombie c, in terms of the processes.
Reaped(p, t, c, next) ==
    /\ links.parent[c] = p /\ t \in {AnyChild, c} /\ state[c] = "ZOMBIE" /\ c # p
    /\ state' = [state EXCEPT ![c] = "free"]
    /\ exiting' = [exiting EXCEPT ![c] = FALSE]
    /\ Chained(links') /\ links'.parent = [links.parent EXCEPT ![c] = NULL]
    /\ proc_list' = RemoveFirst(proc_list, c)
    /\ nr_process' = nr_process - 1 /\ kstacks' = kstacks - 1
    /\ pc' = [pc EXCEPT ![c] = "free", ![p] = next]
    /\ waitPid' = [waitPid EXCEPT ![p] = NULL]
    /\ wait_state' = wait_state /\ panic' = panic
    /\ current' = current /\ need_resched' = need_resched

\* do_wait that frees a zombie.
LEMMA ReapEffect ==
    ASSUME IInv, NEW p \in UserAndInit, p = current, NEW t \in Procs,
           NEW next, DoWaitReap(p, t, next)
    PROVE  \E c \in UserPids : Reaped(p, t, c, next)
<1> DEFINE c == Searched(p, t)[FirstZombie(p, t)]
<1>1. TypeOK /\ LabelsAgree /\ ParentsAlive /\ Chained(links)
  BY DEF IInv
<1>2. c \in UserPids /\ links.parent[c] = p /\ t \in {AnyChild, c} /\ state[c] = "ZOMBIE"
  <2>1. FirstZombie(p, t) # 0
    BY DEF DoWaitReap
  <2> QED
    BY <1>1, <2>1, SearchedKids
<1>3. /\ state' = [state EXCEPT ![c] = "free"]
      /\ exiting' = [exiting EXCEPT ![c] = FALSE]
      /\ links' = [RemoveLinks(links, c) EXCEPT !.parent[c] = NULL, !.cptr[c] = NULL,
                                                !.yptr[c] = NULL, !.optr[c] = NULL]
      /\ proc_list' = RemoveFirst(proc_list, c)
      /\ nr_process' = nr_process - 1 /\ kstacks' = kstacks - 1
      /\ pc' = [pc EXCEPT ![c] = "free", ![p] = next]
      /\ waitPid' = [waitPid EXCEPT ![p] = NULL]
      /\ wait_state' = wait_state /\ panic' = panic
      /\ current' = current /\ need_resched' = need_resched
  BY DEF DoWaitReap, ForgetProcess, PutKstack, NoSwitch
<1> HIDE DEF c
<1>4. c \in Procs /\ c # p /\ p \in Procs
  BY <1>1, <1>2, PidFacts DEF LabelsAgree
<1>5. links.cptr[c] = NULL
  <2>1. \A d \in Procs : links.parent[d] # c
    BY <1>1, <1>2, PidFacts DEF ParentsAlive
  <2>2. links.cptr[c] # NULL => links.cptr[c] \in Procs /\ links.parent[links.cptr[c]] = c
    BY <1>1, <1>4 DEF Chained, Mirrored, Links
  <2> QED
    BY <2>1, <2>2
<1>6. Chained(links') /\ links'.parent = [links.parent EXCEPT ![c] = NULL]
  <2> DEFINE R == [RemoveLinks(links, c) EXCEPT !.parent[c] = NULL, !.cptr[c] = NULL,
                                                !.yptr[c] = NULL, !.optr[c] = NULL]
  <2>1. Chained(R) /\ R.parent = [links.parent EXCEPT ![c] = NULL]
    BY <1>1, <1>2, <1>4, <1>5, RemoveLinksChained
  <2>2. links' = R
    BY <1>3
  <2> HIDE DEF R
  <2> QED
    BY <2>1, <2>2
<1> QED
  BY <1>2, <1>3, <1>4, <1>6 DEF Reaped

LEMMA ReapKeeps ==
    ASSUME IInv, Running, NEW p \in UserAndInit, p = current, NEW t \in Procs,
           NEW next \in {"trap", "reaped"}, next = "reaped" <=> p = initproc,
           DoWaitReap(p, t, next)
    PROVE  IInv'
<1>a. /\ TypeOK /\ ListMatchesProcesses /\ WakeupOnlySleepers /\ EnoughStacks
      /\ LabelsAgree /\ AloneAtEnds /\ ParentsAlive /\ NoLostWakeup
      /\ Chained(links) /\ Rooted(links) /\ OnlyInitEndsIt
  BY DEF IInv
<1>b. PICK c \in UserPids : Reaped(p, t, c, next)
  BY ReapEffect
<1>1. /\ links.parent[c] = p /\ state[c] = "ZOMBIE" /\ c # p /\ p \in Procs /\ c \in Procs
      /\ state[p] = "RUNNABLE" /\ p # idleproc
  BY <1>a, <1>b, PidFacts DEF Reaped, LabelsAgree
<1>u. /\ state' = [state EXCEPT ![c] = "free"]
      /\ exiting' = [exiting EXCEPT ![c] = FALSE]
      /\ links'.parent = [links.parent EXCEPT ![c] = NULL]
      /\ pc' = [pc EXCEPT ![c] = "free", ![p] = next]
      /\ waitPid' = [waitPid EXCEPT ![p] = NULL]
  BY <1>b DEF Reaped
<1>v. /\ wait_state' = wait_state /\ panic' = panic
      /\ current' = current /\ need_resched' = need_resched
      /\ Chained(links')
  BY <1>b DEF Reaped
<1>w. /\ proc_list' = RemoveFirst(proc_list, c)
      /\ nr_process' = nr_process - 1 /\ kstacks' = kstacks - 1
  BY <1>b DEF Reaped
<1>2. \A q \in Procs :
         /\ state'[q] = IF q = c THEN "free" ELSE state[q]
         /\ q # c => exiting'[q] = exiting[q]
         /\ pc'[q] = IF q = p THEN next ELSE IF q = c THEN "free" ELSE pc[q]
         /\ waitPid'[q] = IF q = p THEN NULL ELSE waitPid[q]
         /\ links'.parent[q] = IF q = c THEN NULL ELSE links.parent[q]
  BY <1>a, <1>u, <1>1 DEF TypeOK, Links
<1>x. ~exiting'[c]
  BY <1>a, <1>u, <1>1 DEF TypeOK
<1>3. c \in ToSet(proc_list) /\ Alive' = Alive \ {c}
  <2>1. c \in Alive \ {idleproc}
    BY <1>1, PidFacts DEF Alive
  <2>2. Alive' = Alive \ {c}
    BY <1>2 DEF Alive
  <2> QED
    BY <1>a, <2>1, <2>2 DEF ListMatchesProcesses
<1>4. /\ proc_list' \in Seq(Procs) /\ IsInjective(proc_list')
      /\ ToSet(proc_list') = ToSet(proc_list) \ {c}
      /\ Len(proc_list') = Len(proc_list) - 1
  <2>1. proc_list \in Seq(Procs) /\ IsInjective(proc_list)
    BY <1>a DEF TypeOK, ListMatchesProcesses
  <2>2. c \in Procs /\ c \in ToSet(proc_list)
    BY <1>1, <1>3
  <2> DEFINE rest == RemoveFirst(proc_list, c)
  <2>3. /\ rest \in Seq(Procs) /\ IsInjective(rest) /\ ToSet(rest) = ToSet(proc_list) \ {c}
        /\ Len(rest) = Len(proc_list) - 1
    BY <2>1, <2>2, RemoveOne
  <2> QED
    BY <1>w, <2>3
<1>5. Len(proc_list) \in Nat \ {0}
  <2>1. Len(proc_list') \in Nat /\ Len(proc_list) \in Nat
    BY <1>a, <1>4, LenProperties DEF TypeOK
  <2> QED
    BY <1>4, <2>1
<1>6. TypeOK'
  <2>1. pc' \in [Procs -> PCs]
    <3>1. next \in PCs /\ "free" \in PCs
      BY DEF PCs
    <3> QED
      BY <1>a, <1>u, <3>1 DEF TypeOK
  <2>2. /\ state' \in [Procs -> {"free", "RUNNABLE", "SLEEPING", "ZOMBIE"}]
        /\ exiting' \in [Procs -> BOOLEAN]
        /\ waitPid' \in [Procs -> Procs \cup {NULL}]
    BY <1>a, <1>u DEF TypeOK
  <2>3. links' \in Links
    BY <1>v DEF Chained
  <2>4. nr_process' \in Nat /\ kstacks' \in Nat
    BY <1>a, <1>w, <1>5 DEF TypeOK, ListMatchesProcesses, EnoughStacks
  <2> QED
    BY <1>a, <1>v, <1>4, <2>1, <2>2, <2>3, <2>4 DEF TypeOK
<1>7. ListMatchesProcesses'
  <2>1. nr_process' = Len(proc_list') + 1
    BY <1>a, <1>w, <1>4, <1>5 DEF ListMatchesProcesses
  <2>2. ToSet(proc_list') = Alive' \ {idleproc}
    BY <1>a, <1>3, <1>4 DEF ListMatchesProcesses
  <2> QED
    BY <1>4, <2>1, <2>2 DEF ListMatchesProcesses
<1>8. WakeupOnlySleepers'
  BY <1>a, <1>1, <1>v, <1>2 DEF WakeupOnlySleepers
<1>9. EnoughStacks'
  BY <1>a, <1>w, <1>4, <1>5 DEF EnoughStacks, TypeOK
<1>10. LabelsAgree'
  <2>1. state'[current'] = "RUNNABLE" /\ state'[idleproc] = "RUNNABLE"
        /\ waitPid'[initproc] \in {NULL, AnyChild}
    BY <1>a, <1>1, <1>v, <1>2, PidFacts DEF LabelsAgree
  <2>2. pc'[initproc] \in InitLabels \cup {"wait"}
    BY <1>a, <1>1, <1>2, PidFacts DEF LabelsAgree, InitLabels
  <2>3. ASSUME NEW q \in Procs
        PROVE  /\ state'[q] = "free" <=> pc'[q] = "free"
               /\ state'[q] = "ZOMBIE" <=> pc'[q] = "zombie"
               /\ waitPid'[q] # NULL <=> pc'[q] = "wait"
               /\ state'[q] = "SLEEPING" => pc'[q] = "wait"
               /\ pc'[q] = "idle" <=> q = idleproc
               /\ pc'[q] \in InitLabels => q = initproc
               /\ state'[q] = "free" => ~exiting'[q]
    <3>1. CASE q = p
      BY <1>1, <1>2, <3>1, PidFacts DEF InitLabels
    <3>2. CASE q = c
      <4>1. pc[c] = "zombie" /\ waitPid[c] = NULL
        BY <1>a, <1>1 DEF LabelsAgree
      <4> QED
        BY <1>1, <1>x, <1>2, <3>2, <4>1, PidFacts DEF InitLabels
    <3>3. CASE q # p /\ q # c
      BY <1>a, <1>2, <3>3 DEF LabelsAgree
    <3> QED
      BY <3>1, <3>2, <3>3
  <2> QED
    BY <2>1, <2>2, <2>3 DEF LabelsAgree
<1>11. AloneAtEnds'
  BY <1>a, <1>1, <1>2, PidFacts DEF AloneAtEnds
<1>12. ParentsAlive'
  <2>1. links'.parent[idleproc] = NULL /\ links'.parent[initproc] = idleproc
    BY <1>a, <1>2, PidFacts DEF ParentsAlive
  <2>2. ASSUME NEW x \in UserPids
        PROVE  IF state'[x] = "free" THEN links'.parent[x] = NULL
               ELSE /\ links'.parent[x] \in UserAndInit \ {x}
                    /\ state'[links'.parent[x]] \in {"RUNNABLE", "SLEEPING"}
    <3>1. CASE x = c
      BY <1>1, <1>2, <3>1
    <3>2. CASE x # c
      <4>1. state'[x] = state[x] /\ links'.parent[x] = links.parent[x]
        BY <1>2, <3>2, PidFacts
      <4>2. state[x] # "free" => /\ links.parent[x] \in UserAndInit \ {x}
                                 /\ state[links.parent[x]] \in {"RUNNABLE", "SLEEPING"}
        BY <1>a DEF ParentsAlive
      <4>3. state[x] # "free" => state'[links.parent[x]] = state[links.parent[x]]
        BY <1>1, <1>2, <4>2, PidFacts
      <4> QED
        BY <1>a, <4>1, <4>2, <4>3 DEF ParentsAlive
    <3> QED
      BY <3>1, <3>2
  <2> QED
    BY <2>1, <2>2 DEF ParentsAlive
<1>13. NoLostWakeup'
  <2>1. ASSUME NEW q \in UserAndInit, state'[q] = "SLEEPING"
        PROVE  Awaited(q)' # {} /\ \A d \in Awaited(q)' : state'[d] # "ZOMBIE"
    <3>1. state[q] = "SLEEPING" /\ q # p /\ q # c /\ q \in Procs
      BY <1>1, <1>2, <2>1, PidFacts
    <3>2. \A d \in UserPids : links'.parent[d] = q <=> links.parent[d] = q
      BY <1>1, <1>2, <3>1, PidFacts
    <3>3. Awaited(q)' = Awaited(q)
      BY <1>2, <3>1, <3>2, PidFacts DEF Awaited
    <3> QED
      BY <1>a, <1>2, <3>1, <3>3, PidFacts DEF NoLostWakeup, Awaited
  <2> QED
    BY <2>1 DEF NoLostWakeup
<1>14. Rooted(links')
  <2>1. PICK depth : Depths(links, depth)
    BY <1>a DEF Rooted
  <2>2. ASSUME NEW x \in UserPids, links'.parent[x] # NULL
        PROVE  depth[links'.parent[x]] < depth[x]
    BY <1>2, <2>1, <2>2, PidFacts DEF Depths
  <2> QED
    BY <2>1, <2>2 DEF Rooted, Depths
<1>15. OnlyInitEndsIt'
  BY <1>v DEF OnlyInitEndsIt, Running
<1> QED
  BY <1>v, <1>6, <1>7, <1>8, <1>9, <1>10, <1>11, <1>12, <1>13, <1>14, <1>15 DEF IInv

\* do_wait that puts the process to sleep.
LEMMA SleepKeeps ==
    ASSUME IInv, Running, NEW p \in UserAndInit, p = current, NEW t \in Procs,
           p = initproc => t = AnyChild, DoWaitSleep(p, t)
    PROVE  IInv'
<1>a. /\ TypeOK /\ ListMatchesProcesses /\ WakeupOnlySleepers /\ EnoughStacks
      /\ LabelsAgree /\ AloneAtEnds /\ ParentsAlive /\ NoLostWakeup
      /\ Chained(links) /\ Rooted(links) /\ OnlyInitEndsIt
  BY DEF IInv
<1>1. p \in Procs /\ p # idleproc /\ state[p] = "RUNNABLE"
  BY <1>a, PidFacts DEF LabelsAgree
<1>u. /\ state' = [state EXCEPT ![p] = "SLEEPING"]
      /\ wait_state' = [wait_state EXCEPT ![p] = "WT_CHILD"]
      /\ waitPid' = [waitPid EXCEPT ![p] = t]
      /\ pc' = [pc EXCEPT ![p] = "wait"]
  BY DEF DoWaitSleep, Goto
<1>v. /\ exiting' = exiting /\ links' = links /\ proc_list' = proc_list
      /\ nr_process' = nr_process /\ kstacks' = kstacks /\ panic' = panic
  BY DEF DoWaitSleep
<1>w. need_resched' = [need_resched EXCEPT ![current] = FALSE]
      /\ current' = NextToRun(current, state', proc_list')
  BY DEF DoWaitSleep, Schedule
<1>2. \A q \in Procs :
         /\ state'[q] = IF q = p THEN "SLEEPING" ELSE state[q]
         /\ wait_state'[q] = IF q = p THEN "WT_CHILD" ELSE wait_state[q]
         /\ waitPid'[q] = IF q = p THEN t ELSE waitPid[q]
         /\ pc'[q] = IF q = p THEN "wait" ELSE pc[q]
  BY <1>a, <1>u, <1>1 DEF TypeOK
<1>3. current' \in Procs /\ state'[current'] = "RUNNABLE"
  <2>1. current' \in Procs /\ (current' = idleproc \/ state'[current'] = "RUNNABLE")
    <3>1. current \in Procs /\ proc_list' \in Seq(Procs)
      BY <1>a, <1>v DEF TypeOK
    <3> QED
      BY <1>w, <3>1, NextToRunRuns
  <2>2. state'[idleproc] = "RUNNABLE"
    BY <1>a, <1>1, <1>2, PidFacts DEF LabelsAgree
  <2> QED
    BY <2>1, <2>2
<1>4. TypeOK'
  <2>1. pc' \in [Procs -> PCs]
    BY <1>a, <1>u DEF TypeOK, PCs
  <2>2. /\ state' \in [Procs -> {"free", "RUNNABLE", "SLEEPING", "ZOMBIE"}]
        /\ wait_state' \in [Procs -> {"none", "WT_CHILD"}]
        /\ waitPid' \in [Procs -> Procs \cup {NULL}]
    BY <1>a, <1>u DEF TypeOK
  <2>3. need_resched' \in [Procs -> BOOLEAN]
    BY <1>a, <1>w DEF TypeOK
  <2> QED
    BY <1>a, <1>v, <1>3, <2>1, <2>2, <2>3 DEF TypeOK
<1>5. ListMatchesProcesses'
  <2>1. Alive' = Alive
    BY <1>1, <1>2 DEF Alive
  <2> QED
    BY <1>a, <1>v, <2>1 DEF ListMatchesProcesses
<1>6. WakeupOnlySleepers'
  BY <1>a, <1>1, <1>2 DEF WakeupOnlySleepers
<1>7. EnoughStacks'
  BY <1>a, <1>v DEF EnoughStacks
<1>8. LabelsAgree'
  <2>1. state'[idleproc] = "RUNNABLE" /\ waitPid'[initproc] \in {NULL, AnyChild}
        /\ pc'[initproc] \in InitLabels \cup {"wait"}
    BY <1>a, <1>1, <1>2, PidFacts DEF LabelsAgree
  <2>2. ASSUME NEW q \in Procs
        PROVE  /\ state'[q] = "free" <=> pc'[q] = "free"
               /\ state'[q] = "ZOMBIE" <=> pc'[q] = "zombie"
               /\ waitPid'[q] # NULL <=> pc'[q] = "wait"
               /\ state'[q] = "SLEEPING" => pc'[q] = "wait"
               /\ pc'[q] = "idle" <=> q = idleproc
               /\ pc'[q] \in InitLabels => q = initproc
               /\ state'[q] = "free" => ~exiting'[q]
    <3>1. CASE q = p
      BY <1>1, <1>2, <3>1, PidFacts DEF InitLabels
    <3>2. CASE q # p
      BY <1>a, <1>v, <1>2, <3>2 DEF LabelsAgree
    <3> QED
      BY <3>1, <3>2
  <2> QED
    BY <1>3, <2>1, <2>2 DEF LabelsAgree
<1>9. AloneAtEnds'
  BY <1>a, <1>1, <1>2, PidFacts DEF AloneAtEnds
<1>10. ParentsAlive'
  <2>1. \A q \in Procs : state[q] \in {"RUNNABLE", "SLEEPING"}
                            => state'[q] \in {"RUNNABLE", "SLEEPING"}
    BY <1>2
  <2>2. \A q \in Procs : state'[q] = "free" <=> state[q] = "free"
    BY <1>1, <1>2
  <2> QED
    BY <1>a, <1>v, <2>1, <2>2, PidFacts DEF ParentsAlive
<1>11. NoLostWakeup'
  <2> SUFFICES ASSUME NEW q \in UserAndInit, state'[q] = "SLEEPING"
               PROVE  Awaited(q)' # {} /\ \A d \in Awaited(q)' : state'[d] # "ZOMBIE"
    BY DEF NoLostWakeup
  <2>1. \A d \in UserPids : state'[d] = "ZOMBIE" => state[d] = "ZOMBIE"
    BY <1>2, PidFacts
  <2>2. CASE q = p
    <3> DEFINE kids == {c \in UserPids : links.parent[c] = p /\ (t = AnyChild \/ c = t)}
    <3>1. kids # {} /\ \A c \in kids : state[c] # "ZOMBIE"
      <4>1. Searched(p, t) # <<>> /\ FirstZombie(p, t) = 0
        BY DEF DoWaitSleep
      <4> QED
        BY <1>a, <4>1, SearchedKids
    <3>2. Awaited(q)' = kids
      BY <1>1, <1>v, <1>2, <2>2 DEF Awaited
    <3> QED
      BY <2>1, <3>1, <3>2
  <2>3. CASE q # p
    <3>1. state[q] = "SLEEPING" /\ Awaited(q)' = Awaited(q)
      BY <1>v, <1>2, <2>3, PidFacts DEF Awaited
    <3> QED
      BY <1>a, <2>1, <3>1 DEF NoLostWakeup, Awaited
  <2> QED
    BY <2>2, <2>3
<1>12. Chained(links') /\ Rooted(links')
  BY <1>a, <1>v
<1>13. OnlyInitEndsIt'
  BY <1>v DEF OnlyInitEndsIt, Running
<1> QED
  BY <1>4, <1>5, <1>6, <1>7, <1>8, <1>9, <1>10, <1>11, <1>12, <1>13 DEF IInv

\* The parents of all lead to init: without a child of init there is nobody.
LEMMA ChildlessInitIsAlone ==
    ASSUME IInv, \A c \in UserPids : links.parent[c] # initproc
    PROVE  \A c \in UserPids : state[c] = "free"
<1>1. ParentsAlive /\ Rooted(links)
  BY DEF IInv
<1>2. PICK depth : Depths(links, depth)
  BY <1>1 DEF Rooted
<1>3. SUFFICES ASSUME NEW c \in UserPids, state[c] # "free" PROVE FALSE
  OBVIOUS
<1> DEFINE depths == {depth[x] : x \in {y \in UserPids : state[y] # "free"}}
<1>4. depths \subseteq Nat /\ depths # {}
  BY <1>2, <1>3, PidFacts DEF Depths
<1>5. PICK d \in depths : \A e \in depths : d <= e
  BY <1>4, LeastOfNat
<1>6. PICK x \in UserPids : state[x] # "free" /\ d = depth[x]
  BY <1>5
<1> DEFINE y == links.parent[x]
<1>7. y \in UserPids /\ state[y] # "free" /\ y # NULL
  BY <1>1, <1>6, PidFacts DEF ParentsAlive
<1>8. depth[y] < depth[x] /\ depth[y] \in Nat /\ depth[x] \in Nat
  BY <1>2, <1>6, <1>7, PidFacts DEF Depths
<1>9. depth[x] <= depth[y]
  BY <1>5, <1>6, <1>7
<1> QED
  BY <1>8, <1>9

\* do_wait without such a child.
LEMMA WaitFailsKeeps ==
    ASSUME IInv, Running, NEW p \in UserAndInit, p = current, NEW t \in Procs,
           p = initproc => t = AnyChild,
           NEW next \in {"trap", "checks"}, next = "checks" <=> p = initproc,
           DoWaitFails(p, t, next)
    PROVE  IInv'
<1>a. /\ TypeOK /\ ListMatchesProcesses /\ WakeupOnlySleepers /\ EnoughStacks
      /\ LabelsAgree /\ AloneAtEnds /\ ParentsAlive /\ NoLostWakeup
      /\ Chained(links) /\ Rooted(links) /\ OnlyInitEndsIt
  BY DEF IInv
<1>1. p \in Procs /\ p # idleproc /\ state[p] = "RUNNABLE"
  BY <1>a, PidFacts DEF LabelsAgree
<1>u. waitPid' = [waitPid EXCEPT ![p] = NULL] /\ pc' = [pc EXCEPT ![p] = next]
  BY DEF DoWaitFails, Goto
<1>v. /\ state' = state /\ wait_state' = wait_state /\ exiting' = exiting
      /\ links' = links /\ proc_list' = proc_list /\ nr_process' = nr_process
      /\ kstacks' = kstacks /\ panic' = panic
      /\ current' = current /\ need_resched' = need_resched
  BY DEF DoWaitFails, NoSwitch
<1>2. \A q \in Procs : /\ waitPid'[q] = IF q = p THEN NULL ELSE waitPid[q]
                       /\ pc'[q] = IF q = p THEN next ELSE pc[q]
  BY <1>a, <1>u, <1>1 DEF TypeOK
<1>3. TypeOK'
  <2>1. pc' \in [Procs -> PCs]
    <3>1. next \in PCs
      BY DEF PCs
    <3> QED
      BY <1>a, <1>u, <3>1 DEF TypeOK
  <2>2. waitPid' \in [Procs -> Procs \cup {NULL}]
    BY <1>a, <1>u DEF TypeOK
  <2> QED
    BY <1>a, <1>v, <2>1, <2>2 DEF TypeOK
<1>4. ListMatchesProcesses' /\ WakeupOnlySleepers' /\ EnoughStacks' /\ ParentsAlive'
  BY <1>a, <1>v DEF ListMatchesProcesses, WakeupOnlySleepers, EnoughStacks, ParentsAlive, Alive
<1>5. LabelsAgree'
  <2>1. waitPid'[initproc] \in {NULL, AnyChild} /\ pc'[initproc] \in InitLabels \cup {"wait"}
    BY <1>a, <1>2, PidFacts DEF LabelsAgree, InitLabels
  <2>2. ASSUME NEW q \in Procs
        PROVE  /\ state'[q] = "free" <=> pc'[q] = "free"
               /\ state'[q] = "ZOMBIE" <=> pc'[q] = "zombie"
               /\ waitPid'[q] # NULL <=> pc'[q] = "wait"
               /\ state'[q] = "SLEEPING" => pc'[q] = "wait"
               /\ pc'[q] = "idle" <=> q = idleproc
               /\ pc'[q] \in InitLabels => q = initproc
               /\ state'[q] = "free" => ~exiting'[q]
    <3>1. CASE q = p
      BY <1>1, <1>v, <1>2, <3>1, PidFacts DEF InitLabels
    <3>2. CASE q # p
      BY <1>a, <1>v, <1>2, <3>2 DEF LabelsAgree
    <3> QED
      BY <3>1, <3>2
  <2> QED
    BY <1>a, <1>v, <2>1, <2>2 DEF LabelsAgree
<1>6. AloneAtEnds'
  <2>1. CASE p # initproc
    BY <1>a, <1>v, <1>2, <2>1, PidFacts DEF AloneAtEnds
  <2>2. CASE p = initproc
    <3> DEFINE kids == {c \in UserPids : links.parent[c] = p /\ (t = AnyChild \/ c = t)}
    <3>1. kids = {}
      <4>1. Searched(p, t) = <<>>
        BY DEF DoWaitFails
      <4> QED
        BY <1>a, <4>1, SearchedKids
    <3>2. \A c \in UserPids : links.parent[c] # initproc
      BY <2>2, <3>1
    <3> QED
      BY <1>v, <3>2, ChildlessInitIsAlone DEF AloneAtEnds
  <2> QED
    BY <2>1, <2>2
<1>7. NoLostWakeup'
  <2>1. ASSUME NEW q \in UserAndInit, state'[q] = "SLEEPING"
        PROVE  Awaited(q)' # {} /\ \A d \in Awaited(q)' : state'[d] # "ZOMBIE"
    <3>1. state[q] = "SLEEPING" /\ q # p
      BY <1>1, <1>v, <2>1
    <3>2. Awaited(q)' = Awaited(q)
      BY <1>v, <1>2, <3>1, PidFacts DEF Awaited
    <3> QED
      BY <1>a, <1>v, <3>1, <3>2 DEF NoLostWakeup
  <2> QED
    BY <2>1 DEF NoLostWakeup
<1>8. Chained(links') /\ Rooted(links') /\ OnlyInitEndsIt'
  BY <1>a, <1>v DEF OnlyInitEndsIt, Running
<1> QED
  BY <1>3, <1>4, <1>5, <1>6, <1>7, <1>8 DEF IInv

\* do_kill, in terms of the processes.
Killed(p, q) ==
    /\ state[q] # "free" /\ ~exiting[q]
    /\ exiting' = [exiting EXCEPT ![q] = TRUE]
    /\ state' = [x \in Procs |-> IF x = q /\ state[q] = "SLEEPING" THEN "RUNNABLE" ELSE state[x]]
    /\ wait_state' = [x \in Procs |-> IF x = q /\ state[q] = "SLEEPING" THEN "none"
                                      ELSE wait_state[x]]
    /\ pc' = [pc EXCEPT ![p] = "trap"]
    /\ links' = links /\ proc_list' = proc_list /\ nr_process' = nr_process
    /\ waitPid' = waitPid /\ kstacks' = kstacks /\ panic' = panic
    /\ current' = current /\ need_resched' = need_resched

LEMMA KillEffect ==
    ASSUME IInv, NEW p, SysKill(p)
    PROVE  \E q \in UserAndInit : Killed(p, q)
<1>1. PICK q \in KillTargets : /\ state[q] # "free" /\ ~exiting[q]
                               /\ exiting' = [exiting EXCEPT ![q] = TRUE]
                               /\ Wakeup({q}, state)
  BY DEF SysKill
<1>2. q \in UserAndInit /\ q \in Procs
  BY ProcessAssumption, PidFacts
<1>3. \A x \in Procs : x \in Sleepers({q}) <=> x = q /\ state[q] = "SLEEPING"
  BY <1>2 DEF Sleepers, IInv, WakeupOnlySleepers
<1>4. /\ state' = [x \in Procs |-> IF x = q /\ state[q] = "SLEEPING" THEN "RUNNABLE" ELSE state[x]]
      /\ wait_state' = [x \in Procs |-> IF x = q /\ state[q] = "SLEEPING" THEN "none"
                                        ELSE wait_state[x]]
  BY <1>1, <1>3 DEF Wakeup
<1>5. /\ pc' = [pc EXCEPT ![p] = "trap"]
      /\ links' = links /\ proc_list' = proc_list /\ nr_process' = nr_process
      /\ waitPid' = waitPid /\ kstacks' = kstacks /\ panic' = panic
      /\ current' = current /\ need_resched' = need_resched
  BY DEF SysKill, Goto, NoSwitch
<1> QED
  BY <1>1, <1>2, <1>4, <1>5 DEF Killed

LEMMA KillKeeps ==
    ASSUME IInv, Running, NEW p \in Procs, pc[p] = "user", NEW q \in UserAndInit, Killed(p, q)
    PROVE  IInv'
<1>a. /\ TypeOK /\ ListMatchesProcesses /\ WakeupOnlySleepers /\ EnoughStacks
      /\ LabelsAgree /\ AloneAtEnds /\ ParentsAlive /\ NoLostWakeup
      /\ Chained(links) /\ Rooted(links) /\ OnlyInitEndsIt
  BY DEF IInv
<1>1. q \in Procs /\ state[q] # "free"
  BY PidFacts DEF Killed
<1>u. /\ exiting' = [exiting EXCEPT ![q] = TRUE]
      /\ state' = [x \in Procs |-> IF x = q /\ state[q] = "SLEEPING" THEN "RUNNABLE" ELSE state[x]]
      /\ wait_state' = [x \in Procs |-> IF x = q /\ state[q] = "SLEEPING" THEN "none"
                                        ELSE wait_state[x]]
      /\ pc' = [pc EXCEPT ![p] = "trap"]
  BY DEF Killed
<1>v. /\ links' = links /\ proc_list' = proc_list /\ nr_process' = nr_process
      /\ waitPid' = waitPid /\ kstacks' = kstacks /\ panic' = panic
      /\ current' = current /\ need_resched' = need_resched
  BY DEF Killed
<1>2. \A x \in Procs :
         /\ state'[x] = IF x = q /\ state[q] = "SLEEPING" THEN "RUNNABLE" ELSE state[x]
         /\ wait_state'[x] = IF x = q /\ state[q] = "SLEEPING" THEN "none" ELSE wait_state[x]
         /\ pc'[x] = IF x = p THEN "trap" ELSE pc[x]
         /\ x # q => exiting'[x] = exiting[x]
  BY <1>a, <1>u DEF TypeOK
<1>3. TypeOK'
  <2>1. pc' \in [Procs -> PCs]
    BY <1>a, <1>u DEF TypeOK, PCs
  <2>2. /\ state' \in [Procs -> {"free", "RUNNABLE", "SLEEPING", "ZOMBIE"}]
        /\ wait_state' \in [Procs -> {"none", "WT_CHILD"}]
    BY <1>a, <1>u DEF TypeOK
  <2>3. exiting' \in [Procs -> BOOLEAN]
    BY <1>a, <1>u DEF TypeOK
  <2> QED
    BY <1>a, <1>v, <2>1, <2>2, <2>3 DEF TypeOK
<1>4. ListMatchesProcesses'
  <2>1. Alive' = Alive
    BY <1>2 DEF Alive
  <2> QED
    BY <1>a, <1>v, <2>1 DEF ListMatchesProcesses
<1>5. WakeupOnlySleepers' /\ EnoughStacks'
  BY <1>a, <1>v, <1>2 DEF WakeupOnlySleepers, EnoughStacks
<1>6. LabelsAgree'
  <2>1. /\ state'[current'] = "RUNNABLE" /\ state'[idleproc] = "RUNNABLE"
        /\ waitPid'[initproc] \in {NULL, AnyChild}
        /\ pc'[initproc] \in InitLabels \cup {"wait"}
    BY <1>a, <1>v, <1>2, PidFacts DEF LabelsAgree, InitLabels, TypeOK
  <2>2. ASSUME NEW x \in Procs
        PROVE  /\ state'[x] = "free" <=> pc'[x] = "free"
               /\ state'[x] = "ZOMBIE" <=> pc'[x] = "zombie"
               /\ waitPid'[x] # NULL <=> pc'[x] = "wait"
               /\ state'[x] = "SLEEPING" => pc'[x] = "wait"
               /\ pc'[x] = "idle" <=> x = idleproc
               /\ pc'[x] \in InitLabels => x = initproc
    BY <1>a, <1>v, <1>2 DEF LabelsAgree, InitLabels
  <2>3. ASSUME NEW x \in Procs, state'[x] = "free" PROVE ~exiting'[x]
    <3>1. x # q /\ state[x] = "free"
      BY <1>1, <1>2, <2>3
    <3> QED
      BY <1>a, <1>2, <3>1 DEF LabelsAgree
  <2> QED
    BY <2>1, <2>2, <2>3 DEF LabelsAgree
<1>7. AloneAtEnds'
  BY <1>a, <1>1, <1>2, PidFacts DEF AloneAtEnds
<1>8. ParentsAlive'
  <2>1. \A x \in Procs : state[x] \in {"RUNNABLE", "SLEEPING"}
                            => state'[x] \in {"RUNNABLE", "SLEEPING"}
    BY <1>2
  <2>2. \A x \in Procs : state'[x] = "free" <=> state[x] = "free"
    BY <1>2
  <2> QED
    BY <1>a, <1>v, <2>1, <2>2, PidFacts DEF ParentsAlive
<1>9. NoLostWakeup'
  <2>1. \A d \in UserPids : state'[d] = "ZOMBIE" => state[d] = "ZOMBIE"
    BY <1>2, PidFacts
  <2>2. ASSUME NEW x \in UserAndInit, state'[x] = "SLEEPING"
        PROVE  Awaited(x)' # {} /\ \A d \in Awaited(x)' : state'[d] # "ZOMBIE"
    <3>1. state[x] = "SLEEPING" /\ Awaited(x)' = Awaited(x)
      BY <1>v, <1>2, <2>2, PidFacts DEF Awaited
    <3> QED
      BY <1>a, <2>1, <3>1 DEF NoLostWakeup, Awaited
  <2> QED
    BY <2>2 DEF NoLostWakeup
<1>10. Chained(links') /\ Rooted(links') /\ OnlyInitEndsIt'
  BY <1>a, <1>v DEF OnlyInitEndsIt, Running
<1> QED
  BY <1>3, <1>4, <1>5, <1>6, <1>7, <1>8, <1>9, <1>10 DEF IInv

-----------------------------------------------------------------------------

(***************************************************************************)
(* Every operation is a step of ProcTree.                                  *)
(***************************************************************************)
TreeStep == [Tree!Next]_(Tree!vars)

LEMMA TreeProcs == Tree!Procs = UserAndInit /\ Tree!Targets = Procs
<1>1. Tree!Procs = UserAndInit
  BY DEF Tree!Procs, UserAndInit
<1>2. Tree!Targets = Procs
  BY DEF Tree!Procs, Tree!Targets, Tree!AnyChild, Procs, idleproc
<1> QED
  BY <1>1, <1>2

LEMMA ForkMaps ==
    ASSUME IInv, Running, NEW p \in UserAndInit, p = current, NEW c \in UserPids,
           NEW l, NEW next,
           pc[p] # "wait", ForkChild(p, c, l, next),
           links'.parent = [links.parent EXCEPT ![c] = p]
    PROVE  TreeStep
<1>1. /\ TypeOK /\ LabelsAgree /\ state[p] = "RUNNABLE" /\ waitPid[p] = NULL
      /\ c \in Procs /\ p \in Procs /\ c \in UserAndInit /\ c # initproc
  BY PidFacts DEF IInv, LabelsAgree
<1>2. /\ state[c] = "free" /\ state' = [state EXCEPT ![c] = "RUNNABLE"]
      /\ exiting' = exiting /\ waitPid' = waitPid
  BY DEF ForkChild
<1>3. /\ \A q \in UserAndInit : q \in Procs
      /\ \A q \in Procs : state'[q] = IF q = c THEN "RUNNABLE" ELSE state[q]
      /\ \A q \in Procs : links'.parent[q] = IF q = c THEN p ELSE links.parent[q]
      /\ exiting[c] = FALSE
  BY <1>1, <1>2, PidFacts DEF TypeOK, Links, LabelsAgree
<1>4. Tree!Fork(p, c)
  <2>1. [q \in UserAndInit |-> state'[q]]
            = [[q \in UserAndInit |-> state[q]] EXCEPT ![c] = "RUNNABLE"]
    BY <1>1, <1>3
  <2>2. [q \in UserAndInit |-> IF q = initproc THEN NULL ELSE links'.parent[q]]
            = [[q \in UserAndInit |-> IF q = initproc THEN NULL ELSE links.parent[q]]
                  EXCEPT ![c] = p]
    BY <1>1, <1>3
  <2>3. [q \in UserAndInit |-> exiting'[q]]
            = [[q \in UserAndInit |-> exiting[q]] EXCEPT ![c] = FALSE]
    BY <1>1, <1>2, <1>3
  <2>4. [q \in UserAndInit |-> waitPid'[q]] = [q \in UserAndInit |-> waitPid[q]]
    BY <1>2
  <2>5. /\ [q \in UserAndInit |-> state[q]][p] = "RUNNABLE"
        /\ [q \in UserAndInit |-> waitPid[q]][p] = NULL
        /\ [q \in UserAndInit |-> state[q]][c] = "free"
    BY <1>1, <1>2
  <2> QED
    BY <2>1, <2>2, <2>3, <2>4, <2>5 DEF Tree!Fork
<1> QED
  BY <1>4, TreeProcs DEF TreeStep, Tree!Next

\* The children a process of ProcTree waits for.
LEMMA TreeMatches ==
    ASSUME IInv, NEW p \in UserAndInit, NEW t
    PROVE  Tree!Matches(p, t) = {c \in UserPids : links.parent[c] = p /\ (t = AnyChild \/ c = t)}
BY PidFacts DEF Tree!Matches, Tree!AnyChild, AnyChild

\* A process that calls do_wait or was woken in it.
LEMMA TreeSearching ==
    ASSUME IInv, NEW p \in UserAndInit, p = current, NEW t,
           waitPid[p] = NULL \/ (waitPid[p] = t /\ ~exiting[p])
    PROVE  Tree!Searching(p, t)
BY PidFacts DEF Tree!Searching, IInv, LabelsAgree

LEMMA ReapMaps ==
    ASSUME IInv, NEW p \in UserAndInit, p = current, NEW t \in Procs, NEW next,
           waitPid[p] = NULL \/ (waitPid[p] = t /\ ~exiting[p]),
           DoWaitReap(p, t, next)
    PROVE  TreeStep
<1>1. PICK c \in UserPids : Reaped(p, t, c, next)
  BY ReapEffect
<1>2. /\ links.parent[c] = p /\ t \in {AnyChild, c} /\ state[c] = "ZOMBIE"
      /\ state' = [state EXCEPT ![c] = "free"]
      /\ exiting' = [exiting EXCEPT ![c] = FALSE]
      /\ links'.parent = [links.parent EXCEPT ![c] = NULL]
      /\ waitPid' = [waitPid EXCEPT ![p] = NULL]
  BY <1>1 DEF Reaped
<1>3. TypeOK /\ c \in UserAndInit /\ c # initproc /\ \A q \in UserAndInit : q \in Procs
  BY PidFacts DEF IInv
<1>4. Tree!WaitReap(p, t, c)
  <2>1. [q \in UserAndInit |-> state'[q]]
            = [[q \in UserAndInit |-> state[q]] EXCEPT ![c] = "free"]
    BY <1>2, <1>3 DEF TypeOK
  <2>2. [q \in UserAndInit |-> IF q = initproc THEN NULL ELSE links'.parent[q]]
            = [[q \in UserAndInit |-> IF q = initproc THEN NULL ELSE links.parent[q]]
                  EXCEPT ![c] = NULL]
    BY <1>2, <1>3 DEF TypeOK, Links
  <2>3. [q \in UserAndInit |-> exiting'[q]]
            = [[q \in UserAndInit |-> exiting[q]] EXCEPT ![c] = FALSE]
    BY <1>2, <1>3 DEF TypeOK
  <2>4. [q \in UserAndInit |-> waitPid'[q]]
            = [[q \in UserAndInit |-> waitPid[q]] EXCEPT ![p] = NULL]
    BY <1>2, <1>3 DEF TypeOK
  <2>5. c \in Tree!Matches(p, t) /\ [q \in UserAndInit |-> state[q]][c] = "ZOMBIE"
    BY <1>2, <1>3, TreeMatches
  <2>6. Tree!Searching(p, t)
    BY TreeSearching
  <2> QED
    BY <2>1, <2>2, <2>3, <2>4, <2>5, <2>6 DEF Tree!WaitReap
<1> QED
  BY <1>4, TreeProcs DEF TreeStep, Tree!Next

LEMMA SleepMaps ==
    ASSUME IInv, NEW p \in UserAndInit, p = current, NEW t \in Procs,
           waitPid[p] = NULL \/ (waitPid[p] = t /\ ~exiting[p]),
           DoWaitSleep(p, t)
    PROVE  TreeStep
<1>1. /\ state' = [state EXCEPT ![p] = "SLEEPING"]
      /\ waitPid' = [waitPid EXCEPT ![p] = t]
      /\ exiting' = exiting /\ links' = links
      /\ Searched(p, t) # <<>> /\ FirstZombie(p, t) = 0
  BY DEF DoWaitSleep
<1>2. /\ TypeOK /\ LabelsAgree /\ ParentsAlive /\ Chained(links)
      /\ \A q \in UserAndInit : q \in Procs
      /\ \A q \in UserPids : q \in UserAndInit
  BY PidFacts DEF IInv
<1>3. Tree!WaitSleep(p, t)
  <2>1. [q \in UserAndInit |-> state'[q]]
            = [[q \in UserAndInit |-> state[q]] EXCEPT ![p] = "SLEEPING"]
    BY <1>1, <1>2 DEF TypeOK
  <2>2. [q \in UserAndInit |-> waitPid'[q]]
            = [[q \in UserAndInit |-> waitPid[q]] EXCEPT ![p] = t]
    BY <1>1, <1>2 DEF TypeOK
  <2>3. Tree!Matches(p, t) # {} /\ \A c \in Tree!Matches(p, t) : state[c] # "ZOMBIE"
    BY <1>1, <1>2, TreeMatches, SearchedKids
  <2>4. \A c \in Tree!Matches(p, t) : [q \in UserAndInit |-> state[q]][c] # "ZOMBIE"
    <3>1. \A c \in Tree!Matches(p, t) : c \in UserAndInit
      BY <1>2, TreeMatches
    <3> QED
      BY <2>3, <3>1
  <2>5. Tree!Searching(p, t)
    BY TreeSearching
  <2>6. /\ [q \in UserAndInit |-> IF q = initproc THEN NULL ELSE links'.parent[q]]
            = [q \in UserAndInit |-> IF q = initproc THEN NULL ELSE links.parent[q]]
        /\ [q \in UserAndInit |-> exiting'[q]] = [q \in UserAndInit |-> exiting[q]]
    BY <1>1
  <2> QED
    BY <2>1, <2>2, <2>3, <2>4, <2>5, <2>6 DEF Tree!WaitSleep
<1> QED
  BY <1>3, TreeProcs DEF TreeStep, Tree!Next

LEMMA WaitFailsMaps ==
    ASSUME IInv, NEW p \in UserAndInit, p = current, NEW t \in Procs, NEW next,
           waitPid[p] = NULL \/ (waitPid[p] = t /\ ~exiting[p]),
           DoWaitFails(p, t, next)
    PROVE  TreeStep
<1>1. /\ waitPid' = [waitPid EXCEPT ![p] = NULL]
      /\ state' = state /\ exiting' = exiting /\ links' = links
      /\ Searched(p, t) = <<>>
  BY DEF DoWaitFails
<1>2. /\ TypeOK /\ LabelsAgree /\ ParentsAlive /\ Chained(links)
      /\ \A q \in UserAndInit : q \in Procs
  BY PidFacts DEF IInv
<1>3. Tree!WaitFail(p, t)
  <2>1. [q \in UserAndInit |-> waitPid'[q]]
            = [[q \in UserAndInit |-> waitPid[q]] EXCEPT ![p] = NULL]
    BY <1>1, <1>2 DEF TypeOK
  <2>2. Tree!Matches(p, t) = {}
    BY <1>1, <1>2, TreeMatches, SearchedKids
  <2>3. Tree!Searching(p, t)
    BY TreeSearching
  <2>4. /\ [q \in UserAndInit |-> IF q = initproc THEN NULL ELSE links'.parent[q]]
            = [q \in UserAndInit |-> IF q = initproc THEN NULL ELSE links.parent[q]]
        /\ [q \in UserAndInit |-> exiting'[q]] = [q \in UserAndInit |-> exiting[q]]
        /\ [q \in UserAndInit |-> state'[q]] = [q \in UserAndInit |-> state[q]]
    BY <1>1
  <2> QED
    BY <2>1, <2>2, <2>3, <2>4 DEF Tree!WaitFail
<1> QED
  BY <1>3, TreeProcs DEF TreeStep, Tree!Next

LEMMA ExitMaps ==
    ASSUME IInv, NEW p \in UserPids, p = current, DoExit(p),
           waitPid[p] # NULL => exiting[p]
    PROVE  TreeStep
<1> DEFINE zombie == \E c \in UserPids : links.parent[c] = p /\ state[c] = "ZOMBIE"
           woken(q) == /\ state[q] = "SLEEPING"
                       /\ q = links.parent[p] \/ (q = initproc /\ zombie)
           st == [q \in UserAndInit |-> state[q]]
           par == [q \in UserAndInit |-> IF q = initproc THEN NULL ELSE links.parent[q]]
           kids == {c \in UserPids : par[c] = p}
<1>1. /\ state' = [q \in Procs |-> IF q = p THEN "ZOMBIE"
                                   ELSE IF woken(q) THEN "RUNNABLE" ELSE state[q]]
      /\ links'.parent = [x \in Procs |-> IF links.parent[x] = p THEN initproc
                                          ELSE links.parent[x]]
      /\ waitPid' = [waitPid EXCEPT ![p] = NULL]
      /\ exiting' = exiting
  BY ExitEffect
<1>2. /\ TypeOK /\ LabelsAgree /\ ParentsAlive /\ state[p] = "RUNNABLE"
      /\ p \in UserAndInit /\ p # initproc
      /\ \A q \in UserAndInit : q \in Procs /\ (q = initproc \/ q \in UserPids)
      /\ \A q \in UserPids : q \in UserAndInit /\ q # initproc
  BY PidFacts DEF IInv, LabelsAgree
<1>3. /\ \A q \in UserAndInit : q \in kids <=> q # initproc /\ links.parent[q] = p
      /\ zombie <=> \E c \in kids : st[c] = "ZOMBIE"
      /\ par[p] = links.parent[p]
  BY <1>2
<1>4. [q \in UserAndInit |-> state'[q]]
          = [q \in UserAndInit |->
                IF q = p THEN "ZOMBIE"
                ELSE IF q = par[p] \/ (q = initproc /\ \E c \in kids : st[c] = "ZOMBIE")
                     THEN Tree!Woken(q) ELSE st[q]]
  <2>1. \A q \in UserAndInit : Tree!Woken(q) = IF state[q] = "SLEEPING" THEN "RUNNABLE"
                                               ELSE state[q]
    BY DEF Tree!Woken
  <2> HIDE DEF zombie, kids, par
  <2>2. ASSUME NEW q \in UserAndInit
        PROVE  state'[q] = IF q = p THEN "ZOMBIE"
                ELSE IF q = par[p] \/ (q = initproc /\ \E c \in kids : st[c] = "ZOMBIE")
                     THEN Tree!Woken(q) ELSE st[q]
    BY <1>1, <1>2, <1>3, <2>1
  <2> QED
    BY <2>2
<1>5. [q \in UserAndInit |-> IF q = initproc THEN NULL ELSE links'.parent[q]]
          = [q \in UserAndInit |-> IF q \in kids THEN initproc ELSE par[q]]
  <2> HIDE DEF kids
  <2> QED
    BY <1>1, <1>2, <1>3
<1>6. [q \in UserAndInit |-> waitPid'[q]]
          = [[q \in UserAndInit |-> waitPid[q]] EXCEPT ![p] = NULL]
  BY <1>1, <1>2 DEF TypeOK
<1>7. [q \in UserAndInit |-> exiting'[q]] = [q \in UserAndInit |-> exiting[q]]
  BY <1>1
<1>8. /\ st[p] = "RUNNABLE"
      /\ [q \in UserAndInit |-> waitPid[q]][p] # NULL
            => [q \in UserAndInit |-> exiting[q]][p]
  BY <1>2
<1> HIDE DEF zombie, woken
<1>9. Tree!Exit(p)
  BY <1>4, <1>5, <1>6, <1>7, <1>8, TreeProcs DEF Tree!Exit
<1> QED
  BY <1>9, TreeProcs DEF TreeStep, Tree!Next

LEMMA KillMaps ==
    ASSUME IInv, NEW p, NEW q \in UserAndInit, Killed(p, q)
    PROVE  TreeStep
<1>1. /\ state[q] # "free" /\ ~exiting[q]
      /\ exiting' = [exiting EXCEPT ![q] = TRUE]
      /\ state' = [x \in Procs |-> IF x = q /\ state[q] = "SLEEPING" THEN "RUNNABLE" ELSE state[x]]
      /\ links' = links /\ waitPid' = waitPid
  BY DEF Killed
<1>2. TypeOK /\ \A x \in UserAndInit : x \in Procs
  BY PidFacts DEF IInv
<1>3. Tree!Kill(q)
  <2>1. [x \in UserAndInit |-> exiting'[x]]
            = [[x \in UserAndInit |-> exiting[x]] EXCEPT ![q] = TRUE]
    BY <1>1, <1>2 DEF TypeOK
  <2>2. [x \in UserAndInit |-> state'[x]]
            = [[x \in UserAndInit |-> state[x]] EXCEPT ![q] = Tree!Woken(q)]
    <3>1. Tree!Woken(q) = IF state[q] = "SLEEPING" THEN "RUNNABLE" ELSE state[q]
      BY DEF Tree!Woken
    <3> QED
      BY <1>1, <1>2, <3>1
  <2>3. /\ [x \in UserAndInit |-> IF x = initproc THEN NULL ELSE links'.parent[x]]
            = [x \in UserAndInit |-> IF x = initproc THEN NULL ELSE links.parent[x]]
        /\ [x \in UserAndInit |-> waitPid'[x]] = [x \in UserAndInit |-> waitPid[x]]
    BY <1>1
  <2>4. [x \in UserAndInit |-> state[x]][q] # "free" /\ ~[x \in UserAndInit |-> exiting[x]][q]
    BY <1>1
  <2> QED
    BY <2>1, <2>2, <2>3, <2>4 DEF Tree!Kill
<1> QED
  BY <1>3, TreeProcs DEF TreeStep, Tree!Next

LEMMA QuietMaps ==
    ASSUME procVars' = procVars
    PROVE  TreeStep
BY DEF TreeStep, procVars, Tree!vars

-----------------------------------------------------------------------------

(***************************************************************************)
(* The steps of Next.                                                      *)
(***************************************************************************)

\* Who is at which label.
LEMMA WhoIsWhere ==
    ASSUME IInv, NEW p \in Procs
    PROVE  /\ pc[p] \in {"user", "trap", "user_main"} => p \in UserPids
           /\ pc[p] = "wait" => p \in UserAndInit /\ waitPid[p] \in Procs
           /\ pc[p] \in InitLabels => p = initproc
           /\ pc[p] = "idle" => p = idleproc
           /\ pc[p] # "idle" => p \in UserAndInit
           /\ pc[p] # "wait" => waitPid[p] = NULL
           /\ waitPid[initproc] \in {NULL, AnyChild}
BY PidFacts DEF IInv, LabelsAgree, InitLabels, TypeOK

\* schedule() when nothing else changes.
LEMMA ScheduleRuns ==
    ASSUME IInv, state' = state, proc_list' = proc_list, Schedule
    PROVE  /\ need_resched' \in [Procs -> BOOLEAN]
           /\ current' \in Procs /\ state[current'] = "RUNNABLE"
<1>1. /\ current \in Procs /\ proc_list \in Seq(Procs) /\ state[idleproc] = "RUNNABLE"
      /\ need_resched \in [Procs -> BOOLEAN]
  BY DEF IInv, TypeOK, LabelsAgree
<1>2. current' = NextToRun(current, state, proc_list)
      /\ need_resched' = [need_resched EXCEPT ![current] = FALSE]
  BY DEF Schedule
<1>3. current' \in Procs /\ (current' = idleproc \/ state[current'] = "RUNNABLE")
  BY <1>1, <1>2, NextToRunRuns
<1> QED
  BY <1>1, <1>2, <1>3

\* do_wait.
LEMMA WaitKeeps ==
    ASSUME IInv, Running, NEW p \in UserAndInit, p = current, NEW t \in Procs,
           p = initproc => t = AnyChild,
           waitPid[p] = NULL \/ (waitPid[p] = t /\ ~exiting[p]), DoWait(p, t)
    PROVE  IInv' /\ TreeStep
<1> DEFINE reaped == IF p = initproc THEN "reaped" ELSE "trap"
           failed == IF p = initproc THEN "checks" ELSE "trap"
<1>1. DoWaitReap(p, t, reaped) \/ DoWaitSleep(p, t) \/ DoWaitFails(p, t, failed)
  BY DEF DoWait
<1>2. /\ reaped \in {"trap", "reaped"} /\ (reaped = "reaped" <=> p = initproc)
      /\ failed \in {"trap", "checks"} /\ (failed = "checks" <=> p = initproc)
  OBVIOUS
<1> HIDE DEF reaped, failed
<1>3. CASE DoWaitReap(p, t, reaped)
  BY <1>2, <1>3, ReapKeeps, ReapMaps
<1>4. CASE DoWaitSleep(p, t)
  BY <1>4, SleepKeeps, SleepMaps
<1>5. CASE DoWaitFails(p, t, failed)
  BY <1>2, <1>5, WaitFailsKeeps, WaitFailsMaps
<1> QED
  BY <1>1, <1>3, <1>4, <1>5

\* The assertions of init_main hold when it comes to them.
LEMMA ChecksHold ==
    ASSUME IInv, pc[initproc] = "checks"
    PROVE  /\ links.cptr[initproc] = NULL /\ links.yptr[initproc] = NULL
           /\ links.optr[initproc] = NULL
           /\ nr_process = 2 /\ proc_list = <<initproc>>
           /\ Alive = {idleproc, initproc}
<1>1. /\ TypeOK /\ ListMatchesProcesses /\ LabelsAgree /\ AloneAtEnds /\ ParentsAlive
      /\ Mirrored(links) /\ links \in Links
  BY DEF IInv, Chained
<1>2. \A c \in UserPids : state[c] = "free" /\ links.parent[c] = NULL
  BY <1>1 DEF AloneAtEnds, ParentsAlive
<1>3. state[initproc] # "free" /\ state[idleproc] # "free"
  BY <1>1, PidFacts DEF LabelsAgree
<1>4. Alive = {idleproc, initproc}
  BY <1>2, <1>3, PidFacts DEF Alive
<1>5. /\ links.cptr[initproc] = NULL /\ links.yptr[initproc] = NULL
      /\ links.optr[initproc] = NULL
  <2>1. \A x \in Procs : links.parent[x] # initproc
    BY <1>1, <1>2, PidFacts DEF ParentsAlive
  <2>2. \A x \in Procs : x # initproc => links.parent[x] # idleproc
    BY <1>1, <1>2, PidFacts DEF ParentsAlive
  <2>3. links.cptr[initproc] = NULL
    BY <1>1, <2>1, PidFacts DEF Mirrored, Links
  <2>4. /\ links.yptr[initproc] # NULL => /\ links.yptr[initproc] = initproc
                                          /\ links.optr[initproc] = initproc
        /\ links.optr[initproc] # NULL => /\ links.optr[initproc] = initproc
    BY <1>1, <2>2, PidFacts DEF Mirrored, Links, ParentsAlive
  <2>5. PICK rank : Ranks(links, rank)
    BY DEF IInv, Chained
  <2>6. links.optr[initproc] # initproc
    BY <2>5, PidFacts DEF Ranks
  <2> QED
    BY <2>3, <2>4, <2>6
<1>6. proc_list = <<initproc>> /\ nr_process = 2
  <2>1. /\ proc_list \in Seq(Procs) /\ IsInjective(proc_list) /\ ToSet(proc_list) = {initproc}
        /\ nr_process = Len(proc_list) + 1
    BY <1>1, <1>4, PidFacts DEF TypeOK, ListMatchesProcesses
  <2>2. /\ DOMAIN proc_list = 1 .. Len(proc_list) /\ Len(proc_list) \in Nat
        /\ \A i \in 1 .. Len(proc_list) : proc_list[i] = initproc
    <3>1. DOMAIN proc_list = 1 .. Len(proc_list) /\ Len(proc_list) \in Nat
      BY <2>1, LenProperties
    <3>2. {proc_list[i] : i \in DOMAIN proc_list} = {initproc}
      BY <2>1 DEF ToSet
    <3> QED
      BY <3>1, <3>2
  <2>3. Len(proc_list) # 0
    BY <2>1, <2>2 DEF ToSet
  <2>4. ~(Len(proc_list) > 1)
    BY <2>1, <2>2 DEF IsInjective
  <2>5. Len(proc_list) = 1
    BY <2>2, <2>3, <2>4
  <2>6. proc_list = <<initproc>>
    BY <2>1, <2>2, <2>5
  <2> QED
    BY <2>1, <2>5, <2>6
<1> QED
  BY <1>4, <1>5, <1>6

LEMMA UserStepKeeps ==
    ASSUME IInv, Running, NEW p \in Procs, p = current, UserStep(p) \/ UserTick(p)
    PROVE  IInv' /\ TreeStep
<1>1. TypeOK /\ LabelsAgree /\ OnlyInitEndsIt /\ state[current] = "RUNNABLE"
      /\ current \in Procs /\ kstacks \in Nat /\ need_resched \in [Procs -> BOOLEAN]
  BY DEF IInv, LabelsAgree, TypeOK
<1>2. /\ pc[p] = "user" /\ p \in UserPids /\ p \in UserAndInit /\ p # initproc
      /\ waitPid[p] = NULL
  <2>1. pc[p] = "user"
    BY DEF UserStep, UserTick, SysFork, SysExit, SysWait, SysKill, SysYield, AskResched,
           SysOther, SysExecFails
  <2> QED
    BY <2>1, WhoIsWhere, PidFacts
<1>3. ASSUME procVars' = procVars, current' = current, pc' = [pc EXCEPT ![p] = "trap"],
             need_resched' \in [Procs -> BOOLEAN], kstacks' \in Nat, kstacks' >= kstacks,
             panic' \in {"none", "PADDR_invalid_kva"}
      PROVE  IInv' /\ TreeStep
  <2>1. "trap" \in PCs /\ "trap" \in Ready /\ pc[p] \in Ready /\ "trap" \notin InitLabels
    BY <1>2 DEF PCs, Ready, InitLabels
  <2>2. OnlyInitEndsIt'
    BY <1>3 DEF OnlyInitEndsIt
  <2> QED
    BY <1>1, <1>2, <1>3, <2>1, <2>2, QuietKeeps, QuietMaps
<1>4. CASE SysFork(p)
  <2>1. CASE \E c \in UserPids : ForkChild(p, c, "user", "trap")
    <3>1. "trap" \in Ready /\ pc[p] \in Ready /\ "trap" \notin InitLabels
      BY <1>2 DEF Ready, InitLabels
    <3> QED
      BY <1>2, <2>1, <3>1, ForkKeeps, ForkMaps
  <2>2. CASE ForkFails /\ Goto(p, "trap") /\ NoSwitch /\ UNCHANGED procVars
    <3>1. kstacks' \in Nat /\ kstacks' >= kstacks /\ panic' \in {"none", "PADDR_invalid_kva"}
      BY <1>1, <2>2 DEF ForkFails, Running
    <3>2. /\ procVars' = procVars /\ current' = current /\ need_resched' = need_resched
          /\ pc' = [pc EXCEPT ![p] = "trap"]
      BY <2>2 DEF Goto, NoSwitch
    <3> QED
      BY <1>1, <1>3, <3>1, <3>2
  <2> QED
    BY <1>4, <2>1, <2>2 DEF SysFork
<1>5. CASE SysExit(p) \/ SysExecFails(p)
  BY <1>2, <1>5, ExitKeeps, ExitMaps DEF SysExit, SysExecFails
<1>6. CASE SysWait(p)
  BY <1>2, <1>6, WaitKeeps DEF SysWait
<1>7. CASE SysKill(p)
  <2>1. PICK q \in UserAndInit : Killed(p, q)
    BY <1>7, KillEffect
  <2> QED
    BY <1>2, <2>1, KillKeeps, KillMaps
<1>8. CASE AskResched(p)
  <2>1. /\ procVars' = procVars /\ current' = current
        /\ pc' = [pc EXCEPT ![p] = "trap"]
        /\ kstacks' = kstacks /\ panic' = panic
        /\ need_resched' \in [Procs -> BOOLEAN]
    BY <1>1, <1>8 DEF AskResched, Goto
  <2> QED
    BY <1>1, <1>3, <2>1 DEF Running
<1>9. CASE SysOther(p)
  <2>1. /\ procVars' = procVars /\ current' = current /\ need_resched' = need_resched
        /\ pc' = [pc EXCEPT ![p] = "trap"]
        /\ kstacks' = kstacks /\ panic' = panic
    BY <1>9 DEF SysOther, Goto, NoSwitch
  <2> QED
    BY <1>1, <1>3, <2>1 DEF Running
<1> QED
  BY <1>4, <1>5, <1>6, <1>7, <1>8, <1>9 DEF UserStep, UserTick, SysYield

LEMMA KernelStepKeeps ==
    ASSUME IInv, Running, NEW p \in Procs, p = current, KernelStep(p) \/ KernelTick(p)
    PROVE  IInv' /\ TreeStep
<1>1. TypeOK /\ LabelsAgree /\ OnlyInitEndsIt /\ state[current] = "RUNNABLE"
      /\ current \in Procs /\ kstacks \in Nat /\ need_resched \in [Procs -> BOOLEAN]
      /\ pc \in [Procs -> PCs] /\ initproc \in UserAndInit
  BY PidFacts DEF IInv, LabelsAgree, TypeOK
<1>2. ASSUME procVars' = procVars, NEW l \in PCs, pc' = [pc EXCEPT ![p] = l],
             kstacks' = kstacks, panic' = panic,
             \/ Schedule
             \/ current' = current /\ need_resched' \in [Procs -> BOOLEAN],
             \/ l = pc[p]
             \/ pc[p] \in Ready /\ l \in Ready /\ (l \in InitLabels <=> p = initproc)
      PROVE  IInv' /\ TreeStep
  <2>1. OnlyInitEndsIt'
    BY <1>2 DEF OnlyInitEndsIt, Running
  <2>2. state' = state /\ proc_list' = proc_list
    BY <1>2 DEF procVars
  <2>3. /\ need_resched' \in [Procs -> BOOLEAN]
        /\ current' \in Procs /\ state[current'] = "RUNNABLE"
    BY <1>1, <1>2, <2>2, ScheduleRuns
  <2>4. kstacks' \in Nat /\ kstacks' >= kstacks
    BY <1>1, <1>2
  <2>5. panic' \in {"none", "initproc_exit", "assertion_failed", "PADDR_invalid_kva"}
    BY <1>2 DEF Running
  <2> QED
    BY <1>2, <2>1, <2>3, <2>4, <2>5, QuietKeeps, QuietMaps
<1>3. ASSUME procVars' = procVars, pc' = pc, kstacks' = kstacks, NoSwitch,
             panic' \in {"none", "initproc_exit", "assertion_failed", "PADDR_invalid_kva"},
             OnlyInitEndsIt'
      PROVE  IInv' /\ TreeStep
  <2>1. PICK l \in PCs : l = pc[p]
    BY <1>1
  <2>2. pc' = [pc EXCEPT ![p] = l]
    BY <1>1, <1>3, <2>1
  <2>3. current' = current /\ need_resched' = need_resched
    BY <1>3 DEF NoSwitch
  <2>4. /\ need_resched' \in [Procs -> BOOLEAN] /\ current' \in Procs
        /\ state[current'] = "RUNNABLE" /\ kstacks' \in Nat /\ kstacks' >= kstacks
    BY <1>1, <1>3, <2>3
  <2> QED
    BY <1>3, <2>1, <2>2, <2>4, QuietKeeps, QuietMaps
<1>4. CASE TrapEnd(p)
  <2>1. pc[p] = "trap" /\ p \in UserPids /\ p # initproc /\ waitPid[p] = NULL
    BY <1>4, WhoIsWhere, PidFacts DEF TrapEnd
  <2>2. CASE DoExit(p)
    BY <2>1, <2>2, ExitKeeps, ExitMaps
  <2>3. CASE ~DoExit(p)
    <3>1. /\ procVars' = procVars /\ pc' = [pc EXCEPT ![p] = "user"]
          /\ kstacks' = kstacks /\ panic' = panic /\ (Schedule \/ NoSwitch)
      BY <1>4, <2>3 DEF TrapEnd, Goto
    <3>2. "user" \in PCs /\ "user" \in Ready /\ pc[p] \in Ready /\ "user" \notin InitLabels
      BY <2>1 DEF PCs, Ready, InitLabels
    <3> QED
      BY <1>1, <1>2, <2>1, <3>1, <3>2 DEF NoSwitch
  <2> QED
    BY <2>2, <2>3
<1>5. CASE WaitResumes(p)
  <2>1. pc[p] = "wait" /\ p \in UserAndInit /\ waitPid[p] \in Procs
    BY <1>5, WhoIsWhere DEF WaitResumes
  <2>2. CASE exiting[p] /\ DoExit(p)
    <3>1. CASE p = initproc
      <4>1. /\ panic' = "initproc_exit" /\ NoSwitch
            /\ procVars' = procVars /\ pc' = pc /\ kstacks' = kstacks
        BY <2>2, <3>1 DEF DoExit
      <4>2. exiting' = exiting
        BY <4>1 DEF procVars
      <4>3. OnlyInitEndsIt'
        BY <2>2, <3>1, <4>1, <4>2 DEF OnlyInitEndsIt
      <4> QED
        BY <1>3, <4>1, <4>3
    <3>2. CASE p # initproc
      <4>1. p \in UserPids
        BY <2>1, <3>2, PidFacts
      <4> QED
        BY <2>2, <4>1, ExitKeeps, ExitMaps
    <3> QED
      BY <3>1, <3>2
  <2>3. CASE ~exiting[p] /\ DoWait(p, waitPid[p])
    <3>1. p = initproc => waitPid[p] = AnyChild
      BY <2>1, WhoIsWhere, PidFacts
    <3> QED
      BY <2>1, <2>3, <3>1, WaitKeeps
  <2> QED
    BY <1>5, <2>2, <2>3 DEF WaitResumes
<1>6. CASE IdleLoop(p)
  <2>1. /\ procVars' = procVars /\ pc' = pc /\ kstacks' = kstacks /\ panic' = panic /\ Schedule
    BY <1>6 DEF IdleLoop
  <2>2. pc' = [pc EXCEPT ![p] = pc[p]] /\ pc[p] \in PCs
    BY <1>1, <2>1
  <2> QED
    BY <1>2, <2>1, <2>2
<1>7. CASE KernelTick(p)
  <2>1. /\ procVars' = procVars /\ pc' = pc /\ kstacks' = kstacks /\ panic' = panic
        /\ current' = current /\ need_resched' = [need_resched EXCEPT ![p] = TRUE]
    BY <1>7 DEF KernelTick
  <2>2. pc' = [pc EXCEPT ![p] = pc[p]] /\ pc[p] \in PCs
    BY <1>1, <2>1
  <2>3. need_resched' \in [Procs -> BOOLEAN]
    BY <1>1, <2>1
  <2> QED
    BY <1>2, <2>1, <2>2, <2>3
<1>8. CASE InitMain(p)
  <2>1. pc[p] = "init_main" /\ p = initproc
    BY <1>8, WhoIsWhere DEF InitMain, InitLabels
  <2>2. PICK c \in UserPids : ForkChild(p, c, "user_main", "loop")
    BY <1>8 DEF InitMain
  <2>3. "loop" \in Ready /\ pc[p] \in Ready \cup {"init_main"} /\ "loop" \in InitLabels
    BY <2>1 DEF Ready, InitLabels
  <2>4. IInv' /\ links'.parent = [links.parent EXCEPT ![c] = p]
    BY <1>1, <2>1, <2>2, <2>3, ForkKeeps
  <2> QED
    BY <1>1, <2>1, <2>2, <2>4, ForkMaps
<1>9. CASE InitWaits(p)
  <2>1. p = initproc /\ waitPid[p] = NULL
    BY <1>9, WhoIsWhere DEF InitWaits, InitLabels
  <2> QED
    BY <1>1, <1>9, <2>1, WaitKeeps, PidFacts DEF InitWaits
<1>10. CASE InitYields(p)
  <2>1. /\ procVars' = procVars /\ pc' = [pc EXCEPT ![p] = "loop"] /\ kstacks' = kstacks
        /\ panic' = panic /\ Schedule /\ pc[p] = "reaped"
    BY <1>10 DEF InitYields, Goto
  <2>2. p = initproc
    BY <2>1, WhoIsWhere DEF InitLabels
  <2>3. "loop" \in PCs /\ "loop" \in Ready /\ pc[p] \in Ready /\ "loop" \in InitLabels
    BY <2>1 DEF PCs, Ready, InitLabels
  <2> QED
    BY <1>2, <2>1, <2>2, <2>3
<1>11. CASE InitChecks(p)
  <2>1. pc[p] = "checks" /\ p = initproc
    BY <1>11, WhoIsWhere DEF InitChecks, InitLabels
  <2>2. /\ procVars' = procVars /\ pc' = pc /\ kstacks' = kstacks /\ NoSwitch
        /\ panic' = "initproc_exit"
    BY <1>11, <2>1, ChecksHold DEF InitChecks
  <2>3. Alive' = {idleproc, initproc}
    BY <2>1, <2>2, ChecksHold DEF Alive, procVars
  <2>4. OnlyInitEndsIt'
    BY <2>2, <2>3 DEF OnlyInitEndsIt
  <2> QED
    BY <1>3, <2>2, <2>4
<1>12. CASE UserMain(p)
  <2>1. pc[p] = "user_main" /\ p \in UserPids /\ p # initproc /\ waitPid[p] = NULL
    BY <1>12, WhoIsWhere, PidFacts DEF UserMain
  <2>2. CASE DoExit(p)
    BY <2>1, <2>2, ExitKeeps, ExitMaps
  <2>3. CASE ~DoExit(p)
    <3>1. /\ procVars' = procVars /\ pc' = [pc EXCEPT ![p] = "user"]
          /\ kstacks' = kstacks /\ panic' = panic /\ NoSwitch
      BY <1>12, <2>3 DEF UserMain, Goto
    <3>2. "user" \in PCs /\ "user" \in Ready /\ pc[p] \in Ready /\ "user" \notin InitLabels
      BY <2>1 DEF PCs, Ready, InitLabels
    <3> QED
      BY <1>1, <1>2, <2>1, <3>1, <3>2 DEF NoSwitch
  <2> QED
    BY <2>2, <2>3
<1> QED
  BY <1>4, <1>5, <1>6, <1>7, <1>8, <1>9, <1>10, <1>11, <1>12 DEF KernelStep

LEMMA NextKeeps ==
    ASSUME IInv, [Next]_vars
    PROVE  IInv' /\ TreeStep
<1>1. CASE Running /\ \E p \in {current} :
              KernelStep(p) \/ UserStep(p) \/ UserTick(p) \/ KernelTick(p)
  <2>1. current \in Procs
    BY DEF IInv, TypeOK
  <2> QED
    BY <1>1, <2>1, UserStepKeeps, KernelStepKeeps
<1>2. CASE UNCHANGED vars
  <2>1. /\ procVars' = procVars /\ current' = current /\ need_resched' = need_resched
        /\ pc' = pc /\ kstacks' = kstacks /\ panic' = panic
    BY <1>2 DEF vars
  <2>2. OnlyInitEndsIt'
    BY <2>1 DEF procVars, OnlyInitEndsIt, Alive, IInv
  <2>3. /\ current \in Procs /\ pc[current] \in PCs /\ pc' = [pc EXCEPT ![current] = pc[current]]
        /\ state[current] = "RUNNABLE"
    BY <2>1 DEF IInv, TypeOK, LabelsAgree
  <2>4. /\ need_resched' \in [Procs -> BOOLEAN] /\ kstacks' \in Nat /\ kstacks' >= kstacks
        /\ panic' \in {"none", "initproc_exit", "assertion_failed", "PADDR_invalid_kva"}
    BY <2>1 DEF IInv, TypeOK
  <2> QED
    BY <2>1, <2>2, <2>3, <2>4, QuietKeeps, QuietMaps
<1> QED
  BY <1>1, <1>2 DEF Next, Stopped

\* What proc_init leaves.
LEMMA InitHolds == Init => IInv /\ Tree!Init
<1> SUFFICES ASSUME Init PROVE IInv /\ Tree!Init
  OBVIOUS
<1>1. /\ state = [q \in Procs |-> IF q \in UserPids THEN "free" ELSE "RUNNABLE"]
      /\ wait_state = [q \in Procs |-> "none"]
      /\ exiting = [q \in Procs |-> FALSE]
      /\ waitPid = [q \in Procs |-> NULL]
      /\ proc_list = <<initproc>> /\ nr_process = 2
      /\ current = idleproc /\ kstacks = 1 /\ panic = "none"
      /\ need_resched = [q \in Procs |-> IF q = idleproc THEN TRUE ELSE FALSE]
      /\ pc = [q \in Procs |-> CASE q = idleproc -> "idle"
                               [] q = initproc -> "init_main"
                               [] OTHER -> "free"]
  BY DEF Init
<1>2. /\ links = [parent |-> [q \in Procs |-> IF q = initproc THEN idleproc ELSE NULL],
                  cptr   |-> [q \in Procs |-> IF q = idleproc THEN initproc ELSE NULL],
                  yptr   |-> [q \in Procs |-> NULL],
                  optr   |-> [q \in Procs |-> NULL]]
  BY DEF Init
<1>3. TypeOK
  <2>1. links \in Links
    BY <1>2, PidFacts DEF Links
  <2>2. pc \in [Procs -> PCs]
    BY <1>1 DEF PCs
  <2>3. need_resched \in [Procs -> BOOLEAN]
    BY <1>1, Zenon
  <2>4. exiting \in [Procs -> BOOLEAN]
    BY <1>1
  <2>5. proc_list \in Seq(Procs)
    BY <1>1, PidFacts
  <2> QED
    BY <1>1, <2>1, <2>2, <2>3, <2>4, <2>5, PidFacts DEF TypeOK
<1>4. Alive = {idleproc, initproc}
  BY <1>1, PidFacts DEF Alive
<1>5. ListMatchesProcesses
  <2>1. Len(proc_list) = 1 /\ proc_list[1] = initproc /\ DOMAIN proc_list = {1}
    BY <1>1
  <2>2. IsInjective(proc_list) /\ ToSet(proc_list) = {initproc}
    BY <2>1 DEF IsInjective, ToSet
  <2> QED
    BY <1>1, <1>4, <2>1, <2>2, PidFacts DEF ListMatchesProcesses
<1>6. Chained(links)
  <2>1. Mirrored(links)
    BY <1>2, PidFacts DEF Mirrored
  <2>2. Ranks(links, [q \in Procs |-> 0])
    BY <1>2 DEF Ranks
  <2> QED
    BY <1>3, <2>1, <2>2 DEF Chained, TypeOK
<1>7. Rooted(links)
  <2>1. Depths(links, [q \in Procs |-> IF q = idleproc THEN 0
                                       ELSE IF q = initproc THEN 1 ELSE 2])
    BY <1>2, PidFacts DEF Depths
  <2> QED
    BY <2>1 DEF Rooted
<1>8. LabelsAgree
  BY <1>1, PidFacts DEF LabelsAgree, InitLabels
<1>9. AloneAtEnds /\ ParentsAlive /\ NoLostWakeup
  BY <1>1, <1>2, PidFacts DEF AloneAtEnds, ParentsAlive, NoLostWakeup
<1>10. WakeupOnlySleepers /\ EnoughStacks /\ OnlyInitEndsIt
  BY <1>1 DEF WakeupOnlySleepers, EnoughStacks, OnlyInitEndsIt
<1>11. Tree!Init
  BY <1>1, <1>2, PidFacts, TreeProcs DEF Tree!Init
<1> QED
  BY <1>3, <1>5, <1>6, <1>7, <1>8, <1>9, <1>10, <1>11 DEF IInv

-----------------------------------------------------------------------------

(***************************************************************************)
(* What the invariant says.                                                *)
(***************************************************************************)

LEMMA ChainsWellFormed == IInv => LinksWellFormed
<1> SUFFICES ASSUME IInv, NEW p \in Alive
             PROVE  LET kids == Children(links, p) IN
                    /\ IsInjective(kids)
                    /\ ToSet(kids) = {c \in Alive : links.parent[c] = p}
                    /\ \A k \in DOMAIN kids :
                          links.yptr[kids[k]] = IF k = 1 THEN NULL ELSE kids[k - 1]
  BY DEF LinksWellFormed, WellFormed
<1> DEFINE kids == Children(links, p)
<1>1. p \in Procs /\ p # NULL
  BY PidFacts DEF Alive
<1>2. /\ kids \in Seq(Procs) /\ IsInjective(kids)
      /\ ToSet(kids) = {c \in Procs : links.parent[c] = p}
      /\ \A k \in 1 .. Len(kids) :
            links.yptr[kids[k]] = IF k = 1 THEN NULL ELSE kids[k - 1]
  BY <1>1, KidsInOrder DEF IInv
<1>3. \A c \in Procs : links.parent[c] = p => c \in Alive
  BY <1>1, PidFacts DEF IInv, ParentsAlive, LabelsAgree, Alive, InitLabels
<1>4. {c \in Procs : links.parent[c] = p} = {c \in Alive : links.parent[c] = p}
  BY <1>3 DEF Alive
<1> HIDE DEF kids
<1> QED
  BY <1>2, <1>4 DEF kids

\* The life cycle as ProcTree sees it: a sleeper has a child to wait for and none that is
\* a zombie, and every process has a parent that is not one.
LEMMA TreeInvariant == IInv => Tree!IInv
<1> SUFFICES ASSUME IInv PROVE Tree!IInv
  OBVIOUS
<1> DEFINE st == [q \in UserAndInit |-> state[q]]
           par == [q \in UserAndInit |-> IF q = initproc THEN NULL ELSE links.parent[q]]
           wait == [q \in UserAndInit |-> waitPid[q]]
           ex == [q \in UserAndInit |-> exiting[q]]
<1>1. /\ TypeOK /\ LabelsAgree /\ ParentsAlive /\ NoLostWakeup
      /\ \A q \in UserAndInit : q \in Procs /\ (q = initproc \/ q \in UserPids)
      /\ \A q \in UserPids : q \in UserAndInit /\ q # initproc
      /\ initproc \in UserAndInit
  BY PidFacts DEF IInv
<1>2. \A q \in UserAndInit : waitPid[q] # NULL => state[q] \in {"RUNNABLE", "SLEEPING"}
  BY <1>1 DEF TypeOK, LabelsAgree
<1>3. \A q \in UserAndInit : state[q] = "SLEEPING" => waitPid[q] # NULL
  BY <1>1 DEF LabelsAgree
<1>4. Tree!TypeOK
  <2>1. st \in [UserAndInit -> {"free", "RUNNABLE", "SLEEPING", "ZOMBIE"}]
    BY <1>1 DEF TypeOK
  <2>2. par \in [UserAndInit -> UserAndInit \cup {NULL}]
    BY <1>1 DEF ParentsAlive
  <2>3. wait \in [UserAndInit -> Procs \cup {NULL}] /\ ex \in [UserAndInit -> BOOLEAN]
    BY <1>1 DEF TypeOK
  <2> QED
    BY <2>1, <2>2, <2>3, TreeProcs DEF Tree!TypeOK
<1>5. Tree!ParentAlive
  <2>1. state[initproc] \in {"RUNNABLE", "SLEEPING"}
    BY <1>1 DEF TypeOK, LabelsAgree, InitLabels
  <2> QED
    BY <1>1, <2>1, TreeProcs DEF Tree!ParentAlive, ParentsAlive
<1>6. Tree!NoLostWakeup
  <2>1. \A p \in UserAndInit : Tree!Matches(p, waitPid[p]) = Awaited(p)
    BY TreeMatches DEF Awaited
  <2>2. \A p \in UserAndInit : Awaited(p) \subseteq UserAndInit
    BY <1>1 DEF Awaited
  <2> QED
    BY <1>1, <1>3, <2>1, <2>2, TreeProcs DEF Tree!NoLostWakeup, NoLostWakeup
<1>7. Tree!WaitersAlive
  BY <1>2, TreeProcs DEF Tree!WaitersAlive
<1> QED
  BY <1>4, <1>5, <1>6, <1>7 DEF Tree!IInv

\* A sleeper as deep as any waits for a child, which is deeper and so awake.
LEMMA SomebodyIsAwake == IInv => SomebodyRuns
<1> SUFFICES ASSUME IInv, \A q \in UserAndInit : state[q] # "RUNNABLE"
             PROVE  FALSE
  BY PidFacts DEF SomebodyRuns
<1> DEFINE asleep == {q \in UserAndInit : state[q] = "SLEEPING"}
<1>1. PICK depth : Depths(links, depth)
  BY DEF IInv, Rooted
<1>2. /\ TypeOK /\ LabelsAgree /\ ParentsAlive /\ NoLostWakeup
  BY DEF IInv
<1>3. initproc \in asleep
  <2>1. pc[initproc] \notin {"free", "zombie"}
    BY <1>2 DEF LabelsAgree, InitLabels
  <2>2. state[initproc] \in {"RUNNABLE", "SLEEPING"}
    BY <1>2, <2>1, PidFacts DEF LabelsAgree, TypeOK
  <2> QED
    BY <2>2, PidFacts
<1> DEFINE below(q) == {x \in Procs : depth[x] > depth[q]}
           sizes == {Cardinality(below(q)) : q \in asleep}
<1>4. \A q \in Procs : IsFiniteSet(below(q)) /\ Cardinality(below(q)) \in Nat
  <2>1. \A q \in Procs : below(q) \subseteq Procs
    OBVIOUS
  <2> HIDE DEF below
  <2> QED
    BY <2>1, ProcsFinite, FS_Subset, FS_CardinalityType
<1>5. asleep \subseteq Procs
  BY PidFacts
<1>6. PICK s \in asleep : \A q \in asleep : Cardinality(below(s)) <= Cardinality(below(q))
  <2> HIDE DEF below, asleep
  <2>1. sizes \subseteq Nat /\ sizes # {}
    BY <1>3, <1>4, <1>5
  <2>2. Min(sizes) \in sizes /\ \A n \in sizes : Min(sizes) <= n
    BY <2>1, LeastOfNat
  <2> QED
    BY <2>2
<1>7. PICK c \in UserPids : links.parent[c] = s /\ state[c] # "ZOMBIE"
  BY <1>2, <1>6 DEF NoLostWakeup, Awaited
<1>8. c \in asleep /\ depth[s] < depth[c] /\ c \in Procs /\ s \in Procs
  <2>1. s # NULL /\ s \in Procs /\ c \in Procs /\ c \in UserAndInit
    BY <1>6, PidFacts
  <2>2. state[c] # "free" /\ state[c] # "RUNNABLE"
    BY <1>2, <1>7, <2>1 DEF ParentsAlive
  <2>3. state[c] = "SLEEPING"
    BY <1>2, <1>7, <2>1, <2>2 DEF TypeOK
  <2>4. depth[s] < depth[c]
    BY <1>1, <1>7, <2>1 DEF Depths
  <2> QED
    BY <2>1, <2>3, <2>4
<1>9. below(c) \subseteq below(s) /\ c \in below(s) /\ c \notin below(c)
  BY <1>1, <1>8 DEF Depths
<1> HIDE DEF below
<1>10. Cardinality(below(c)) < Cardinality(below(s))
  BY <1>4, <1>8, <1>9, FS_Subset
<1> QED
  BY <1>4, <1>6, <1>8, <1>10

-----------------------------------------------------------------------------

(***************************************************************************)
(* The theorems.                                                           *)
(***************************************************************************)

\* The inductive invariant holds in every reachable state: the pointers, the
\* list, the labels and the wake-ups of proc.c and sched.c agree.
THEOREM Invariant == Spec => []IInv
<1>1. Init => IInv
  BY InitHolds
<1>2. IInv /\ [Next]_vars => IInv'
  BY NextKeeps
<1> QED
  BY <1>1, <1>2, PTL DEF Spec

\* Through any number of forks, exits that hand whole chains to init and
\* reaps from the middle of a chain, the cptr, optr and yptr of all processes
\* are one doubly linked list per parent, without cycles (proc.c:139-165,
\* 506-521).
THEOREM LinksStayWellFormed == Spec => []LinksWellFormed
BY Invariant, ChainsWellFormed, PTL

\* proc_list holds every process but idle once, nr_process counts them, and
\* wakeup_proc is called on sleeping processes only, so neither its assertion
\* nor its warning fires (sched.c:9, 18).
THEOREM StructuresStayInStep == Spec => []StructuresAgree
<1>1. IInv => StructuresAgree
  BY DEF IInv, StructuresAgree
<1> QED
  BY <1>1, Invariant, PTL

\* No wakeup is lost in do_wait and do_exit to the point that everybody
\* sleeps: a process other than idle can always run (proc.c:494-531, 747-803).
THEOREM SomebodyAlwaysRuns == Spec => []SomebodyRuns
BY Invariant, SomebodyIsAwake, PTL

\* The assertions at the end of init_main never fail, and init ends last
\* unless it is killed (proc.c:875-879).
THEOREM InitEndsLast == Spec => []OnlyInitEndsIt
<1>1. IInv => OnlyInitEndsIt
  BY DEF IInv
<1> QED
  BY <1>1, Invariant, PTL

\* do_fork, do_exit, do_wait and do_kill, with their pointers, list and
\* scheduler, give processes the life cycle of ProcTree: a child is reaped by
\* its parent or by init, once, and a sleeper is woken by what it waits for.
THEOREM ImplementsTree == Spec => ImplementsProcTree
<1>1. Init => IInv /\ Tree!Init
  BY InitHolds
<1>2. IInv /\ [Next]_vars => IInv' /\ [Tree!Next]_(Tree!vars)
  BY NextKeeps DEF TreeStep
<1> QED
  BY <1>1, <1>2, PTL DEF Spec, ImplementsProcTree, Tree!Spec

\* The life cycle of proc.c, for every finite set of pids: no wakeup of do_wait is lost
\* and nobody is without a parent to reap it.
THEOREM LifeCycleInvariant == Spec => []Tree!IInv
BY Invariant, TreeInvariant, PTL

\* No process sleeps in do_wait while a child it waits for is a zombie, and none sleeps
\* with no child left to wake it (proc.c:502-521, 766-772).
THEOREM WaitNeverMissesExit == Spec => []Tree!NoLostWakeup
<1>1. Tree!IInv => Tree!NoLostWakeup
  BY DEF Tree!IInv
<1> QED
  BY <1>1, LifeCycleInvariant, PTL

\* Every process, zombies included, has a parent that is not a zombie to reap it: do_exit
\* hands the children to init before its process stops (proc.c:506-521).
THEOREM EveryProcessHasReaper == Spec => []Tree!ParentAlive
<1>1. Tree!IInv => Tree!ParentAlive
  BY DEF Tree!IInv
<1> QED
  BY <1>1, LifeCycleInvariant, PTL
=============================================================================
