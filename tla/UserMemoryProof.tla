--------------------------- MODULE UserMemoryProof ---------------------------
(***************************************************************************)
(* Proofs about UserMemory: for any finite sets of processes, pages and    *)
(* frames, reference counts are exact, shared frames are read-only, and    *)
(* every process has a private memory.                                     *)
(***************************************************************************)
EXTENDS UserMemory, FiniteSetTheorems, TLAPS

Types ==
    /\ alive \subseteq Proc
    /\ pte \in [Entry -> Frame \cup {Untouched}]
    /\ writable \subseteq {e \in Entry : pte[e] \in Frame}
    /\ ref \in [Frame -> Nat]
    /\ lost \in [Frame -> Nat]
    /\ free \subseteq Frame
    /\ content \in [Frame -> Value]

\* What exit leaves behind, and fork finds.
DeadMapNothing == \A e \in Entry : e[1] \notin alive => pte[e] = Untouched

\* A frame is given out when its count is 0: with RefsExact nobody maps it, so that no
\* frame with a writable entry gets a second one.
IInv == Types /\ DeadMapNothing /\ RefsExact /\ SharedReadOnly

-----------------------------------------------------------------------------

(***************************************************************************)
(* Counting entries.                                                       *)
(***************************************************************************)

\* Sets of entries are finite.
LEMMA EntriesFinite ==
    ASSUME NEW S \in SUBSET Entry
    PROVE  IsFiniteSet(S) /\ Cardinality(S) \in Nat
<1>1. IsFiniteSet(Entry)
  BY UserMemoryAssumption, FS_Product DEF Entry
<1>2. IsFiniteSet(S)
  BY <1>1, FS_Subset
<1> QED
  BY <1>2, FS_CardinalityType

\* An entry is a pair.
LEMMA EntryIsPair ==
    ASSUME NEW e \in Entry
    PROVE  e[1] \in Proc /\ e[2] \in Vpn /\ e = <<e[1], e[2]>>
BY DEF Entry

\* Mappings counts some entries.
LEMMA MappingsType ==
    ASSUME NEW f
    PROVE  /\ Mappings(f) \in SUBSET Entry
           /\ IsFiniteSet(Mappings(f)) /\ Cardinality(Mappings(f)) \in Nat
<1>1. Mappings(f) \in SUBSET Entry
  BY DEF Mappings
<1> QED
  BY <1>1, EntriesFinite

\* A frame that is free is mapped by nobody, and has lost no reference.
LEMMA FreeIsUnmapped ==
    ASSUME IInv, NEW f \in free
    PROVE  f \in Frame /\ Mappings(f) = {} /\ lost[f] = 0
<1>1. f \in Frame /\ lost[f] \in Nat /\ Cardinality(Mappings(f)) + lost[f] = 0
  BY DEF IInv, Types, RefsExact
<1>2. Cardinality(Mappings(f)) = 0 /\ lost[f] = 0
  BY <1>1, MappingsType
<1> QED
  BY <1>1, <1>2, MappingsType, FS_EmptySet

\* The counts and the free frames after exit_mmap are those of the entries of the others.
LEMMA AfterExit ==
    ASSUME IInv, NEW p \in Proc
    PROVE  /\ RefsAfterExit(p) \in [Frame -> Nat]
           /\ FreeAfterExit(p) \subseteq Frame
           /\ \A f \in Frame :
                /\ RefsAfterExit(p)[f] = Cardinality(Mappings(f) \ EntriesOf(p)) + lost[f]
                /\ f \in FreeAfterExit(p) <=> RefsAfterExit(p)[f] = 0
<1>1. ASSUME NEW f \in Frame
      PROVE  /\ RefsAfterExit(p)[f] = Cardinality(Mappings(f) \ EntriesOf(p)) + lost[f]
             /\ RefsAfterExit(p)[f] \in Nat
             /\ f \in FreeAfterExit(p) <=> RefsAfterExit(p)[f] = 0
  <2> DEFINE M == Mappings(f)
             left == Cardinality(M \ EntriesOf(p))
  <2>1. /\ RefsAfterExit(p)[f] = ref[f] - Uses(p, f)
        /\ ref[f] = Cardinality(M) + lost[f] /\ lost[f] \in Nat
        /\ f \in free <=> ref[f] = 0
    BY DEF RefsAfterExit, IInv, Types, RefsExact
  <2>2. left = Cardinality(M) - Uses(p, f)
    BY MappingsType, FS_Difference DEF Uses
  <2>3. Cardinality(M) \in Nat /\ left \in Nat /\ Uses(p, f) \in Nat
    BY MappingsType, EntriesFinite DEF Uses
  <2>4. RefsAfterExit(p)[f] = left + lost[f] /\ RefsAfterExit(p)[f] \in Nat
    BY <2>1, <2>2, <2>3
  <2>5. f \in FreeAfterExit(p) <=> f \in free \/ (Uses(p, f) > 0 /\ RefsAfterExit(p)[f] = 0)
    BY DEF FreeAfterExit
  <2> QED
    BY <2>1, <2>2, <2>3, <2>4, <2>5
<1> QED
  BY <1>1 DEF RefsAfterExit, FreeAfterExit, IInv, Types

-----------------------------------------------------------------------------

(***************************************************************************)
(* What the steps do to the entries that map a frame.                      *)
(***************************************************************************)

\* A page is mapped to a free frame.
LEMMA MapFree ==
    ASSUME IInv, NEW e \in Entry, NEW f \in free, pte' = [pte EXCEPT ![e] = f]
    PROVE  /\ pte' \in [Entry -> Frame \cup {Untouched}]
           /\ Mappings(f)' = {e}
           /\ \A g \in Frame \ {f} : Mappings(g)' = Mappings(g) \ {e}
<1>1. f \in Frame /\ Mappings(f) = {}
  BY FreeIsUnmapped
<1>2. pte \in [Entry -> Frame \cup {Untouched}]
  BY DEF IInv, Types
<1> QED
  BY <1>1, <1>2 DEF Mappings

\* The pages in D of process p are mapped to frames that are free once the old entries of
\* p are gone: load_icode, and copy_mm into a new process.
LEMMA MapNew ==
    ASSUME IInv, NEW p \in Proc, NEW refs \in [Frame -> Nat], NEW frames \in SUBSET Frame,
           \A f \in Frame :
                /\ refs[f] = Cardinality(Mappings(f) \ EntriesOf(p)) + lost[f]
                /\ f \in frames <=> refs[f] = 0,
           NEW D \in SUBSET Vpn, NEW a \in Allocations(D, frames),
           pte' = WithTable(p, a), ref' = Referenced(refs, Range(a)),
           free' = frames \ Range(a), lost' = lost
    PROVE  /\ pte' \in [Entry -> Frame \cup {Untouched}]
           /\ ref' \in [Frame -> Nat] /\ free' \subseteq Frame
           /\ Range(a) \subseteq frames
           /\ \A f \in frames : Mappings(f) \subseteq EntriesOf(p)
           /\ \A f \in Frame \ Range(a) : Mappings(f)' = Mappings(f) \ EntriesOf(p)
           /\ \A f \in Range(a) : \E e \in EntriesOf(p) : Mappings(f)' = {e}
           /\ RefsExact'
<1>1. /\ a \in [D -> frames] /\ DOMAIN a = D
      /\ \A u, v \in D : a[u] = a[v] => u = v
      /\ Range(a) = {a[v] : v \in D}
  BY DEF Allocations, Injection, IsInjective, Range
<1>2. Range(a) \subseteq frames
  BY <1>1
<1>3. pte \in [Entry -> Frame \cup {Untouched}] /\ Untouched \notin Frame /\ lost \in [Frame -> Nat]
  BY UserMemoryAssumption DEF IInv, Types
<1>4. pte' = [e \in Entry |-> IF e \notin EntriesOf(p) THEN pte[e]
                              ELSE IF e[2] \in D THEN a[e[2]] ELSE Untouched]
  BY <1>1 DEF WithTable
<1>5. pte' \in [Entry -> Frame \cup {Untouched}]
  BY <1>1, <1>3, <1>4
<1>6. ref' \in [Frame -> Nat] /\ free' \subseteq Frame
  BY DEF Referenced
<1>7. ASSUME NEW f \in frames
      PROVE  Mappings(f) \subseteq EntriesOf(p) /\ lost[f] = 0 /\ refs[f] = 0
  <2> DEFINE S == Mappings(f) \ EntriesOf(p)
  <2>1. refs[f] = 0 /\ refs[f] = Cardinality(S) + lost[f] /\ lost[f] \in Nat
    BY <1>3
  <2>2. IsFiniteSet(S) /\ Cardinality(S) \in Nat
    BY MappingsType, EntriesFinite
  <2>3. Cardinality(S) = 0 /\ lost[f] = 0
    BY <2>1, <2>2
  <2>4. S = {}
    BY <2>2, <2>3, FS_EmptySet
  <2> QED
    BY <2>1, <2>3, <2>4
<1>8. ASSUME NEW f \in Frame \ Range(a)
      PROVE  Mappings(f)' = Mappings(f) \ EntriesOf(p)
  <2>1. \A e \in EntriesOf(p) : e \in Entry => pte'[e] # f
    BY <1>1, <1>3, <1>4
  <2>2. \A e \in Entry \ EntriesOf(p) : pte'[e] = pte[e]
    BY <1>4
  <2> QED
    BY <2>1, <2>2 DEF Mappings, Entry
<1>9. ASSUME NEW f \in Range(a)
      PROVE  \E e \in EntriesOf(p) : Mappings(f)' = {e}
  <2>1. PICK v \in D : a[v] = f
    BY <1>1
  <2>2. <<p, v>> \in Entry /\ <<p, v>> \in EntriesOf(p) /\ <<p, v>>[2] = v
    BY DEF Entry, EntriesOf
  <2>3. pte'[<<p, v>>] = f
    BY <1>4, <2>1, <2>2
  <2>4. ASSUME NEW e \in Entry, pte'[e] = f
        PROVE  e = <<p, v>>
    <3>1. f \in frames /\ f # Untouched /\ f \in Frame
      BY <1>2, <1>3
    <3>2. e \in EntriesOf(p)
      BY <1>4, <1>7, <2>4, <3>1 DEF Mappings
    <3>3. e[2] \in D /\ a[e[2]] = a[v]
      BY <1>4, <2>1, <2>4, <3>1, <3>2
    <3>4. e[2] = v
      BY <1>1, <3>3
    <3> QED
      BY <3>2, <3>4 DEF EntriesOf
  <2> QED
    BY <2>2, <2>3, <2>4 DEF Mappings
<1>10. RefsExact'
  <2> SUFFICES ASSUME NEW f \in Frame
               PROVE  /\ ref'[f] = Cardinality(Mappings(f)') + lost[f]
                      /\ f \in free' <=> ref'[f] = 0
    BY DEF RefsExact
  <2>1. CASE f \in Range(a)
    <3>1. Cardinality(Mappings(f)') = 1
      BY <1>9, <2>1, FS_Singleton
    <3>2. ref'[f] = 1 /\ lost[f] = 0
      BY <1>2, <1>7, <2>1 DEF Referenced
    <3> QED
      BY <2>1, <3>1, <3>2
  <2>2. CASE f \notin Range(a)
    <3>1. ref'[f] = refs[f]
      BY <2>2 DEF Referenced
    <3> QED
      BY <1>8, <2>2, <3>1
  <2> QED
    BY <2>1, <2>2
<1> QED
  BY <1>2, <1>5, <1>6, <1>7, <1>8, <1>9, <1>10

-----------------------------------------------------------------------------

(***************************************************************************)
(* The steps.                                                              *)
(***************************************************************************)

\* The first process has its pages in frames of its own.
LEMMA InitIInv == Init => IInv
<1> SUFFICES ASSUME Init PROVE IInv
  OBVIOUS
<1>1. PICK p \in Proc, a \in Allocations(Loaded, Frame) :
        /\ alive = {p}
        /\ pte = [e \in Entry |-> IF e[1] = p /\ e[2] \in Loaded THEN a[e[2]] ELSE Untouched]
        /\ writable = {p} \X Data
        /\ ref = [f \in Frame |-> IF f \in Range(a) THEN 1 ELSE 0]
        /\ free = Frame \ Range(a)
        /\ content \in [Frame -> Value]
        /\ lost = [f \in Frame |-> 0]
  BY DEF Init
<1>2. /\ a \in [Loaded -> Frame] /\ Range(a) = {a[v] : v \in Loaded}
      /\ \A u, v \in Loaded : a[u] = a[v] => u = v
  BY DEF Allocations, Injection, IsInjective, Range
<1>3. Untouched \notin Frame /\ Loaded \subseteq Vpn /\ Data \subseteq Loaded
  BY UserMemoryAssumption DEF Vpn, Loaded
<1>4. Types
  BY <1>1, <1>2, <1>3 DEF Types, Entry
<1>5. DeadMapNothing
  BY <1>1 DEF DeadMapNothing
<1>6. ASSUME NEW f \in Frame \ Range(a)
      PROVE  Mappings(f) = {}
  BY <1>1, <1>2, <1>3 DEF Mappings
<1>7. ASSUME NEW f \in Range(a)
      PROVE  \E e : Mappings(f) = {e}
  <2>1. PICK v \in Loaded : a[v] = f
    BY <1>2
  <2>2. <<p, v>> \in Entry /\ pte[<<p, v>>] = f
    BY <1>1, <1>3, <2>1 DEF Entry
  <2>3. ASSUME NEW e \in Entry, pte[e] = f
        PROVE  e = <<p, v>>
    <3>1. f # Untouched
      BY <1>2, <1>3
    <3>2. e[1] = p /\ e[2] \in Loaded /\ a[e[2]] = a[v]
      BY <1>1, <2>1, <2>3, <3>1
    <3> QED
      BY <1>2, <3>2, EntryIsPair
  <2> QED
    BY <2>2, <2>3 DEF Mappings
<1>8. RefsExact
  <2> SUFFICES ASSUME NEW f \in Frame
               PROVE  ref[f] = Cardinality(Mappings(f)) + lost[f] /\ (f \in free <=> ref[f] = 0)
    BY DEF RefsExact
  <2>1. CASE f \in Range(a)
    <3>1. Cardinality(Mappings(f)) = 1
      BY <1>7, <2>1, FS_Singleton
    <3>2. ref[f] = 1 /\ lost[f] = 0 /\ f \notin free
      BY <1>1, <2>1
    <3> QED
      BY <3>1, <3>2
  <2>2. CASE f \notin Range(a)
    <3>1. Cardinality(Mappings(f)) = 0
      BY <1>6, <2>2, FS_EmptySet
    <3>2. ref[f] = 0 /\ lost[f] = 0 /\ f \in free
      BY <1>1, <2>2
    <3> QED
      BY <3>1, <3>2
  <2> QED
    BY <2>1, <2>2
<1>9. SharedReadOnly
  <2> SUFFICES ASSUME NEW f \in Frame, NEW e1 \in Mappings(f), NEW e2 \in Mappings(f)
               PROVE  e2 = e1
    BY DEF SharedReadOnly
  <2> QED
    BY <1>6, <1>7
<1> QED
  BY <1>4, <1>5, <1>8, <1>9 DEF IInv

\* A fault maps a page to a free frame; copy-on-write loses a reference to the old one.
LEMMA FaultKeeps ==
    ASSUME IInv, NEW e \in Entry, NEW f \in free, e[1] \in alive,
           pte' = [pte EXCEPT ![e] = f], writable' = writable \cup {e},
           ref' = Referenced(ref, {f}), free' = free \ {f},
           \A g \in Frame : lost'[g] = IF g = pte[e] THEN lost[g] + 1 ELSE lost[g],
           lost' \in [Frame -> Nat], content' \in [Frame -> Value], alive' = alive
    PROVE  IInv'
<1>1. f \in Frame /\ Mappings(f) = {} /\ lost[f] = 0
  BY FreeIsUnmapped
<1>2. /\ pte' \in [Entry -> Frame \cup {Untouched}]
      /\ Mappings(f)' = {e}
      /\ \A g \in Frame \ {f} : Mappings(g)' = Mappings(g) \ {e}
  BY MapFree
<1>3. pte[e] # f
  BY <1>1 DEF Mappings
<1>4. pte'[e] = f /\ \A d \in Entry \ {e} : pte'[d] = pte[d]
  BY DEF IInv, Types
<1>5. Types'
  BY <1>1, <1>2, <1>4 DEF IInv, Types, Referenced, Entry
<1>6. DeadMapNothing'
  BY <1>4 DEF IInv, DeadMapNothing, Entry
<1>7. RefsExact'
  <2> SUFFICES ASSUME NEW g \in Frame
               PROVE  /\ ref'[g] = Cardinality(Mappings(g)') + lost'[g]
                      /\ g \in free' <=> ref'[g] = 0
    BY DEF RefsExact
  <2>1. /\ ref[g] = Cardinality(Mappings(g)) + lost[g] /\ ref[g] \in Nat /\ lost[g] \in Nat
        /\ g \in free <=> ref[g] = 0
    BY DEF IInv, Types, RefsExact
  <2>2. CASE g = f
    <3>1. Cardinality(Mappings(g)') = 1
      BY <1>2, <2>2, FS_Singleton
    <3>2. ref'[g] = 1 /\ lost'[g] = 0 /\ g \notin free'
      BY <1>1, <1>3, <2>1, <2>2 DEF Referenced
    <3> QED
      BY <3>1, <3>2
  <2>3. CASE g # f
    <3>1. ref'[g] = ref[g] /\ (g \in free' <=> g \in free)
      BY <2>3 DEF Referenced
    <3>2. Mappings(g)' = Mappings(g) \ {e}
      BY <1>2, <2>3
    <3>3. Cardinality(Mappings(g) \ {e}) =
            IF pte[e] = g THEN Cardinality(Mappings(g)) - 1 ELSE Cardinality(Mappings(g))
      <4>1. e \in Mappings(g) <=> pte[e] = g
        BY DEF Mappings
      <4>2. IsFiniteSet(Mappings(g))
        BY MappingsType
      <4> QED
        BY <4>1, <4>2, FS_RemoveElement
    <3>4. Cardinality(Mappings(g)) \in Nat
      BY MappingsType
    <3> QED
      BY <2>1, <3>1, <3>2, <3>3, <3>4
  <2> QED
    BY <2>2, <2>3
<1>8. SharedReadOnly'
  <2> SUFFICES ASSUME NEW g \in Frame, NEW e1 \in Mappings(g)', NEW e2 \in Mappings(g)',
                      e1 \in writable'
               PROVE  e2 = e1
    BY DEF SharedReadOnly
  <2>1. CASE g = f
    BY <1>2, <2>1
  <2>2. CASE g # f
    <3>1. e1 \in Mappings(g) /\ e2 \in Mappings(g) /\ e1 # e
      BY <1>2, <2>2
    <3> QED
      BY <3>1 DEF IInv, SharedReadOnly
  <2> QED
    BY <2>1, <2>2
<1> QED
  BY <1>5, <1>6, <1>7, <1>8 DEF IInv

\* exit_mmap, with what follows it left open.
LEMMA ExitKeeps ==
    ASSUME IInv, NEW p \in alive, Exit(p)
    PROVE  IInv'
<1>1. p \in Proc /\ lost' = lost /\ ref' = RefsAfterExit(p) /\ free' = FreeAfterExit(p)
  BY DEF IInv, Types, Exit
<1>2. pte' = [e \in Entry |-> IF e \in EntriesOf(p) THEN Untouched ELSE pte[e]]
  BY DEF Exit
<1>3. ASSUME NEW f \in Frame
      PROVE  Mappings(f)' = Mappings(f) \ EntriesOf(p)
  BY <1>2, UserMemoryAssumption DEF Mappings
<1>4. Types'
  <2>1. ref' \in [Frame -> Nat] /\ free' \subseteq Frame
    BY <1>1, AfterExit
  <2>2. pte' \in [Entry -> Frame \cup {Untouched}]
    BY <1>2 DEF IInv, Types
  <2>3. writable' \subseteq {e \in Entry : pte'[e] \in Frame}
    BY <1>2 DEF IInv, Types, Exit
  <2> QED
    BY <2>1, <2>2, <2>3 DEF IInv, Types, Exit
<1>5. DeadMapNothing'
  <2> SUFFICES ASSUME NEW e \in Entry, e[1] \notin alive'
               PROVE  pte'[e] = Untouched
    BY DEF DeadMapNothing
  <2>1. CASE e[1] = p
    BY <1>2, <2>1, EntryIsPair DEF EntriesOf
  <2>2. CASE e[1] # p
    BY <1>2, <2>2 DEF IInv, DeadMapNothing, Exit
  <2> QED
    BY <2>1, <2>2
<1>6. RefsExact'
  <2> SUFFICES ASSUME NEW f \in Frame
               PROVE  /\ ref'[f] = Cardinality(Mappings(f)') + lost'[f]
                      /\ f \in free' <=> ref'[f] = 0
    BY DEF RefsExact
  <2>1. /\ RefsAfterExit(p)[f] = Cardinality(Mappings(f) \ EntriesOf(p)) + lost[f]
        /\ f \in FreeAfterExit(p) <=> RefsAfterExit(p)[f] = 0
    BY <1>1, AfterExit
  <2> QED
    BY <1>1, <1>3, <2>1
<1>7. SharedReadOnly'
  BY <1>3 DEF IInv, SharedReadOnly, Exit
<1> QED
  BY <1>4, <1>5, <1>6, <1>7 DEF IInv

\* load_icode and copy_mm: new frames for some pages of p, whose old entries are gone.
LEMMA NewFramesKeep ==
    ASSUME IInv, NEW p \in Proc, NEW refs \in [Frame -> Nat], NEW frames \in SUBSET Frame,
           \A f \in Frame :
                /\ refs[f] = Cardinality(Mappings(f) \ EntriesOf(p)) + lost[f]
                /\ f \in frames <=> refs[f] = 0,
           NEW D \in SUBSET Vpn, NEW a \in Allocations(D, frames), NEW W \in SUBSET D,
           pte' = WithTable(p, a), ref' = Referenced(refs, Range(a)),
           free' = frames \ Range(a), lost' = lost,
           writable' = (writable \ EntriesOf(p)) \cup {<<p, v>> : v \in W},
           alive' = alive \cup {p}, content' \in [Frame -> Value]
    PROVE  IInv'
<1>1. /\ pte' \in [Entry -> Frame \cup {Untouched}]
      /\ ref' \in [Frame -> Nat] /\ free' \subseteq Frame
      /\ Range(a) \subseteq frames
      /\ \A f \in Frame \ Range(a) : Mappings(f)' = Mappings(f) \ EntriesOf(p)
      /\ \A f \in Range(a) : \E e \in EntriesOf(p) : Mappings(f)' = {e}
      /\ RefsExact'
  BY MapNew, ZenonT(30)
<1>2. /\ a \in [D -> frames] /\ DOMAIN a = D
  BY DEF Allocations, Injection
<1>3. pte' = [e \in Entry |-> IF e \notin EntriesOf(p) THEN pte[e]
                              ELSE IF e[2] \in D THEN a[e[2]] ELSE Untouched]
  BY <1>2 DEF WithTable
<1>4. writable' \subseteq {e \in Entry : pte'[e] \in Frame}
  <2> SUFFICES ASSUME NEW e \in writable'
               PROVE  e \in Entry /\ pte'[e] \in Frame
    OBVIOUS
  <2>1. CASE e \in writable \ EntriesOf(p)
    BY <1>3, <2>1 DEF IInv, Types
  <2>2. CASE e \notin writable \ EntriesOf(p)
    <3>1. PICK v \in W : e = <<p, v>>
      BY <2>2
    <3>2. e \in Entry /\ e \in EntriesOf(p) /\ e[2] = v /\ v \in D
      BY <3>1 DEF Entry, EntriesOf
    <3> QED
      BY <1>2, <1>3, <3>2
  <2> QED
    BY <2>1, <2>2
<1>5. Types'
  BY <1>1, <1>4 DEF IInv, Types
<1>6. DeadMapNothing'
  <2> SUFFICES ASSUME NEW e \in Entry, e[1] \notin alive'
               PROVE  pte'[e] = Untouched
    BY DEF DeadMapNothing
  <2>1. e \notin EntriesOf(p) /\ e[1] \notin alive
    BY DEF EntriesOf
  <2> QED
    BY <1>3, <2>1 DEF IInv, DeadMapNothing
<1>7. SharedReadOnly'
  <2> SUFFICES ASSUME NEW f \in Frame, NEW e1 \in Mappings(f)', NEW e2 \in Mappings(f)',
                      e1 \in writable'
               PROVE  e2 = e1
    BY DEF SharedReadOnly
  <2>1. CASE f \in Range(a)
    BY <1>1, <2>1
  <2>2. CASE f \notin Range(a)
    <3>1. /\ e1 \in Mappings(f) /\ e2 \in Mappings(f) /\ e1 \notin EntriesOf(p)
      BY <1>1, <2>2
    <3>2. e1 \in writable
      BY <3>1 DEF EntriesOf
    <3> QED
      BY <3>1, <3>2 DEF IInv, SharedReadOnly
  <2> QED
    BY <2>1, <2>2
<1> QED
  BY <1>1, <1>5, <1>6, <1>7 DEF IInv

\* A process that does not exist maps nothing.
LEMMA DeadHasNoEntries ==
    ASSUME IInv, NEW q \in Proc \ alive
    PROVE  /\ \A f \in Frame : Mappings(f) \ EntriesOf(q) = Mappings(f)
           /\ writable \ EntriesOf(q) = writable
<1>1. \A e \in Entry : e \in EntriesOf(q) => pte[e] = Untouched
  BY DEF IInv, DeadMapNothing, EntriesOf
<1>2. Untouched \notin Frame
  BY UserMemoryAssumption
<1> QED
  BY <1>1, <1>2 DEF IInv, Types, Mappings

\* The mapped pages of a process.
LEMMA MappedPages ==
    ASSUME IInv, NEW p \in Proc
    PROVE  /\ Mapped(p) \in SUBSET Vpn
           /\ \A v \in Mapped(p) : <<p, v>> \in Entry /\ pte[<<p, v>>] \in Frame
           /\ \A v \in Vpn \ Mapped(p) : <<p, v>> \in Entry /\ pte[<<p, v>>] = Untouched
BY DEF Mapped, Entry, IInv, Types

\* do_execve.
LEMMA ExecKeeps ==
    ASSUME IInv, NEW p \in alive, Exec(p)
    PROVE  IInv'
<1> DEFINE refs == RefsAfterExit(p)
           frames == FreeAfterExit(p)
<1>1. p \in Proc /\ alive' = alive /\ lost' = lost
  BY DEF IInv, Types, Exec
<1>2. /\ refs \in [Frame -> Nat] /\ frames \in SUBSET Frame
      /\ \A f \in Frame : /\ refs[f] = Cardinality(Mappings(f) \ EntriesOf(p)) + lost[f]
                          /\ f \in frames <=> refs[f] = 0
  BY <1>1, AfterExit
<1> HIDE DEF refs, frames
<1>3. PICK a \in Allocations(Loaded, frames) :
        /\ pte' = WithTable(p, a)
        /\ writable' = (writable \ EntriesOf(p)) \cup {<<p, v>> : v \in Data}
        /\ ref' = Referenced(refs, Range(a))
        /\ free' = frames \ Range(a)
        /\ content' = [f \in Frame |-> IF f \in Range(a) THEN Program ELSE content[f]]
  BY DEF Exec, LoadProgram, refs, frames
<1>4. content' \in [Frame -> Value]
  BY <1>3, UserMemoryAssumption DEF IInv, Types
<1>5. Data \in SUBSET Loaded /\ Loaded \in SUBSET Vpn /\ alive' = alive \cup {p}
  BY <1>1 DEF Loaded, Vpn
<1> QED
  BY <1>1, <1>2, <1>3, <1>4, <1>5, NewFramesKeep

\* A fork that copies.
LEMMA CopyKeeps ==
    ASSUME IInv, NEW p \in alive, NEW q \in Proc \ alive, alive' = alive \cup {q},
           copy_mm(p, q), lost' = lost
    PROVE  IInv'
<1> DEFINE W == {w \in Vpn : <<p, w>> \in writable}
<1>1. p \in Proc
  BY DEF IInv, Types
<1>2. PICK a \in Allocations(Mapped(p), free) :
        /\ pte' = WithTable(q, a)
        /\ writable' = writable \cup {<<q, v>> : v \in W}
        /\ ref' = Referenced(ref, Range(a))
        /\ free' = free \ Range(a)
        /\ content' = [f \in Frame |-> IF f \in Range(a) THEN content[pte[<<p, PageIn(a, f)>>]]
                                       ELSE content[f]]
  BY DEF copy_mm
<1>3. /\ a \in [Mapped(p) -> free] /\ Range(a) = {a[v] : v \in Mapped(p)}
  BY DEF Allocations, Injection, Range
<1>4. content' \in [Frame -> Value]
  <2>1. ASSUME NEW f \in Range(a)
        PROVE  content[pte[<<p, PageIn(a, f)>>]] \in Value
    <3>1. PageIn(a, f) \in Mapped(p)
      BY <1>3 DEF PageIn
    <3> QED
      BY <1>1, <3>1, MappedPages DEF IInv, Types
  <2> QED
    BY <1>2, <2>1 DEF IInv, Types
<1>5. W \in SUBSET Mapped(p) /\ Mapped(p) \in SUBSET Vpn
  BY DEF Mapped, IInv, Types
<1>6. /\ ref \in [Frame -> Nat] /\ free \in SUBSET Frame
      /\ \A f \in Frame : /\ ref[f] = Cardinality(Mappings(f) \ EntriesOf(q)) + lost[f]
                          /\ f \in free <=> ref[f] = 0
  BY DeadHasNoEntries DEF IInv, Types, RefsExact
<1>7. writable' = (writable \ EntriesOf(q)) \cup {<<q, v>> : v \in W}
  BY <1>2, DeadHasNoEntries
<1> HIDE DEF W
<1> QED
  BY <1>2, <1>4, <1>5, <1>6, <1>7, NewFramesKeep

\* The child of a fork that shares has a copy of each entry of its parent.
LEMMA ShareEffect ==
    ASSUME IInv, NEW p \in alive, NEW q \in Proc \ alive, cow_copy_mm(p, q)
    PROVE  /\ pte' \in [Entry -> Frame \cup {Untouched}]
           /\ \A e \in Entry : e \notin EntriesOf(q) => pte'[e] = pte[e]
           /\ \A v \in Vpn : pte'[<<q, v>>] = pte[<<p, v>>]
<1> DEFINE a == [v \in Mapped(p) |-> pte[<<p, v>>]]
<1>1. p \in Proc
  BY DEF IInv, Types
<1>2. pte' = [e \in Entry |-> IF e \notin EntriesOf(q) THEN pte[e]
                              ELSE IF e[2] \in Mapped(p) THEN pte[<<p, e[2]>>] ELSE Untouched]
  BY DEF cow_copy_mm, WithTable
<1>3. /\ \A v \in Mapped(p) : pte[<<p, v>>] \in Frame
      /\ \A v \in Vpn \ Mapped(p) : pte[<<p, v>>] = Untouched
  BY <1>1, MappedPages
<1>4. pte' \in [Entry -> Frame \cup {Untouched}]
  BY <1>2, <1>3 DEF IInv, Types
<1>5. ASSUME NEW v \in Vpn
      PROVE  pte'[<<q, v>>] = pte[<<p, v>>]
  <2>1. <<q, v>> \in Entry /\ <<q, v>> \in EntriesOf(q) /\ <<q, v>>[2] = v
    BY DEF Entry, EntriesOf
  <2> QED
    BY <1>2, <1>3, <2>1
<1> QED
  BY <1>2, <1>4, <1>5

\* A fork that shares: as many entries are added as the parent has.
LEMMA ShareKeeps ==
    ASSUME IInv, NEW p \in alive, NEW q \in Proc \ alive, alive' = alive \cup {q},
           cow_copy_mm(p, q), lost' = lost
    PROVE  IInv'
<1> DEFINE Own(f) == Mappings(f) \cap EntriesOf(p)
           Copies(f) == {e \in EntriesOf(q) : pte[<<p, e[2]>>] = f}
<1>1. p \in Proc /\ p # q
  BY DEF IInv, Types
<1>2. /\ pte' \in [Entry -> Frame \cup {Untouched}]
      /\ \A e \in Entry : e \notin EntriesOf(q) => pte'[e] = pte[e]
      /\ \A v \in Vpn : pte'[<<q, v>>] = pte[<<p, v>>]
  BY ShareEffect
<1>3. /\ writable' = writable \ EntriesOf(p)
      /\ ref' = [f \in Frame |-> ref[f] + Uses(p, f)]
      /\ free' = free /\ content' = content
  BY DEF cow_copy_mm, cow_copy_range
<1>4. \A e \in EntriesOf(q) : e \in Entry /\ e[2] \in Vpn /\ e = <<q, e[2]>>
  BY DEF EntriesOf, Entry
<1>5. ASSUME NEW f \in Frame
      PROVE  /\ Mappings(f)' = Mappings(f) \cup Copies(f)
             /\ Mappings(f) \cap Copies(f) = {}
             /\ Copies(f) \in SUBSET Entry /\ Own(f) \in SUBSET Entry
  <2>1. Mappings(f) \cap EntriesOf(q) = {}
    BY DeadHasNoEntries
  <2>2. \A e \in EntriesOf(q) : pte'[e] = pte[<<p, e[2]>>]
    BY <1>2, <1>4
  <2>3. \A e \in Entry : e \in Mappings(f)' <=> e \in Mappings(f) \cup Copies(f)
    BY <1>2, <2>1, <2>2 DEF Mappings
  <2> QED
    BY <1>4, <2>1, <2>3 DEF Mappings
<1>6. ASSUME NEW f \in Frame
      PROVE  Cardinality(Copies(f)) = Uses(p, f)
  <2> DEFINE g == [e \in Own(f) |-> <<q, e[2]>>]
  <2>1. ASSUME NEW e \in Own(f)
        PROVE  e = <<p, e[2]>> /\ g[e] = <<q, e[2]>> /\ g[e] \in Copies(f)
    BY DEF Mappings, EntriesOf
  <2>2. g \in [Own(f) -> Copies(f)]
    BY <2>1
  <2>3. ASSUME NEW d \in Own(f), NEW e \in Own(f), g[d] = g[e]
        PROVE  d = e
    BY <2>1, <2>3
  <2>4. ASSUME NEW c \in Copies(f)
        PROVE  \E e \in Own(f) : g[e] = c
    <3>1. <<p, c[2]>> \in Own(f)
      BY <1>1, <1>4 DEF Mappings, EntriesOf, Entry
    <3> QED
      BY <1>4, <2>1, <3>1
  <2>5. g \in Bijection(Own(f), Copies(f))
    BY <2>2, <2>3, <2>4 DEF Bijection, Injection, Surjection, IsInjective
  <2>6. ExistsBijection(Own(f), Copies(f))
    BY <2>5 DEF ExistsBijection
  <2>7. IsFiniteSet(Own(f))
    BY <1>5, EntriesFinite
  <2> QED
    BY <2>6, <2>7, FS_Bijection DEF Uses
<1> HIDE DEF Own, Copies
<1>7. RefsExact'
  <2> SUFFICES ASSUME NEW f \in Frame
               PROVE  /\ ref'[f] = Cardinality(Mappings(f)') + lost'[f]
                      /\ f \in free' <=> ref'[f] = 0
    BY DEF RefsExact
  <2>1. /\ ref[f] = Cardinality(Mappings(f)) + lost[f] /\ lost[f] \in Nat
        /\ f \in free <=> ref[f] = 0
    BY DEF IInv, Types, RefsExact
  <2>2. /\ IsFiniteSet(Mappings(f)) /\ Cardinality(Mappings(f)) \in Nat
        /\ IsFiniteSet(Copies(f)) /\ Uses(p, f) \in Nat
    BY <1>5, <1>6, MappingsType, EntriesFinite
  <2>3. Cardinality(Mappings(f)') = Cardinality(Mappings(f)) + Uses(p, f)
    <3>1. Cardinality(Mappings(f) \cup Copies(f)) =
            Cardinality(Mappings(f)) + Cardinality(Copies(f)) - Cardinality({})
      BY <1>5, <2>2, FS_Union
    <3>2. Cardinality({}) = 0
      BY FS_EmptySet
    <3>3. Mappings(f)' = Mappings(f) \cup Copies(f)
      BY <1>5
    <3>4. Cardinality(Copies(f)) = Uses(p, f)
      BY <1>6
    <3> QED
      BY <2>2, <3>1, <3>2, <3>3, <3>4
  <2>4. Cardinality(Mappings(f)) = 0 => Uses(p, f) = 0
    BY <2>2, FS_EmptySet DEF Uses
  <2> QED
    BY <1>3, <2>1, <2>2, <2>3, <2>4
<1>8. Types'
  <2>1. ref' \in [Frame -> Nat]
    <3>1. \A f \in Frame : Uses(p, f) \in Nat
      BY <1>5, EntriesFinite DEF Uses, Own
    <3> QED
      BY <1>3, <3>1 DEF IInv, Types
  <2>2. writable' \subseteq {e \in Entry : pte'[e] \in Frame}
    <3>1. \A e \in writable : e \in Entry /\ pte[e] \in Frame /\ e \notin EntriesOf(q)
      BY DeadHasNoEntries DEF IInv, Types
    <3> QED
      BY <1>2, <1>3, <3>1
  <2> QED
    BY <1>2, <1>3, <2>1, <2>2 DEF IInv, Types
<1>9. DeadMapNothing'
  BY <1>2 DEF IInv, DeadMapNothing, EntriesOf
<1>10. SharedReadOnly'
  <2> SUFFICES ASSUME NEW f \in Frame, NEW e1 \in Mappings(f)', NEW e2 \in Mappings(f)',
                      e1 \in writable'
               PROVE  e2 = e1
    BY DEF SharedReadOnly
  <2>1. e1 \in writable /\ e1 \notin EntriesOf(p) /\ e1 \notin EntriesOf(q)
    BY <1>3, DeadHasNoEntries
  <2>2. e1 \in Mappings(f)
    BY <1>5, <2>1 DEF Copies
  <2>3. \A e \in Mappings(f) : e = e1
    BY <2>1, <2>2 DEF IInv, SharedReadOnly
  <2>4. Copies(f) = {}
    BY <1>1, <1>4, <2>1, <2>3 DEF Copies, Mappings, EntriesOf, Entry
  <2> QED
    BY <1>5, <2>3, <2>4
<1> QED
  BY <1>7, <1>8, <1>9, <1>10 DEF IInv

\* The steps that the lemmas above are about, and a store.
LEMMA NextIInv == IInv /\ [Next]_vars => IInv'
<1> SUFFICES ASSUME IInv, [Next]_vars PROVE IInv'
  OBVIOUS
<1>1. ASSUME NEW p \in alive, NEW v \in Vpn, Touch(p, v)
      PROVE  IInv'
  <2>1. <<p, v>> \in Entry /\ <<p, v>>[1] \in alive
    BY DEF Entry, IInv, Types
  <2>2. Untouched \notin Frame /\ pte[<<p, v>>] = Untouched
    BY <1>1, UserMemoryAssumption DEF Touch
  <2>3. PICK f \in free :
          /\ pte' = [pte EXCEPT ![<<p, v>>] = f]
          /\ writable' = writable \cup {<<p, v>>}
          /\ ref' = Referenced(ref, {f}) /\ free' = free \ {f}
          /\ alive' = alive /\ content' = content /\ lost' = lost
    BY <1>1 DEF Touch
  <2>4. /\ \A g \in Frame : lost'[g] = IF g = pte[<<p, v>>] THEN lost[g] + 1 ELSE lost[g]
        /\ lost' \in [Frame -> Nat] /\ content' \in [Frame -> Value]
    BY <2>2, <2>3 DEF IInv, Types
  <2> QED
    BY <2>1, <2>3, <2>4, FaultKeeps
<1>2. ASSUME NEW p \in alive, NEW v \in Vpn, WriteFault(p, v)
      PROVE  IInv'
  <2>1. /\ <<p, v>> \in Entry /\ <<p, v>>[1] \in alive /\ pte[<<p, v>>] \in Frame
        /\ alive' = alive /\ cow_pgfault(p, v)
    BY <1>2 DEF WriteFault, Mapped, Entry, IInv, Types
  <2>2. PICK f \in free :
          /\ content' = [content EXCEPT ![f] = content[pte[<<p, v>>]]]
          /\ pte' = [pte EXCEPT ![<<p, v>>] = f]
          /\ writable' = writable \cup {<<p, v>>}
          /\ ref' = Referenced(ref, {f}) /\ free' = free \ {f}
          /\ lost' = [lost EXCEPT ![pte[<<p, v>>]] = @ + 1]
    BY <2>1 DEF cow_pgfault, copy_page_content
  <2>3. /\ \A g \in Frame : lost'[g] = IF g = pte[<<p, v>>] THEN lost[g] + 1 ELSE lost[g]
        /\ lost' \in [Frame -> Nat] /\ content' \in [Frame -> Value]
    BY <2>1, <2>2 DEF IInv, Types
  <2> QED
    BY <2>1, <2>2, <2>3, FaultKeeps
<1>3. ASSUME NEW p \in alive, NEW v \in Vpn, NEW x \in Value, Write(p, v, x)
      PROVE  IInv'
  <2>1. UNCHANGED <<alive, pte, writable, ref, free, lost>> /\ content' \in [Frame -> Value]
    BY <1>3 DEF Write, IInv, Types
  <2>2. \A f : Mappings(f)' = Mappings(f)
    BY <2>1 DEF Mappings
  <2> QED
    BY <2>1, <2>2 DEF IInv, Types, DeadMapNothing, RefsExact, SharedReadOnly
<1>4. ASSUME NEW p \in alive, NEW q \in Proc, Fork(p, q)
      PROVE  IInv'
  BY <1>4, CopyKeeps, ShareKeeps DEF Fork
<1>5. ASSUME NEW p \in alive, Exec(p)
      PROVE  IInv'
  BY <1>5, ExecKeeps
<1>6. ASSUME NEW p \in alive, Exit(p)
      PROVE  IInv'
  BY <1>6, ExitKeeps
<1>7. CASE UNCHANGED vars
  <2>1. \A f : Mappings(f)' = Mappings(f)
    BY <1>7 DEF vars, Mappings
  <2> QED
    BY <1>7, <2>1 DEF vars, IInv, Types, DeadMapNothing, RefsExact, SharedReadOnly
<1> QED
  BY <1>1, <1>2, <1>3, <1>4, <1>5, <1>6, <1>7 DEF Next

\* The invariant of fork, faults, exec and exit together.
THEOREM UserMemoryInvariant == Spec => []IInv
<1> QED
  BY InitIInv, NextIInv, PTL DEF Spec

\* Reference counts equal the entries of the page tables and what cow_pgfault loses.
THEOREM CountsAreExact == Spec => []RefsExact
<1>1. IInv => RefsExact
  BY DEF IInv
<1> QED
  BY <1>1, UserMemoryInvariant, PTL

\* No store reaches a frame that two entries map.
THEOREM SharedFramesAreReadOnly == Spec => []SharedReadOnly
<1>1. IInv => SharedReadOnly
  BY DEF IInv
<1> QED
  BY <1>1, UserMemoryInvariant, PTL

-----------------------------------------------------------------------------

(***************************************************************************)
(* The refinement.                                                         *)
(***************************************************************************)
Mem == [p \in Proc |-> MemoryOf(p)]

\* The contents of a page.
LEMMA PageOfMemory ==
    ASSUME NEW p \in alive, NEW v \in Vpn
    PROVE  MemoryOf(p)[v] = IF pte[<<p, v>>] = Untouched THEN Untouched
                            ELSE content[pte[<<p, v>>]]
BY DEF MemoryOf

\* The memory of a process is a function on its pages, and not NoMemory.
LEMMA MemoryType ==
    ASSUME IInv, NEW p \in Proc
    PROVE  /\ p \in alive => MemoryOf(p) \in [Vpn -> Value \cup {Untouched}]
           /\ MemoryOf(p) = NoMemory <=> p \notin alive
<1>1. ASSUME p \in alive
      PROVE  MemoryOf(p) \in [Vpn -> Value \cup {Untouched}]
  <2>1. \A v \in Vpn : pte[<<p, v>>] \in Frame \cup {Untouched}
    BY DEF IInv, Types, Entry
  <2> QED
    BY <1>1, <2>1 DEF MemoryOf, IInv, Types
<1>2. p \notin alive => MemoryOf(p) = NoMemory
  BY DEF MemoryOf
<1> QED
  BY <1>1, <1>2, UserMemoryAssumption

\* A process keeps its memory if its entries and the frames they map stay as they are.
LEMMA MemoryKept ==
    ASSUME NEW p \in Proc, p \in alive <=> p \in alive',
           \A v \in Vpn : /\ pte'[<<p, v>>] = pte[<<p, v>>]
                          /\ pte[<<p, v>>] # Untouched =>
                                content'[pte[<<p, v>>]] = content[pte[<<p, v>>]]
    PROVE  MemoryOf(p)' = MemoryOf(p)
BY DEF MemoryOf

\* Functions that agree everywhere, and everywhere but at one argument.
LEMMA Changed ==
    ASSUME NEW D, NEW g, NEW h, NEW d \in D, NEW x,
           g = [u \in D |-> g[u]], h = [u \in D |-> h[u]],
           \A u \in D : h[u] = IF u = d THEN x ELSE g[u]
    PROVE  h = [g EXCEPT ![d] = x]
OBVIOUS

\* The memory of one process changes.
LEMMA MemChanged ==
    ASSUME NEW p \in Proc, NEW m, MemoryOf(p)' = m,
           \A q \in Proc \ {p} : MemoryOf(q)' = MemoryOf(q)
    PROVE  Mem' = [Mem EXCEPT ![p] = m]
BY DEF Mem

\* One page of one process changes.
LEMMA PageChanged ==
    ASSUME NEW p \in Proc, p \in alive, NEW v \in Vpn, NEW x, x # Untouched,
           alive' = alive,
           pte'[<<p, v>>] # Untouched, content'[pte'[<<p, v>>]] = x,
           \A q \in Proc, u \in Vpn : <<q, u>> # <<p, v>> =>
              /\ pte'[<<q, u>>] = pte[<<q, u>>]
              /\ pte[<<q, u>>] # Untouched => content'[pte[<<q, u>>]] = content[pte[<<q, u>>]]
    PROVE  Mem' = [Mem EXCEPT ![p][v] = x]
<1> DEFINE m == MemoryOf(p)
<1>1. MemoryOf(p)' = [m EXCEPT ![v] = x]
  <2>1. m = [u \in Vpn |-> m[u]] /\ MemoryOf(p)' = [u \in Vpn |-> MemoryOf(p)'[u]]
    BY DEF MemoryOf
  <2>2. ASSUME NEW u \in Vpn
        PROVE  MemoryOf(p)'[u] = IF u = v THEN x ELSE m[u]
    BY DEF MemoryOf
  <2> HIDE DEF m
  <2> QED
    BY <2>1, <2>2, Changed
<1>2. ASSUME NEW q \in Proc \ {p}
      PROVE  MemoryOf(q)' = MemoryOf(q)
  BY MemoryKept
<1> HIDE DEF m
<1>3. Mem' = [Mem EXCEPT ![p] = [m EXCEPT ![v] = x]]
  BY <1>1, <1>2, MemChanged
<1>4. Mem[p] = m
  BY DEF Mem, m
<1> QED
  BY <1>3, <1>4

\* copy_mm gives the child the contents of its parent's pages.
LEMMA CopyIsFork ==
    ASSUME IInv, NEW p \in alive, NEW q \in Proc \ alive, alive' = alive \cup {q},
           copy_mm(p, q)
    PROVE  /\ MemoryOf(q)' = MemoryOf(p)
           /\ \A r \in Proc \ {q} : MemoryOf(r)' = MemoryOf(r)
<1>1. p \in Proc /\ p # q
  BY DEF IInv, Types
<1>2. PICK a \in Allocations(Mapped(p), free) :
        /\ pte' = WithTable(q, a)
        /\ content' = [f \in Frame |-> IF f \in Range(a) THEN content[pte[<<p, PageIn(a, f)>>]]
                                       ELSE content[f]]
  BY DEF copy_mm
<1>3. /\ a \in [Mapped(p) -> free] /\ Range(a) = {a[v] : v \in Mapped(p)} /\ DOMAIN a = Mapped(p)
      /\ \A u, v \in Mapped(p) : a[u] = a[v] => u = v
  BY DEF Allocations, Injection, IsInjective, Range
<1>4. pte' = [e \in Entry |-> IF e \notin EntriesOf(q) THEN pte[e]
                              ELSE IF e[2] \in Mapped(p) THEN a[e[2]] ELSE Untouched]
  BY <1>2, <1>3 DEF WithTable
<1>5. ASSUME NEW v \in Vpn
      PROVE  /\ <<q, v>> \in Entry
             /\ pte'[<<q, v>>] = IF v \in Mapped(p) THEN a[v] ELSE Untouched
  <2>1. <<q, v>> \in Entry /\ <<q, v>> \in EntriesOf(q) /\ <<q, v>>[2] = v
    BY DEF Entry, EntriesOf
  <2> QED
    BY <1>4, <2>1
<1>6. ASSUME NEW v \in Mapped(p)
      PROVE  a[v] # Untouched /\ content'[a[v]] = content[pte[<<p, v>>]]
  <2>1. a[v] \in Range(a) /\ a[v] \in Frame
    BY <1>3 DEF IInv, Types
  <2>2. PageIn(a, a[v]) = v
    BY <1>3 DEF PageIn
  <2> QED
    BY <1>2, <2>1, <2>2, UserMemoryAssumption
<1>7. MemoryOf(q)' = MemoryOf(p)
  <2>1. ASSUME NEW v \in Vpn
        PROVE  (IF pte'[<<q, v>>] = Untouched THEN Untouched ELSE content'[pte'[<<q, v>>]])
                = IF pte[<<p, v>>] = Untouched THEN Untouched ELSE content[pte[<<p, v>>]]
    <3>1. CASE v \in Mapped(p)
      <4>1. pte[<<p, v>>] # Untouched
        BY <1>1, <3>1, MappedPages, UserMemoryAssumption
      <4> QED
        BY <1>5, <1>6, <3>1, <4>1
    <3>2. CASE v \notin Mapped(p)
      <4>1. pte[<<p, v>>] = Untouched
        BY <1>1, <3>2, MappedPages
      <4> QED
        BY <1>5, <3>2, <4>1
    <3> QED
      BY <3>1, <3>2
  <2>2. q \in alive'
    OBVIOUS
  <2> QED
    BY <2>1, <2>2 DEF MemoryOf
<1>8. ASSUME NEW r \in Proc \ {q}
      PROVE  MemoryOf(r)' = MemoryOf(r)
  <2>1. ASSUME NEW v \in Vpn
        PROVE  /\ pte'[<<r, v>>] = pte[<<r, v>>]
               /\ pte[<<r, v>>] # Untouched => content'[pte[<<r, v>>]] = content[pte[<<r, v>>]]
    <3>1. <<r, v>> \in Entry /\ <<r, v>> \notin EntriesOf(q)
      BY DEF Entry, EntriesOf
    <3>2. pte'[<<r, v>>] = pte[<<r, v>>]
      BY <1>4, <3>1
    <3>3. pte[<<r, v>>] # Untouched => pte[<<r, v>>] \in Frame /\ pte[<<r, v>>] \notin Range(a)
      <4>1. \A f \in Range(a) : Mappings(f) = {}
        BY <1>3, FreeIsUnmapped
      <4> QED
        BY <3>1, <4>1 DEF Mappings, IInv, Types
    <3> QED
      BY <1>2, <3>2, <3>3
  <2> QED
    BY <2>1, MemoryKept
<1> QED
  BY <1>7, <1>8

\* cow_copy_mm gives the child the frames of its parent.
LEMMA ShareIsFork ==
    ASSUME IInv, NEW p \in alive, NEW q \in Proc \ alive, alive' = alive \cup {q},
           cow_copy_mm(p, q)
    PROVE  /\ MemoryOf(q)' = MemoryOf(p)
           /\ \A r \in Proc \ {q} : MemoryOf(r)' = MemoryOf(r)
<1>1. p \in Proc /\ p # q /\ content' = content
  BY DEF IInv, Types, cow_copy_mm
<1>2. /\ \A e \in Entry : e \notin EntriesOf(q) => pte'[e] = pte[e]
      /\ \A v \in Vpn : pte'[<<q, v>>] = pte[<<p, v>>]
  BY ShareEffect
<1>3. MemoryOf(q)' = MemoryOf(p)
  BY <1>1, <1>2 DEF MemoryOf
<1>4. ASSUME NEW r \in Proc \ {q}
      PROVE  MemoryOf(r)' = MemoryOf(r)
  <2>1. \A v \in Vpn : pte'[<<r, v>>] = pte[<<r, v>>]
    BY <1>2 DEF Entry, EntriesOf
  <2> QED
    BY <1>1, <2>1, MemoryKept
<1> QED
  BY <1>3, <1>4

\* load_icode writes to frames that were free, or that p alone had mapped.
LEMMA ExecIsExec ==
    ASSUME IInv, NEW p \in alive, Exec(p)
    PROVE  /\ MemoryOf(p)' = Abstract!Fresh
           /\ \A r \in Proc \ {p} : MemoryOf(r)' = MemoryOf(r)
<1> DEFINE refs == RefsAfterExit(p)
           frames == FreeAfterExit(p)
<1>1. p \in Proc /\ alive' = alive /\ lost' = lost
  BY DEF IInv, Types, Exec
<1>2. /\ refs \in [Frame -> Nat] /\ frames \in SUBSET Frame
      /\ \A f \in Frame : /\ refs[f] = Cardinality(Mappings(f) \ EntriesOf(p)) + lost[f]
                          /\ f \in frames <=> refs[f] = 0
  BY <1>1, AfterExit
<1> HIDE DEF refs, frames
<1>3. PICK a \in Allocations(Loaded, frames) :
        /\ pte' = WithTable(p, a)
        /\ ref' = Referenced(refs, Range(a))
        /\ free' = frames \ Range(a)
        /\ content' = [f \in Frame |-> IF f \in Range(a) THEN Program ELSE content[f]]
  BY DEF Exec, LoadProgram, refs, frames
<1>4. Range(a) \subseteq frames /\ \A f \in frames : Mappings(f) \subseteq EntriesOf(p)
  BY <1>1, <1>2, <1>3, MapNew DEF Vpn
<1>5. a \in [Loaded -> frames] /\ Range(a) = {a[v] : v \in Loaded} /\ DOMAIN a = Loaded
  BY DEF Allocations, Injection, Range
<1>6. pte' = [e \in Entry |-> IF e \notin EntriesOf(p) THEN pte[e]
                              ELSE IF e[2] \in Loaded THEN a[e[2]] ELSE Untouched]
  BY <1>3, <1>5 DEF WithTable
<1>7. MemoryOf(p)' = Abstract!Fresh
  <2>1. ASSUME NEW v \in Vpn
        PROVE  (IF pte'[<<p, v>>] = Untouched THEN Untouched ELSE content'[pte'[<<p, v>>]])
                = IF v \in Loaded THEN Program ELSE Untouched
    <3>1. <<p, v>> \in Entry /\ <<p, v>> \in EntriesOf(p) /\ <<p, v>>[2] = v
      BY <1>1 DEF Entry, EntriesOf
    <3>2. pte'[<<p, v>>] = IF v \in Loaded THEN a[v] ELSE Untouched
      BY <1>6, <3>1
    <3>3. v \in Loaded => a[v] \in Frame /\ a[v] # Untouched /\ content'[a[v]] = Program
      BY <1>2, <1>3, <1>5, UserMemoryAssumption
    <3> QED
      BY <3>2, <3>3
  <2> QED
    BY <1>1, <2>1 DEF MemoryOf, Abstract!Fresh, Vpn
<1>8. ASSUME NEW r \in Proc \ {p}
      PROVE  MemoryOf(r)' = MemoryOf(r)
  <2>1. ASSUME NEW v \in Vpn
        PROVE  /\ pte'[<<r, v>>] = pte[<<r, v>>]
               /\ pte[<<r, v>>] # Untouched => content'[pte[<<r, v>>]] = content[pte[<<r, v>>]]
    <3>1. <<r, v>> \in Entry /\ <<r, v>> \notin EntriesOf(p)
      BY DEF Entry, EntriesOf
    <3>2. pte'[<<r, v>>] = pte[<<r, v>>]
      BY <1>6, <3>1
    <3>3. pte[<<r, v>>] # Untouched => pte[<<r, v>>] \in Frame /\ pte[<<r, v>>] \notin Range(a)
      BY <1>4, <3>1 DEF Mappings, IInv, Types
    <3> QED
      BY <1>3, <3>2, <3>3
  <2> QED
    BY <1>1, <2>1, MemoryKept
<1> QED
  BY <1>7, <1>8

\* Each step does to the memories what PrivateMemory says, or nothing.
LEMMA StepIsPrivate ==
    ASSUME IInv, [Next]_vars
    PROVE  Abstract!Next \/ (Mem' = Mem /\ odd' = odd)
<1>1. ASSUME NEW p \in alive
      PROVE  p \in {q \in Proc : Mem[q] # NoMemory} /\ Mem[p] = MemoryOf(p)
  BY MemoryType DEF Mem, IInv, Types
<1>2. ASSUME NEW p \in alive, NEW v \in Vpn, Touch(p, v)
      PROVE  Abstract!Next
  <2>1. PICK f \in free :
          /\ pte[<<p, v>>] = Untouched /\ pte' = [pte EXCEPT ![<<p, v>>] = f]
          /\ UNCHANGED <<alive, content, odd>>
    BY <1>2 DEF Touch
  <2>2. /\ p \in Proc /\ <<p, v>> \in Entry /\ pte'[<<p, v>>] = f
        /\ f # Untouched /\ content[f] \in Value /\ content[f] # Untouched
    BY <2>1, UserMemoryAssumption DEF IInv, Types, Entry
  <2>3. \A q \in Proc, u \in Vpn : <<q, u>> # <<p, v>> => pte'[<<q, u>>] = pte[<<q, u>>]
    BY <2>1 DEF IInv, Types, Entry
  <2>4. Mem' = [Mem EXCEPT ![p][v] = content[f]]
    BY <2>1, <2>2, <2>3, PageChanged
  <2>5. Mem[p][v] = Untouched
    BY <1>1, <2>1, PageOfMemory
  <2>6. Abstract!Touch(p, v)
    BY <2>1, <2>2, <2>4, <2>5 DEF Abstract!Touch, Mem
  <2> QED
    BY <1>1, <2>6 DEF Abstract!Next, Mem, Vpn
<1>3. ASSUME NEW p \in alive, NEW v \in Vpn, WriteFault(p, v)
      PROVE  Mem' = Mem /\ odd' = odd
  <2>1. PICK f \in free :
          /\ content' = [content EXCEPT ![f] = content[pte[<<p, v>>]]]
          /\ pte' = [pte EXCEPT ![<<p, v>>] = f]
          /\ pte[<<p, v>>] \in Frame /\ alive' = alive /\ odd' = odd
    BY <1>3 DEF WriteFault, cow_pgfault, copy_page_content, Mapped
  <2>2. f \in Frame /\ Mappings(f) = {} /\ f # Untouched
    BY FreeIsUnmapped, UserMemoryAssumption
  <2>3. p \in Proc /\ <<p, v>> \in Entry /\ pte'[<<p, v>>] = f
    BY <2>1 DEF IInv, Types, Entry
  <2>4. content'[f] = content[pte[<<p, v>>]] /\ pte[<<p, v>>] # Untouched
    BY <2>1, <2>2, UserMemoryAssumption DEF IInv, Types
  <2>5. ASSUME NEW q \in Proc, NEW u \in Vpn, <<q, u>> # <<p, v>>
        PROVE  /\ pte'[<<q, u>>] = pte[<<q, u>>]
               /\ pte[<<q, u>>] # Untouched => content'[pte[<<q, u>>]] = content[pte[<<q, u>>]]
    BY <2>1, <2>2, <2>5 DEF IInv, Types, Entry, Mappings
  <2>6. ASSUME NEW q \in Proc
        PROVE  MemoryOf(q)' = MemoryOf(q)
    <3>1. ASSUME NEW u \in Vpn
          PROVE  (IF pte'[<<q, u>>] = Untouched THEN Untouched ELSE content'[pte'[<<q, u>>]])
                  = IF pte[<<q, u>>] = Untouched THEN Untouched ELSE content[pte[<<q, u>>]]
      <4>1. CASE <<q, u>> = <<p, v>>
        BY <2>2, <2>3, <2>4, <4>1
      <4>2. CASE <<q, u>> # <<p, v>>
        BY <2>5, <4>2
      <4> QED
        BY <4>1, <4>2
    <3> QED
      BY <2>1, <3>1 DEF MemoryOf
  <2> QED
    BY <2>1, <2>6 DEF Mem
<1>4. ASSUME NEW p \in alive, NEW v \in Vpn, NEW x \in Value, Write(p, v, x)
      PROVE  Abstract!Next
  <2> DEFINE f == pte[<<p, v>>]
  <2>1. /\ <<p, v>> \in writable /\ content' = [content EXCEPT ![f] = x]
        /\ alive' = alive /\ pte' = pte /\ odd' = ~odd
    BY <1>4 DEF Write
  <2>2. /\ p \in Proc /\ <<p, v>> \in Entry /\ f \in Frame
        /\ f # Untouched /\ x # Untouched /\ content'[f] = x
    BY <2>1, UserMemoryAssumption DEF IInv, Types
  <2>3. ASSUME NEW q \in Proc, NEW u \in Vpn, <<q, u>> # <<p, v>>
        PROVE  /\ pte'[<<q, u>>] = pte[<<q, u>>]
               /\ pte[<<q, u>>] # Untouched => content'[pte[<<q, u>>]] = content[pte[<<q, u>>]]
    <3>1. pte[<<q, u>>] # f
      BY <2>1, <2>2, <2>3 DEF IInv, SharedReadOnly, Mappings, Entry
    <3> QED
      BY <2>1, <3>1 DEF IInv, Types, Entry
  <2>4. Mem' = [Mem EXCEPT ![p][v] = x]
    BY <2>1, <2>2, <2>3, PageChanged
  <2>5. Mem[p][v] # Untouched
    <3>1. content[f] \in Value
      BY <2>2 DEF IInv, Types
    <3> QED
      BY <1>1, <2>2, <3>1, PageOfMemory, UserMemoryAssumption
  <2>6. Abstract!Write(p, v)
    BY <2>1, <2>4, <2>5 DEF Abstract!Write, Mem
  <2> QED
    BY <1>1, <2>6 DEF Abstract!Next, Mem, Vpn
<1>5. ASSUME NEW p \in alive, NEW q \in Proc, Fork(p, q)
      PROVE  Abstract!Next
  <2>1. q \in Proc \ alive /\ alive' = alive \cup {q} /\ odd' = odd
    BY <1>5 DEF Fork
  <2>2. /\ MemoryOf(q)' = MemoryOf(p)
        /\ \A r \in Proc \ {q} : MemoryOf(r)' = MemoryOf(r)
    BY <1>5, <2>1, CopyIsFork, ShareIsFork DEF Fork
  <2>3. Mem' = [Mem EXCEPT ![q] = Mem[p]]
    BY <1>1, <2>2, MemChanged
  <2>4. Mem[q] = NoMemory
    BY <2>1, MemoryType DEF Mem
  <2>5. Abstract!Fork(p, q)
    BY <2>1, <2>3, <2>4 DEF Abstract!Fork, Mem
  <2> QED
    BY <1>1, <2>5 DEF Abstract!Next, Mem
<1>6. ASSUME NEW p \in alive, Exec(p)
      PROVE  Abstract!Next
  <2>1. p \in Proc /\ odd' = odd
    BY <1>6 DEF IInv, Types, Exec
  <2>2. /\ MemoryOf(p)' = Abstract!Fresh
        /\ \A r \in Proc \ {p} : MemoryOf(r)' = MemoryOf(r)
    BY <1>6, ExecIsExec
  <2>3. Mem' = [Mem EXCEPT ![p] = Abstract!Fresh]
    BY <2>1, <2>2, MemChanged
  <2>4. Abstract!Exec(p)
    BY <2>1, <2>3 DEF Abstract!Exec, Mem
  <2> QED
    BY <1>1, <2>4 DEF Abstract!Next, Mem
<1>7. ASSUME NEW p \in alive, Exit(p)
      PROVE  Abstract!Next
  <2>1. /\ p \in Proc /\ odd' = odd /\ content' = content /\ alive' = alive \ {p}
        /\ pte' = [e \in Entry |-> IF e \in EntriesOf(p) THEN Untouched ELSE pte[e]]
    BY <1>7 DEF IInv, Types, Exit
  <2>2. MemoryOf(p)' = NoMemory
    BY <2>1 DEF MemoryOf
  <2>3. ASSUME NEW r \in Proc \ {p}
        PROVE  MemoryOf(r)' = MemoryOf(r)
    <3>1. \A v \in Vpn : pte'[<<r, v>>] = pte[<<r, v>>]
      BY <2>1 DEF Entry, EntriesOf
    <3> QED
      BY <2>1, <3>1, MemoryKept
  <2>4. Mem' = [Mem EXCEPT ![p] = NoMemory]
    BY <2>1, <2>2, <2>3, MemChanged
  <2>5. Abstract!Exit(p)
    BY <2>1, <2>4 DEF Abstract!Exit, Mem
  <2> QED
    BY <1>1, <2>5 DEF Abstract!Next, Mem
<1>8. CASE UNCHANGED vars
  BY <1>8 DEF vars, Mem, MemoryOf
<1> QED
  BY <1>2, <1>3, <1>4, <1>5, <1>6, <1>7, <1>8 DEF Next

\* The first process has the pages of its program.
LEMMA InitIsPrivate == Init => Abstract!Init
<1> SUFFICES ASSUME Init PROVE Abstract!Init
  OBVIOUS
<1>1. PICK p \in Proc, a \in Allocations(Loaded, Frame) :
        /\ alive = {p} /\ odd = FALSE
        /\ pte = [e \in Entry |-> IF e[1] = p /\ e[2] \in Loaded THEN a[e[2]] ELSE Untouched]
        /\ \A f \in Range(a) : content[f] = Program
  BY DEF Init
<1>2. a \in [Loaded -> Frame] /\ Range(a) = {a[v] : v \in Loaded}
  BY DEF Allocations, Injection, Range
<1>3. MemoryOf(p) = Abstract!Fresh
  <2>1. ASSUME NEW v \in Vpn
        PROVE  (IF pte[<<p, v>>] = Untouched THEN Untouched ELSE content[pte[<<p, v>>]])
                = IF v \in Loaded THEN Program ELSE Untouched
    <3>1. pte[<<p, v>>] = IF v \in Loaded THEN a[v] ELSE Untouched
      BY <1>1 DEF Entry
    <3>2. v \in Loaded => a[v] # Untouched /\ content[a[v]] = Program
      BY <1>1, <1>2, UserMemoryAssumption
    <3> QED
      BY <3>1, <3>2
  <2> QED
    BY <1>1, <2>1 DEF MemoryOf, Abstract!Fresh, Vpn
<1>4. \A q \in Proc \ {p} : MemoryOf(q) = NoMemory
  BY <1>1 DEF MemoryOf
<1> QED
  BY <1>1, <1>3, <1>4 DEF Abstract!Init

\* Processes see private memories, though fork shares frames and faults copy them.
THEOREM MemoryIsPrivate == Spec => ImplementsPrivateMemory
<1>1. IInv /\ [Next]_vars => [Abstract!Next]_<<Mem, odd>>
  BY StepIsPrivate
<1> QED
  BY <1>1, InitIsPrivate, UserMemoryInvariant, PTL
     DEF Spec, ImplementsPrivateMemory, Abstract!Spec, Mem
=============================================================================
