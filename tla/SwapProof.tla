------------------------------ MODULE SwapProof ------------------------------
(***************************************************************************)
(* Proofs about Swap: for any number of pages and frames and each of the   *)
(* three managers, the list is that of the resident pages, an access that  *)
(* its region permits faults at most twice, the program sees a plain       *)
(* memory, and the page whose last fault is oldest is the first to leave.  *)
(***************************************************************************)
EXTENDS Swap, ListLemmas

\* The variables that the properties read.
Types ==
    /\ manager \in {"fifo", "clock", "lru"}
    /\ storing \in BOOLEAN
    /\ pte \in [Vaddr -> Frame \cup {Unmapped, Swapped}]
    /\ content \in [Frame -> Value]
    /\ disk \in [Vaddr -> Value]
    /\ free \subseteq Frame
    /\ list \in Seq(Frame)
    /\ pra_vaddr \in [Frame -> Vaddr]

\* The faults of an access that its region permits.
Enough(v) == IF v \in readonly THEN 2 ELSE 1

\* FaultsTwiceAtMost, with what the faults so far have done for the access under way.
FaultsHelp ==
    /\ faults \in 0 .. MaxFaults
    /\ \A v \in pending : Permitted(v) =>
           /\ faults <= Enough(v)
           /\ faults > 0 => v \in Mapped
           /\ faults = Enough(v) => v \in readable

\* ListIsResident is needed for the others: a fault on a page that is not mapped takes the
\* frame of one other page, the one that the frame knows, and no second.
IInv == Types /\ ListIsResident /\ FaultsHelp

-----------------------------------------------------------------------------

(***************************************************************************)
(* The victim and the hand.                                                *)
(***************************************************************************)

\* swap_out_victim takes a page from the list, if there is one.
LEMMA VictimOnList ==
    ASSUME manager \in {"fifo", "clock", "lru"}, list \in Seq(Frame), list # <<>>,
           curr_ptr \in ToSet(list) \cup {ListHead}
    PROVE  Victim \in ToSet(list)
<1>1. Len(list) \in Nat \ {0} /\ DOMAIN list = 1 .. Len(list)
  BY EmptySeq
<1>2. CASE manager # "clock"
  BY <1>1, <1>2 DEF Victim, ToSet
<1>3. CASE manager = "clock"
  <2> DEFINE n == Len(list)
             start == IF curr_ptr = ListHead THEN 1 ELSE Position(curr_ptr)
             unvisited == {i \in DOMAIN list : Round[i] \notin visited}
             first == IF unvisited = {} THEN 1 ELSE Min(unvisited)
  <2>1. start \in 1 .. n
    <3>1. CASE curr_ptr = ListHead
      BY <1>1, <3>1
    <3>2. CASE curr_ptr # ListHead
      <4>1. \E i \in DOMAIN list : list[i] = curr_ptr
        BY <3>2 DEF ToSet
      <4> QED
        BY <1>1, <3>2, <4>1 DEF Position
    <3> QED
      BY <3>1, <3>2
  <2>2. first \in 1 .. n
    <3>1. unvisited \subseteq 1 .. n /\ unvisited \subseteq Nat
      BY <1>1
    <3>2. CASE unvisited # {}
      BY <3>1, <3>2, LeastOfNat
    <3> QED
      BY <1>1, <3>2
  <2> HIDE DEF first
  <2>3. Round[first] = list[((start + first - 2) % n) + 1]
    BY <2>2 DEF Round
  <2>4. ((start + first - 2) % n) + 1 \in 1 .. n
    <3> HIDE DEF start, n
    <3>1. n \in Nat \ {0} /\ start + first - 2 \in Int
      BY <1>1, <2>1, <2>2 DEF n
    <3> QED
      BY <3>1
  <2>5. Victim = Round[first]
    BY <1>3 DEF Victim, ClockVictim, first
  <2> QED
    BY <1>1, <2>3, <2>4, <2>5 DEF ToSet
<1> QED
  BY <1>2, <1>3

\* The hand moves to the entry behind the victim, or to the head.
LEMMA HandOnList ==
    ASSUME list \in Seq(Frame), NEW f \in ToSet(list)
    PROVE  AfterInList(f) \in ToSet(list) \cup {ListHead}
<1>1. CASE f # list[Len(list)]
  <2>1. Position(f) \in DOMAIN list /\ list[Position(f)] = f
    BY DEF Position, ToSet
  <2>2. Len(list) \in Nat /\ DOMAIN list = 1 .. Len(list)
    OBVIOUS
  <2>3. Position(f) + 1 \in DOMAIN list
    BY <1>1, <2>1, <2>2
  <2> QED
    BY <1>1, <2>3 DEF AfterInList, ToSet
<1> QED
  BY <1>1 DEF AfterInList

\* map_swappable puts an entry that is not linked on the list, once.
LEMMA MapSwappableAdds ==
    ASSUME NEW q \in Seq(Frame), NEW f \in Frame, IsInjective(q), f \notin ToSet(q)
    PROVE  /\ MapSwappable(q, f) \in Seq(Frame)
           /\ IsInjective(MapSwappable(q, f))
           /\ ToSet(MapSwappable(q, f)) = ToSet(q) \cup {f}
BY AppendNew, PushNew DEF MapSwappable

-----------------------------------------------------------------------------

(***************************************************************************)
(* A fault on a page that is not mapped.                                   *)
(***************************************************************************)

\* What LoadPage does to the page table, in terms of the frame f that it fills and the
\* pages E, one or none, that had it.
LEMMA LoadPageEffect ==
    ASSUME IInv, NEW v \in Vaddr, LoadPage(v)
    PROVE  \E f \in Frame, E \in SUBSET Mapped :
             /\ E = {u \in Mapped : pte[u] = f}
             /\ f \in free \/ f \in ToSet(list)
             /\ pte' = [u \in Vaddr |-> IF u = v THEN f
                                        ELSE IF u \in E THEN Swapped ELSE pte[u]]
             /\ disk' = SwapfsWrite(E)
             /\ content' = SwapIn(v, f)
             /\ free' = free \ {f}
             /\ list' = MapSwappable(Without(list, f), f)
             /\ curr_ptr' \in ToSet(list) \cup {ListHead}
             /\ pra_vaddr' = [pra_vaddr EXCEPT ![f] = v]
<1> DEFINE f == IF free = {} THEN Victim ELSE Min(free)
           E == IF free = {} THEN {pra_vaddr[f]} ELSE {}
<1>1. CASE free = {}
  <2>1. ToSet(list) = Frame
    BY <1>1, SwapAssumption DEF IInv, Types, ListIsResident, ToSet
  <2>2. list # <<>> /\ list \in Seq(Frame)
    BY <2>1, SwapAssumption DEF IInv, Types, ToSet
  <2>3. f \in ToSet(list) /\ f \in Frame
    BY <1>1, <2>1, <2>2, VictimOnList DEF IInv, Types, ListIsResident
  <2>4. PICK w \in Mapped : pte[w] = f
    BY <2>3 DEF IInv, ListIsResident
  <2>5. E = {u \in Mapped : pte[u] = f}
    BY <1>1, <2>4 DEF IInv, ListIsResident
  <2>6. curr_ptr' \in ToSet(list) \cup {ListHead}
    BY <1>1, <2>2, <2>3, HandOnList DEF LoadPage, IInv, ListIsResident
  <2> QED
    BY <1>1, <2>3, <2>5, <2>6 DEF LoadPage
<1>2. CASE free # {}
  <2>1. f \in free
    BY <1>2, LeastOfNat, SwapAssumption DEF IInv, Types
  <2>2. f \in Frame /\ f \notin ToSet(list)
    BY <2>1 DEF IInv, Types, ListIsResident
  <2>3. E = {u \in Mapped : pte[u] = f}
    BY <1>2, <2>2 DEF IInv, ListIsResident
  <2>4. curr_ptr' \in ToSet(list) \cup {ListHead}
    BY <1>2 DEF LoadPage, IInv, ListIsResident
  <2> QED
    BY <1>2, <2>1, <2>2, <2>3, <2>4 DEF LoadPage
<1> QED
  BY <1>1, <1>2

\* The page that is loaded gets the frame, the page that had it goes to the disk.
LEMMA LoadPageKeepsList ==
    ASSUME IInv, NEW v \in Vaddr, LoadPage(v)
    PROVE  Types' /\ ListIsResident'
<1>1. PICK f \in Frame, E \in SUBSET Mapped :
             /\ E = {u \in Mapped : pte[u] = f}
             /\ f \in free \/ f \in ToSet(list)
             /\ pte' = [u \in Vaddr |-> IF u = v THEN f
                                        ELSE IF u \in E THEN Swapped ELSE pte[u]]
             /\ disk' = SwapfsWrite(E)
             /\ content' = SwapIn(v, f)
             /\ free' = free \ {f}
             /\ list' = MapSwappable(Without(list, f), f)
             /\ curr_ptr' \in ToSet(list) \cup {ListHead}
             /\ pra_vaddr' = [pra_vaddr EXCEPT ![f] = v]
  BY LoadPageEffect
<1>2. /\ list' \in Seq(Frame) /\ IsInjective(list')
      /\ ToSet(list') = ToSet(list) \cup {f}
  <2> DEFINE q == Without(list, f)
  <2>1. q \in Seq(Frame) /\ IsInjective(q) /\ ToSet(q) = ToSet(list) \ {f}
    <3>1. list \in Seq(Frame) /\ IsInjective(list)
      BY DEF IInv, Types, ListIsResident
    <3> QED
      BY <3>1, RemoveOne DEF Without
  <2>2. list' = MapSwappable(q, f)
    BY <1>1
  <2> QED
    BY <2>1, <2>2, MapSwappableAdds
<1>3. v \notin Mapped /\ manager' = manager /\ storing' = storing
  BY DEF LoadPage, Mapped
<1>4. Types'
  <2>1. disk' \in [Vaddr -> Value]
    BY <1>1 DEF SwapfsWrite, Mapped, IInv, Types
  <2>2. content' \in [Frame -> Value]
    BY <1>1 DEF SwapIn, IInv, Types
  <2> QED
    BY <1>1, <1>2, <1>3, <2>1, <2>2 DEF IInv, Types
<1>5. Mapped' = (Mapped \ E) \cup {v}
  BY <1>1, SwapAssumption DEF Mapped, IInv, Types
<1>6. \A u \in Mapped \ E : pte'[u] = pte[u] /\ pte[u] # f
  BY <1>1, <1>3 DEF Mapped
<1>7. ToSet(list') = {pte'[u] : u \in Mapped'}
  <2>1. pte'[v] = f /\ v \in Mapped'
    BY <1>1, <1>5
  <2>2. ToSet(list) = {pte[u] : u \in Mapped}
    BY DEF IInv, ListIsResident
  <2>3. \A g \in ToSet(list) : g = f \/ \E u \in Mapped' : g = pte'[u]
    <3> TAKE g \in ToSet(list)
    <3>1. PICK u \in Mapped : g = pte[u]
      BY <2>2
    <3> QED
      BY <1>1, <1>5, <1>6, <3>1
  <2>4. \A u \in Mapped' : pte'[u] \in ToSet(list) \cup {f}
    BY <1>5, <1>6, <2>1, <2>2
  <2> QED
    BY <1>2, <2>1, <2>3, <2>4
<1>8. \A u \in Mapped' : pra_vaddr'[pte'[u]] = u
  <2>1. pra_vaddr'[f] = v /\ \A g \in Frame \ {f} : pra_vaddr'[g] = pra_vaddr[g]
    BY <1>1 DEF IInv, Types
  <2>2. \A u \in Mapped \ E : pte[u] \in Frame \ {f} /\ pra_vaddr[pte[u]] = u
    BY <1>6 DEF Mapped, IInv, ListIsResident
  <2> QED
    BY <1>1, <1>5, <1>6, <2>1, <2>2
<1>9. free' = Frame \ ToSet(list')
  BY <1>1, <1>2 DEF IInv, ListIsResident
<1>10. curr_ptr' \in ToSet(list') \cup {ListHead}
  BY <1>1, <1>2
<1> QED
  BY <1>2, <1>4, <1>7, <1>8, <1>9, <1>10 DEF ListIsResident

-----------------------------------------------------------------------------

(***************************************************************************)
(* The invariant.                                                          *)
(***************************************************************************)

\* The machine starts with an empty list and all frames free.
LEMMA InitIInv == Init => IInv
<1> SUFFICES ASSUME Init PROVE IInv
  OBVIOUS
<1>1. list \in Seq(Frame) /\ ToSet(list) = {} /\ IsInjective(list)
  BY DEF Init, ToSet, IsInjective
<1>2. Mapped = {}
  BY SwapAssumption DEF Init, Mapped
<1>3. (CHOOSE x \in Value : TRUE) \in Value /\ (CHOOSE v \in Vaddr : TRUE) \in Vaddr
  BY SwapAssumption
<1>4. Types
  BY <1>1, <1>3 DEF Init, Types
<1> QED
  BY <1>1, <1>2, <1>4, SwapAssumption DEF Init, IInv, ListIsResident, FaultsHelp

\* Each step keeps the invariant.
LEMMA NextIInv == IInv /\ [Next]_vars => IInv'
<1> SUFFICES ASSUME IInv, [Next]_vars PROVE IInv'
  OBVIOUS
<1>1. ASSUME NEW v \in Vaddr, Access(v)
      PROVE  IInv'
  <2>1. Types' /\ ListIsResident'
    BY <1>1 DEF Access, IInv, Types, ListIsResident, Mapped
  <2>2. FaultsHelp'
    <3>1. pending' = {v} /\ faults' = 0 /\ Enough(v)' \in {1, 2}
      BY <1>1 DEF Access, Enough
    <3> QED
      BY <3>1, SwapAssumption DEF FaultsHelp
  <2> QED
    BY <2>1, <2>2 DEF IInv
<1>2. ASSUME NEW v \in Vaddr, LoadPage(v)
      PROVE  IInv'
  <2>1. /\ pending = {v} /\ v \notin Mapped
        /\ pending' = pending /\ storing' = storing /\ readonly' = readonly
        /\ faults' = FaultsCounted /\ (v \in readonly \/ v \in readable')
    BY <1>2 DEF LoadPage, Mapped
  <2>2. v \in Mapped'
    BY <1>2, LoadPageEffect DEF Mapped
  <2>3. faults \in 0 .. MaxFaults /\ (Permitted(v) => faults = 0)
    BY <2>1, SwapAssumption DEF IInv, FaultsHelp
  <2>4. FaultsHelp'
    BY <2>1, <2>2, <2>3, SwapAssumption DEF FaultsHelp, FaultsCounted, Permitted, Enough
  <2> QED
    BY <1>2, <2>4, LoadPageKeepsList DEF IInv
<1>3. ASSUME NEW v \in Vaddr, lru_pgfault(v)
      PROVE  IInv'
  <2> DEFINE f == pte[v]
  <2>1. f \in ToSet(list) /\ f \in Frame
    BY <1>3 DEF lru_pgfault, Mapped, IInv, ListIsResident
  <2>2. /\ Without(list, f) \in Seq(Frame) /\ IsInjective(Without(list, f))
        /\ ToSet(Without(list, f)) = ToSet(list) \ {f}
    BY <2>1, RemoveOne DEF Without, IInv, Types, ListIsResident
  <2>3. list' = <<f>> \o Without(list, f)
    BY <1>3 DEF lru_pgfault
  <2>4. list' \in Seq(Frame) /\ IsInjective(list') /\ ToSet(list') = ToSet(list)
    <3> DEFINE q == Without(list, f)
    <3> HIDE DEF q, f
    <3>1. q \in Seq(Frame) /\ IsInjective(q) /\ ToSet(q) = ToSet(list) \ {f} /\ f \in Frame
      BY <2>1, <2>2 DEF q
    <3>2. /\ <<f>> \o q \in Seq(Frame) /\ IsInjective(<<f>> \o q)
          /\ ToSet(<<f>> \o q) = ToSet(q) \cup {f}
      BY <3>1, PushNew
    <3> QED
      BY <2>1, <2>3, <3>1, <3>2 DEF q
  <2>5. Types' /\ ListIsResident'
    BY <1>3, <2>4 DEF lru_pgfault, IInv, Types, ListIsResident, Mapped
  <2>6. /\ pending = {v} /\ v \in Mapped' /\ v \in readable' /\ faults' = FaultsCounted
        /\ pending' = pending /\ storing' = storing /\ readonly' = readonly
        /\ Permitted(v) => v \notin readable
    BY <1>3 DEF lru_pgfault, UnablePageRead, Mapped
  <2>7. /\ faults \in 0 .. MaxFaults
        /\ Permitted(v) => faults <= Enough(v) /\ faults # Enough(v)
    <3>1. FaultsHelp
      BY DEF IInv
    <3> QED
      BY <2>6, <3>1 DEF FaultsHelp
  <2>8. FaultsHelp'
    BY <2>6, <2>7, SwapAssumption DEF FaultsHelp, FaultsCounted, Permitted, Enough
  <2> QED
    BY <2>5, <2>8 DEF IInv
<1>4. ASSUME NEW v \in Vaddr, Complete(v)
      PROVE  IInv'
  <2>1. content' \in [Frame -> Value]
    BY <1>4 DEF Complete, IInv, Types
  <2>2. Types' /\ ListIsResident'
    <3>1. storing' = FALSE
      BY <1>4 DEF Complete
    <3>2. UNCHANGED <<manager, pte, disk, free, list, pra_vaddr, curr_ptr>>
      BY <1>4 DEF Complete
    <3>3. Types'
      BY <2>1, <3>1, <3>2 DEF IInv, Types
    <3> QED
      BY <3>2, <3>3 DEF IInv, ListIsResident, Mapped
  <2>3. FaultsHelp'
    BY <1>4, SwapAssumption DEF Complete, FaultsHelp
  <2> QED
    BY <2>2, <2>3 DEF IInv
<1>5. CASE UNCHANGED vars
  BY <1>5 DEF vars, IInv, Types, ListIsResident, FaultsHelp, Mapped, Permitted, Enough
<1> QED
  BY <1>1, <1>2, <1>3, <1>4, <1>5 DEF Next

\* swap.c and its managers keep the invariant in every run.
THEOREM SwapInvariant == Spec => []IInv
<1> QED
  BY InitIInv, NextIInv, PTL DEF Spec

\* swap_out always finds a page to evict, that page is mapped, and no frame is used twice.
THEOREM ListIsOfResidentPages == Spec => []ListIsResident
<1>1. IInv => ListIsResident
  BY DEF IInv
<1> QED
  BY <1>1, SwapInvariant, PTL

\* After do_pgfault has loaded the page and given back PTE_R, an access that its region
\* permits goes through; one to a writable page never needs both.
THEOREM AccessesComplete == Spec => []FaultsTwiceAtMost
<1>1. IInv => FaultsTwiceAtMost
  <2>1. FaultsHelp => FaultsTwiceAtMost
    <3> SUFFICES ASSUME FaultsHelp, NEW v \in pending, Permitted(v)
                 PROVE  faults <= IF v \in readonly THEN 2 ELSE 1
      BY DEF FaultsTwiceAtMost
    <3> QED
      BY DEF FaultsHelp, Enough
  <2> QED
    BY <2>1 DEF IInv
<1> QED
  BY <1>1, SwapInvariant, PTL

-----------------------------------------------------------------------------

(***************************************************************************)
(* The refinement.                                                         *)
(***************************************************************************)
Touched == {v \in Vaddr : pte[v] # Unmapped}
Mem == [v \in Vaddr |-> IF pte[v] = Unmapped THEN CHOOSE x \in Value : TRUE
                        ELSE IF pte[v] = Swapped THEN disk[v]
                        ELSE content[pte[v]]]

\* A memory that differs in one page.
LEMMA OnePageChanged ==
    ASSUME NEW D, NEW g, NEW h, NEW v \in D, NEW x,
           g = [u \in D |-> g[u]], h = [u \in D |-> h[u]],
           \A u \in D : h[u] = IF u = v THEN x ELSE g[u]
    PROVE  h = [g EXCEPT ![v] = x]
OBVIOUS

\* Mem is a function on the pages, before and after a step.
LEMMA MemIsFunction ==
    Mem = [v \in Vaddr |-> Mem[v]] /\ Mem' = [v \in Vaddr |-> Mem'[v]]
BY DEF Mem

\* What the program sees changes only by its own stores and at the first touch of a page.
LEMMA StepIsMemoryStep ==
    ASSUME IInv, [Next]_vars
    PROVE  Memory!Next \/ UNCHANGED <<pending, storing, Touched, Mem>>
<1>1. ASSUME NEW v \in Vaddr, Access(v)
      PROVE  Memory!Next
  BY <1>1 DEF Access, Touched, Mem, Memory!Next, Memory!Access
<1>2. ASSUME NEW v \in Vaddr, lru_pgfault(v)
      PROVE  UNCHANGED <<pending, storing, Touched, Mem>>
  BY <1>2 DEF lru_pgfault, Touched, Mem
<1>3. ASSUME NEW v \in Vaddr, Complete(v)
      PROVE  Memory!Next
  <2>1. /\ pte' = pte /\ disk' = disk /\ Touched' = Touched
        /\ pending = {v} /\ pending' = {} /\ storing' = FALSE
    BY <1>3 DEF Complete, Touched
  <2>2. CASE ~storing
    <3>1. content' = content /\ v \in Touched /\ storing = FALSE
      BY <1>3, <2>2, SwapAssumption DEF Complete, Mapped, Touched, IInv, Types
    <3>2. Mem' = Mem
      BY <2>1, <3>1 DEF Mem
    <3>3. Memory!Load(v)
      BY <2>1, <2>2, <3>1, <3>2, Zenon DEF Memory!Load, Mem, Touched
    <3> QED
      BY <3>3 DEF Memory!Next
  <2>3. ASSUME storing, NEW x \in Value, content' = [content EXCEPT ![pte[v]] = x]
        PROVE  Memory!Next
    <3>1. v \in Touched /\ pte[v] \in Frame
      BY <1>3, SwapAssumption DEF Complete, Mapped, Touched
    <3>2. \A u \in Vaddr \ {v} : pte[u] \in Frame => pte[u] # pte[v]
      BY <1>3 DEF Complete, Mapped, IInv, ListIsResident
    <3>3. \A u \in Vaddr : Mem'[u] = IF u = v THEN x ELSE Mem[u]
      BY <2>1, <2>3, <3>1, <3>2, SwapAssumption DEF Mem, IInv, Types
    <3>4. Mem' = [Mem EXCEPT ![v] = x]
      BY <3>3, MemIsFunction, OnePageChanged
    <3>5. Memory!Store(v, x)
      BY <2>1, <2>3, <3>1, <3>4 DEF Memory!Store, Touched, Mem
    <3> QED
      BY <3>5 DEF Memory!Next
  <2> QED
    BY <1>3, <2>2, <2>3 DEF Complete
<1>4. ASSUME NEW v \in Vaddr, LoadPage(v)
      PROVE  Memory!Next \/ UNCHANGED <<pending, storing, Touched, Mem>>
  <2>1. PICK f \in Frame, E \in SUBSET Mapped :
             /\ E = {u \in Mapped : pte[u] = f}
             /\ pte' = [u \in Vaddr |-> IF u = v THEN f
                                        ELSE IF u \in E THEN Swapped ELSE pte[u]]
             /\ disk' = SwapfsWrite(E)
             /\ content' = SwapIn(v, f)
    BY <1>4, LoadPageEffect
  <2>2. /\ v \notin Mapped /\ pte[v] \in {Unmapped, Swapped}
        /\ pending = {v} /\ pending' = pending /\ storing' = storing
    BY <1>4 DEF LoadPage, Mapped, IInv, Types
  <2>3. Touched' = Touched \cup {v}
    BY <2>1, SwapAssumption DEF Touched, Mapped
  <2>4. \A u \in Vaddr \ {v} : Mem'[u] = Mem[u]
    <3> TAKE u \in Vaddr \ {v}
    <3>1. CASE u \in E
      <4>1. pte'[u] = Swapped /\ disk'[u] = content[pte[u]] /\ pte[u] \in Frame
        BY <2>1, <3>1 DEF SwapfsWrite, Mapped
      <4> QED
        BY <4>1, SwapAssumption DEF Mem
    <3>2. CASE u \notin E
      <4>1. pte'[u] = pte[u] /\ disk'[u] = disk[u]
        BY <2>1, <3>2 DEF SwapfsWrite
      <4>2. pte[u] \in Frame => content'[pte[u]] = content[pte[u]]
        BY <2>1, <3>2 DEF SwapIn, Mapped, IInv, Types
      <4> QED
        BY <4>1, <4>2 DEF Mem, IInv, Types
    <3> QED
      BY <3>1, <3>2
  <2>5. PICK x \in Value : Mem'[v] = x /\ content'[f] = x
    BY <2>1, SwapAssumption DEF SwapIn, Mem, IInv, Types
  <2>6. CASE pte[v] = Swapped
    <3>1. Mem'[v] = Mem[v]
      BY <2>1, <2>5, <2>6, SwapAssumption DEF SwapIn, Mem, IInv, Types
    <3> QED
      BY <2>2, <2>3, <2>4, <2>6, <3>1, SwapAssumption DEF Mem, Touched
  <2>7. CASE pte[v] = Unmapped
    <3>1. Mem' = [Mem EXCEPT ![v] = x]
      BY <2>4, <2>5, MemIsFunction, OnePageChanged
    <3>2. Memory!FirstTouch(v, x)
      BY <2>2, <2>3, <2>7, <3>1 DEF Memory!FirstTouch, Touched, Mem
    <3> QED
      BY <3>2 DEF Memory!Next
  <2> QED
    BY <2>2, <2>6, <2>7
<1>5. CASE UNCHANGED vars
  BY <1>5 DEF vars, Touched, Mem
<1> QED
  BY <1>1, <1>2, <1>3, <1>4, <1>5 DEF Next

\* No page loses its contents on the way to the disk and back, and no store reaches
\* another page, under any manager.
THEOREM SwapImplementsMemory == Spec => ImplementsMemory
<1>1. Init => Memory!Init
  BY SwapAssumption DEF Init, Memory!Init
<1>2. IInv /\ [Next]_vars => [Memory!Next]_<<pending, storing, Touched, Mem>>
  BY StepIsMemoryStep
<1> QED
  BY <1>1, <1>2, SwapInvariant, PTL DEF Spec, ImplementsMemory, Memory!Spec, Touched, Mem

-----------------------------------------------------------------------------

(***************************************************************************)
(* The order of eviction; for the clock, when no region is read-only.      *)
(***************************************************************************)

\* The i-th entry of the list, from the page whose last fault is oldest to the newest.
Arrived(q, i) == IF manager = "clock" THEN q[i] ELSE q[Len(q) + 1 - i]

\* The list is in the order of the last faults.  The frames whose flag is set are at
\* the end of the clock's list, and the hand is at its start: so the first that is not set,
\* or the first if all are, is the oldest.
Aged(q, pages, owner, flags, hand) ==
    /\ q \in Seq(Frame) /\ pages \in Seq(Vaddr) /\ Len(pages) = Len(q)
    /\ \A i \in 1 .. Len(q) : pages[i] = owner[Arrived(q, i)]
    /\ manager = "clock" =>
          /\ hand = ListHead \/ (q # <<>> /\ hand = q[1])
          /\ \A i, j \in 1 .. Len(q) : i <= j /\ q[i] \in flags => q[j] \in flags

\* With the clock no page that is mapped faults: only map_swappable and the victim change
\* its list.
OldestFirst ==
    /\ manager = "clock" => readonly = {} /\ Mapped \subseteq readable
    /\ Aged(list, faulted, pra_vaddr, visited, curr_ptr)

Ordered == (manager = "clock" => readonly = {}) => OldestFirst

\* Facts about the list that the following proofs share.
LEMMA ListFacts ==
    ASSUME IInv
    PROVE  /\ list \in Seq(Frame) /\ Len(list) \in Nat /\ DOMAIN list = 1 .. Len(list)
           /\ \A i \in 1 .. Len(list) : list[i] \in Frame /\ list[i] \in ToSet(list)
           /\ \A i, j \in 1 .. Len(list) : list[i] = list[j] => i = j
           /\ list # <<>> => 1 \in 1 .. Len(list) /\ Len(list) \in 1 .. Len(list)
           /\ manager \in {"fifo", "clock", "lru"} /\ ListHead \notin Frame
<1>1. list \in Seq(Frame) /\ IsInjective(list)
  BY DEF IInv, Types, ListIsResident
<1>2. DOMAIN list = 1 .. Len(list) /\ Len(list) \in Nat
  BY <1>1
<1>3. \A i \in 1 .. Len(list) : list[i] \in Frame
  BY <1>1
<1>4. list # <<>> => Len(list) > 0
  BY <1>1, EmptySeq
<1>5. \A i, j \in 1 .. Len(list) : list[i] = list[j] => i = j
  BY <1>1, <1>2 DEF IsInjective
<1> QED
  BY <1>1, <1>2, <1>3, <1>4, <1>5, SwapAssumption DEF IInv, Types, ToSet

\* One round of the hand from the start of the list is the list.
LEMMA RoundIsList ==
    ASSUME IInv, OldestFirst, manager = "clock", list # <<>>
    PROVE  \A i \in 1 .. Len(list) : Round[i] = list[i]
<1> DEFINE n == Len(list)
           start == IF curr_ptr = ListHead THEN 1 ELSE Position(curr_ptr)
<1>1. start = 1
  <2>1. CASE curr_ptr = ListHead
    BY <2>1
  <2>2. CASE curr_ptr # ListHead
    <3>1. curr_ptr = list[1]
      BY <2>2 DEF OldestFirst, Aged
    <3>2. \A i \in DOMAIN list : list[i] = list[1] <=> i = 1
      BY ListFacts
    <3> QED
      BY <2>2, <3>1, <3>2, ListFacts DEF Position
  <2> QED
    BY <2>1, <2>2
<1>2. ASSUME NEW i \in 1 .. n
      PROVE  Round[i] = list[i]
  <2>1. Round[i] = list[((start + i - 2) % n) + 1]
    BY <1>2 DEF Round
  <2>2. ((1 + i - 2) % n) + 1 = i
    <3> HIDE DEF n
    <3>1. n \in Nat /\ i \in 1 .. n
      BY <1>2, ListFacts DEF n
    <3>2. 1 + i - 2 = i - 1 /\ i - 1 \in 0 .. n - 1 /\ n > 0
      BY <3>1
    <3>3. (i - 1) % n = i - 1
      BY <3>1, <3>2
    <3> QED
      BY <3>1, <3>2, <3>3
  <2> QED
    BY <1>1, <2>1, <2>2
<1> QED
  BY <1>2

\* Each manager takes the frame of the page whose last fault is oldest.
LEMMA VictimIsOldest ==
    ASSUME IInv, OldestFirst, list # <<>>
    PROVE  /\ Victim = Arrived(list, 1) /\ Victim \in ToSet(list)
           /\ manager = "clock" =>
                 PassedBy(Victim) = IF Victim \in visited THEN ToSet(list) ELSE {}
<1>1. CASE manager # "clock"
  <2>1. Victim = list[Len(list)] /\ Arrived(list, 1) = list[Len(list) + 1 - 1]
    BY <1>1 DEF Victim, Arrived
  <2>2. Len(list) + 1 - 1 = Len(list)
    BY ListFacts
  <2> QED
    BY <1>1, <2>1, <2>2, ListFacts
<1>2. CASE manager = "clock"
  <2> DEFINE unvisited == {i \in DOMAIN list : Round[i] \notin visited}
  <2>1. unvisited = {i \in 1 .. Len(list) : list[i] \notin visited}
    BY <1>2, RoundIsList, ListFacts
  <2>2. 1 \in 1 .. Len(list) /\ Round[1] = list[1]
    BY <1>2, RoundIsList, ListFacts
  <2>3. unvisited # {} => Min(unvisited) = 1
    <3> SUFFICES ASSUME unvisited # {} PROVE Min(unvisited) = 1
      OBVIOUS
    <3>1. unvisited \subseteq Nat /\ unvisited \subseteq 1 .. Len(list)
      BY <2>1
    <3>2. list[1] \notin visited
      <4>1. PICK i \in 1 .. Len(list) : list[i] \notin visited
        BY <2>1
      <4>2. 1 <= i
        BY <4>1
      <4> QED
        BY <1>2, <2>2, <4>1, <4>2 DEF OldestFirst, Aged
    <3>3. 1 \in unvisited
      BY <2>1, <2>2, <3>2
    <3> HIDE DEF unvisited
    <3>4. Min(unvisited) \in 1 .. Len(list) /\ Min(unvisited) <= 1
      BY <3>1, <3>3, LeastOfNat
    <3> QED
      BY <3>4, ListFacts
  <2>4. Victim = list[1]
    <3>1. ClockVictim = Round[IF unvisited = {} THEN 1 ELSE Min(unvisited)]
      BY DEF ClockVictim
    <3> HIDE DEF unvisited
    <3> QED
      BY <1>2, <2>2, <2>3, <3>1 DEF Victim
  <2>5. list[1] \notin visited => PassedBy(list[1]) = {}
    <3>1. \A i \in DOMAIN list : Round[i] = list[1] <=> i = 1
      BY <1>2, RoundIsList, ListFacts
    <3>2. (CHOOSE i \in DOMAIN list : Round[i] = list[1]) = 1
      BY <2>2, <3>1, ListFacts
    <3>3. 1 .. 1 - 1 = {}
      OBVIOUS
    <3> QED
      BY <3>2, <3>3 DEF PassedBy
  <2>6. list[1] \in visited => PassedBy(list[1]) = ToSet(list)
    BY DEF PassedBy
  <2> QED
    BY <1>2, <2>2, <2>4, <2>5, <2>6, ListFacts DEF Arrived
<1> QED
  BY <1>1, <1>2

\* No page is in the history twice.
LEMMA FaultedOnce ==
    ASSUME IInv, OldestFirst
    PROVE  IsInjective(faulted)
<1> DEFINE n == Len(list)
<1>1. /\ n \in Nat /\ Len(faulted) = n /\ DOMAIN faulted = 1 .. n
      /\ \A i \in 1 .. n : faulted[i] = pra_vaddr[Arrived(list, i)]
  BY ListFacts DEF OldestFirst, Aged
<1>2. \A g, h \in ToSet(list) : pra_vaddr[g] = pra_vaddr[h] => g = h
  BY DEF IInv, ListIsResident
<1>3. ASSUME NEW i \in 1 .. n, NEW j \in 1 .. n, faulted[i] = faulted[j]
      PROVE  i = j
  <2>1. n + 1 - i \in 1 .. n /\ n + 1 - j \in 1 .. n
    BY <1>1
  <2>2. Arrived(list, i) \in ToSet(list) /\ Arrived(list, j) \in ToSet(list)
    BY <2>1, ListFacts DEF Arrived
  <2>3. Arrived(list, i) = Arrived(list, j)
    BY <1>1, <1>2, <1>3, <2>2
  <2>4. CASE manager = "clock"
    BY <2>3, <2>4, ListFacts DEF Arrived
  <2>5. CASE manager # "clock"
    <3>1. n + 1 - i = n + 1 - j
      BY <2>1, <2>3, <2>5, ListFacts DEF Arrived
    <3> QED
      BY <1>1, <3>1
  <2> QED
    BY <2>4, <2>5
<1> QED
  BY <1>1, <1>3 DEF IsInjective

\* A page that fifo or lru unlink, wherever it is, leaves the order of the others.
LEMMA PageLeaves ==
    ASSUME IInv, OldestFirst, manager # "clock", NEW v \in Mapped
    PROVE  Aged(RemoveFirst(list, pte[v]), RemoveFirst(faulted, v), pra_vaddr, visited, curr_ptr)
<1> DEFINE n == Len(list)
           f == pte[v]
           q == RemoveFirst(list, f)
           rest == RemoveFirst(faulted, v)
<1>1. /\ list \in Seq(Frame) /\ IsInjective(list) /\ n \in Nat
      /\ faulted \in Seq(Vaddr) /\ Len(faulted) = n
      /\ \A i \in 1 .. n : faulted[i] = pra_vaddr[list[n + 1 - i]]
  BY ListFacts DEF IInv, ListIsResident, OldestFirst, Aged, Arrived
<1>2. f \in ToSet(list) /\ f \in Frame /\ v \in Vaddr /\ pra_vaddr[f] = v
  BY DEF IInv, ListIsResident, Mapped
<1>3. PICK at \in 1 .. n : list[at] = f
  BY <1>2, ListFacts DEF ToSet
<1> DEFINE k == n + 1 - at
<1>4. k \in 1 .. n /\ n + 1 - k = at
  BY <1>1, <1>3
<1>5. faulted[k] = v
  BY <1>1, <1>2, <1>3, <1>4
<1>6. /\ q \in Seq(Frame) /\ Len(q) = n - 1
      /\ \A j \in 1 .. n - 1 : q[j] = IF j < at THEN list[j] ELSE list[j + 1]
  <2>1. /\ list \in Seq(Frame) /\ IsInjective(list) /\ f \in Frame
        /\ at \in 1 .. Len(list) /\ list[at] = f
    BY <1>1, <1>2, <1>3
  <2> HIDE DEF f
  <2> QED
    BY <2>1, RemoveMovesUp
<1>7. /\ rest \in Seq(Vaddr) /\ Len(rest) = n - 1
      /\ \A j \in 1 .. n - 1 : rest[j] = IF j < k THEN faulted[j] ELSE faulted[j + 1]
  <2>1. /\ faulted \in Seq(Vaddr) /\ IsInjective(faulted) /\ v \in Vaddr
        /\ k \in 1 .. Len(faulted) /\ faulted[k] = v
    BY <1>1, <1>2, <1>4, <1>5, FaultedOnce
  <2> HIDE DEF k, n
  <2>2. /\ rest \in Seq(Vaddr) /\ Len(rest) = Len(faulted) - 1
        /\ \A j \in 1 .. Len(faulted) - 1 :
              rest[j] = IF j < k THEN faulted[j] ELSE faulted[j + 1]
    BY <2>1, RemoveMovesUp
  <2> QED
    BY <1>1, <2>2
<1> HIDE DEF q, rest, f
<1>8. ASSUME NEW i \in 1 .. n - 1
      PROVE  rest[i] = pra_vaddr[q[(n - 1) + 1 - i]]
  <2>1. n - i \in 1 .. n - 1 /\ (n - 1) + 1 - i = n - i
    BY <1>1
  <2>2. CASE i < k
    <3>1. ~(n - i < at) /\ (n - i) + 1 = n + 1 - i /\ i \in 1 .. n
      BY <1>1, <1>3, <2>2
    <3>2. rest[i] = faulted[i] /\ q[n - i] = list[(n - i) + 1]
      BY <1>6, <1>7, <2>1, <2>2, <3>1
    <3> QED
      BY <1>1, <2>1, <3>1, <3>2
  <2>3. CASE ~(i < k)
    <3>1. n - i < at /\ n + 1 - (i + 1) = n - i /\ i + 1 \in 1 .. n
      BY <1>1, <1>3, <2>3
    <3>2. rest[i] = faulted[i + 1] /\ q[n - i] = list[n - i]
      BY <1>6, <1>7, <2>1, <2>3, <3>1
    <3> QED
      BY <1>1, <2>1, <3>1, <3>2
  <2> QED
    BY <2>2, <2>3
<1>9. Aged(q, rest, pra_vaddr, visited, curr_ptr)
  BY <1>6, <1>7, <1>8 DEF Aged, Arrived
<1> QED
  BY <1>9 DEF q, rest, f

\* The victim leaves the list, and the hand passes by.
LEMMA VictimLeaves ==
    ASSUME IInv, OldestFirst, list # <<>>
    PROVE  /\ Aged(RemoveFirst(list, Victim), RemoveFirst(faulted, pra_vaddr[Victim]),
                   pra_vaddr, visited \ PassedBy(Victim), AfterInList(Victim))
           /\ pra_vaddr[Victim] = faulted[1]
<1> DEFINE n == Len(list)
           f == Victim
           at == IF manager = "clock" THEN 1 ELSE n
           q == RemoveFirst(list, f)
           w == pra_vaddr[f]
           rest == RemoveFirst(faulted, w)
<1>1. /\ n \in Nat /\ n > 0 /\ at \in 1 .. n /\ list[at] = f /\ f = Arrived(list, 1)
      /\ f \in ToSet(list) /\ f \in Frame
  <2>1. n + 1 - 1 = n /\ n \in Nat /\ n > 0
    BY ListFacts
  <2>2. f = Arrived(list, 1) /\ f \in ToSet(list)
    BY VictimIsOldest
  <2>3. list[at] = f /\ at \in 1 .. n
    BY <2>1, <2>2, ListFacts DEF Arrived
  <2> QED
    BY <2>1, <2>2, <2>3, ListFacts
<1>2. /\ faulted \in Seq(Vaddr) /\ Len(faulted) = n
      /\ \A i \in 1 .. n : faulted[i] = pra_vaddr[Arrived(list, i)]
  BY DEF OldestFirst, Aged
<1> HIDE DEF f, at
<1>3. /\ q \in Seq(Frame) /\ Len(q) = n - 1
      /\ \A j \in 1 .. n - 1 : q[j] = IF j < at THEN list[j] ELSE list[j + 1]
  BY <1>1, RemoveMovesUp DEF IInv, ListIsResident, Types
<1>4. w = faulted[1] /\ 1 \in 1 .. n
  BY <1>1, <1>2
<1>5. /\ rest \in Seq(Vaddr) /\ Len(rest) = n - 1
      /\ \A j \in 1 .. n - 1 : rest[j] = faulted[j + 1]
  <2>1. IsInjective(faulted)
    BY FaultedOnce
  <2>2. w \in Vaddr /\ 1 \in 1 .. Len(faulted) /\ faulted[1] = w
    BY <1>2, <1>4
  <2>3. /\ rest \in Seq(Vaddr) /\ Len(rest) = Len(faulted) - 1
        /\ \A j \in 1 .. Len(faulted) - 1 :
              rest[j] = IF j < 1 THEN faulted[j] ELSE faulted[j + 1]
    BY <1>2, <2>1, <2>2, RemoveMovesUp
  <2> HIDE DEF rest
  <2> QED
    BY <1>1, <1>2, <2>3
<1>6. ASSUME NEW i \in 1 .. n - 1
      PROVE  Arrived(q, i) = Arrived(list, i + 1)
  <2> HIDE DEF q
  <2>1. CASE manager = "clock"
    <3>1. at = 1 /\ ~(i < 1)
      BY <1>1, <2>1 DEF at
    <3> QED
      BY <1>3, <2>1, <3>1 DEF Arrived
  <2>2. CASE manager # "clock"
    <3>1. at = n /\ n - i \in 1 .. n - 1 /\ n - i < n /\ (n - 1) + 1 - i = n - i
          /\ n + 1 - (i + 1) = n - i
      BY <1>1, <2>2 DEF at
    <3>2. q[n - i] = list[n - i]
      BY <1>3, <3>1
    <3>3. Arrived(q, i) = q[n - i] /\ Arrived(list, i + 1) = list[n - i]
      BY <1>3, <2>2, <3>1 DEF Arrived
    <3> QED
      BY <3>2, <3>3
  <2> QED
    BY <2>1, <2>2
<1> HIDE DEF q, rest, w
<1>7. ASSUME NEW i \in 1 .. n - 1
      PROVE  rest[i] = pra_vaddr[Arrived(q, i)]
  <2>1. i + 1 \in 1 .. n
    BY <1>1
  <2> QED
    BY <1>2, <1>5, <1>6, <2>1
<1>8. ASSUME manager = "clock"
      PROVE  /\ AfterInList(f) = ListHead \/ (q # <<>> /\ AfterInList(f) = q[1])
             /\ \A i, j \in 1 .. n - 1 :
                   i <= j /\ q[i] \in visited \ PassedBy(f) => q[j] \in visited \ PassedBy(f)
  <2>1. at = 1 /\ f = list[1] /\ \A j \in 1 .. n - 1 : q[j] = list[j + 1] /\ j + 1 \in 1 .. n
    <3>1. at = 1
      BY <1>8 DEF at
    <3>2. \A j \in 1 .. n - 1 : ~(j < 1) /\ j + 1 \in 1 .. n
      BY <1>1
    <3> QED
      BY <1>1, <1>3, <3>1, <3>2
  <2>2. AfterInList(f) = ListHead \/ (q # <<>> /\ AfterInList(f) = q[1])
    <3>1. CASE n = 1
      BY <2>1, <3>1 DEF AfterInList
    <3>2. CASE n # 1
      <4>1. 1 \in 1 .. n - 1 /\ n \in 1 .. n /\ 1 \in 1 .. n
        <5> HIDE DEF n
        <5>1. n \in Nat /\ n > 0
          BY <1>1
        <5> QED
          BY <3>2, <5>1
      <4>2. \A i \in 1 .. n : list[i] = f <=> i = 1
        BY <2>1, <4>1, ListFacts
      <4>3. Position(f) = 1 /\ f # list[n]
        BY <3>2, <4>1, <4>2, ListFacts DEF Position
      <4>4. q[1] = list[1 + 1] /\ q # <<>>
        BY <1>3, <2>1, <4>1
      <4> QED
        BY <4>3, <4>4 DEF AfterInList
    <3> QED
      BY <3>1, <3>2
  <2>3. ASSUME NEW i \in 1 .. n - 1, NEW j \in 1 .. n - 1, i <= j,
               q[i] \in visited \ PassedBy(f)
        PROVE  q[j] \in visited \ PassedBy(f)
    <3>1. q[i] \in ToSet(list) /\ i + 1 \in 1 .. n /\ j + 1 \in 1 .. n /\ i + 1 <= j + 1
      BY <1>1, <2>1, <2>3, ListFacts
    <3>2. PassedBy(f) = {}
      BY <1>8, <2>3, <3>1, VictimIsOldest DEF f
    <3>3. list[i + 1] \in visited
      BY <2>1, <2>3
    <3>4. list[j + 1] \in visited
      BY <1>8, <3>1, <3>3 DEF OldestFirst, Aged
    <3> QED
      BY <2>1, <3>2, <3>4
  <2> QED
    BY <2>2, <2>3
<1>9. Aged(q, rest, pra_vaddr, visited \ PassedBy(f), AfterInList(f))
  BY <1>3, <1>5, <1>7, <1>8 DEF Aged
<1> QED
  BY <1>4, <1>9 DEF f, q, rest, w

\* map_swappable links the page that comes at the end of that order.
LEMMA PageComes ==
    ASSUME NEW q, NEW pages, NEW flags, NEW hand, Aged(q, pages, pra_vaddr, flags, hand),
           NEW f \in Frame, NEW v \in Vaddr, f \notin ToSet(q),
           pra_vaddr \in [Frame -> Vaddr]
    PROVE  Aged(MapSwappable(q, f), Append(pages, v), [pra_vaddr EXCEPT ![f] = v],
                flags \cup {f}, hand)
<1> DEFINE r == MapSwappable(q, f)
           all == Append(pages, v)
           owner == [pra_vaddr EXCEPT ![f] = v]
           n == Len(q)
<1>1. /\ q \in Seq(Frame) /\ pages \in Seq(Vaddr) /\ Len(pages) = n /\ n \in Nat
      /\ \A i \in 1 .. n : pages[i] = pra_vaddr[Arrived(q, i)]
      /\ \A i \in 1 .. n : q[i] \in Frame /\ q[i] # f
  <2>1. q \in Seq(Frame) /\ \A i \in 1 .. n : pages[i] = pra_vaddr[Arrived(q, i)]
    BY DEF Aged
  <2>2. DOMAIN q = 1 .. n /\ \A i \in 1 .. n : q[i] \in Frame
    BY <2>1
  <2> QED
    BY <2>1, <2>2 DEF Aged, ToSet
<1>2. /\ all \in Seq(Vaddr) /\ Len(all) = n + 1 /\ all[n + 1] = v
      /\ \A i \in 1 .. n : all[i] = pages[i]
  BY <1>1, AppendProperties
<1>3. owner[f] = v /\ \A g \in Frame : g # f => owner[g] = pra_vaddr[g]
  OBVIOUS
<1> HIDE DEF all, owner
<1>4. CASE manager = "clock"
  <2>1. /\ r \in Seq(Frame) /\ Len(r) = n + 1 /\ r[n + 1] = f
        /\ \A i \in 1 .. n : r[i] = q[i]
    BY <1>1, <1>4, AppendProperties DEF MapSwappable
  <2> HIDE DEF r
  <2>2. ASSUME NEW i \in 1 .. n + 1
        PROVE  all[i] = owner[Arrived(r, i)]
    <3>1. Arrived(r, i) = r[i]
      BY <1>4 DEF Arrived
    <3>2. CASE i = n + 1
      BY <1>2, <1>3, <2>1, <3>1, <3>2
    <3>3. CASE i # n + 1
      <4>1. i \in 1 .. n
        BY <1>1, <3>3
      <4>2. Arrived(q, i) = q[i]
        BY <1>4 DEF Arrived
      <4> QED
        BY <1>1, <1>2, <1>3, <2>1, <3>1, <4>1, <4>2
    <3> QED
      BY <3>2, <3>3
  <2>3. hand = ListHead \/ (r # <<>> /\ hand = r[1])
    <3>1. CASE hand = ListHead
      BY <3>1
    <3>2. CASE hand # ListHead
      <4>1. q # <<>> /\ hand = q[1]
        BY <1>4, <3>2 DEF Aged
      <4>2. 1 \in 1 .. n
        BY <1>1, <4>1, EmptySeq
      <4>3. r # <<>>
        BY <1>1, <2>1
      <4> QED
        BY <2>1, <4>1, <4>2, <4>3
    <3> QED
      BY <3>1, <3>2
  <2>4. ASSUME NEW i \in 1 .. n + 1, NEW j \in 1 .. n + 1, i <= j,
               r[i] \in flags \cup {f}
        PROVE  r[j] \in flags \cup {f}
    <3>1. CASE j = n + 1
      BY <2>1, <3>1
    <3>2. CASE j # n + 1
      <4>1. i \in 1 .. n /\ j \in 1 .. n
        BY <1>1, <2>4, <3>2
      <4>2. q[i] \in flags
        BY <1>1, <2>1, <2>4, <4>1
      <4>3. q[j] \in flags
        BY <1>4, <2>4, <4>1, <4>2 DEF Aged
      <4> QED
        BY <2>1, <4>1, <4>3
    <3> QED
      BY <3>1, <3>2
  <2> QED
    BY <1>2, <2>1, <2>2, <2>3, <2>4 DEF Aged, r, all, owner
<1>5. CASE manager # "clock"
  <2>1. /\ r \in Seq(Frame) /\ Len(r) = n + 1
        /\ \A i \in 1 .. n + 1 : r[i] = IF i = 1 THEN f ELSE q[i - 1]
    BY <1>1, <1>5, ConcatProperties DEF MapSwappable
  <2> HIDE DEF r
  <2>2. ASSUME NEW i \in 1 .. n + 1
        PROVE  all[i] = owner[Arrived(r, i)]
    <3>1. Arrived(r, i) = r[(n + 1) + 1 - i]
      BY <1>5, <2>1 DEF Arrived
    <3>2. CASE i = n + 1
      <4>1. (n + 1) + 1 - i = 1 /\ 1 \in 1 .. n + 1
        BY <1>1, <3>2
      <4> QED
        BY <1>2, <1>3, <2>1, <3>1, <3>2, <4>1
    <3>3. CASE i # n + 1
      <4>1. /\ i \in 1 .. n /\ (n + 1) + 1 - i \in 1 .. n + 1 /\ (n + 1) + 1 - i # 1
            /\ ((n + 1) + 1 - i) - 1 = n + 1 - i /\ n + 1 - i \in 1 .. n
        BY <1>1, <3>3
      <4>2. Arrived(q, i) = q[n + 1 - i]
        BY <1>5 DEF Arrived
      <4>3. Arrived(r, i) = q[n + 1 - i]
        BY <2>1, <3>1, <4>1
      <4>4. all[i] = pra_vaddr[q[n + 1 - i]]
        BY <1>1, <1>2, <4>1, <4>2
      <4> QED
        BY <1>1, <1>3, <4>1, <4>3, <4>4
    <3> QED
      BY <3>2, <3>3
  <2> QED
    BY <1>2, <1>5, <2>1, <2>2 DEF Aged, r, all, owner
<1> QED
  BY <1>4, <1>5

\* A fault that loads a page evicts the oldest, or nothing, and keeps the order.
LEMMA LoadPageOrdered ==
    ASSUME IInv, OldestFirst, NEW v \in Vaddr, LoadPage(v)
    PROVE  /\ OldestFirst'
           /\ \A u \in Mapped : pte'[u] = Swapped => u = faulted[1]
<1> DEFINE f == IF free = {} THEN Victim ELSE Min(free)
           evicted == IF free = {} THEN {pra_vaddr[f]} ELSE {}
           q == Without(list, f)
           rest == IF free = {} THEN RemoveFirst(faulted, pra_vaddr[f]) ELSE faulted
           flags == IF free = {} THEN visited \ PassedBy(f) ELSE visited
           hand == IF free = {} THEN AfterInList(f) ELSE curr_ptr
<1>1. /\ v \notin Mapped /\ manager' = manager /\ readonly' = readonly
      /\ pte' = [u \in Vaddr |-> IF u = v THEN f
                                 ELSE IF u \in evicted THEN Swapped ELSE pte[u]]
      /\ readable' = (readable \ evicted) \cup ({v} \ readonly)
      /\ list' = MapSwappable(q, f) /\ faulted' = Append(rest, v)
      /\ pra_vaddr' = [pra_vaddr EXCEPT ![f] = v]
      /\ manager = "clock" => visited' = flags \cup {f} /\ curr_ptr' = hand
  BY DEF LoadPage, Mapped
<1>2. f \in Frame /\ pra_vaddr \in [Frame -> Vaddr] /\ Swapped \notin Frame
  <2>1. free # {} => f \in Frame
    BY LeastOfNat, SwapAssumption DEF IInv, Types
  <2>2. free = {} => ToSet(list) = Frame
    BY SwapAssumption DEF IInv, Types, ListIsResident, ToSet
  <2>3. free = {} => f \in Frame
    <3>1. list = <<>> => ToSet(list) = {}
      BY DEF ToSet
    <3> QED
      BY <2>2, <3>1, VictimIsOldest, SwapAssumption
  <2> QED
    BY <2>1, <2>3, SwapAssumption DEF IInv, Types
<1>3. /\ Aged(q, rest, pra_vaddr, flags, hand) /\ f \notin ToSet(q)
      /\ evicted \subseteq {faulted[1]}
  <2>1. CASE free = {}
    <3>1. list # <<>>
      BY <2>1, SwapAssumption DEF IInv, Types, ListIsResident, ToSet
    <3>2. f \notin ToSet(q)
      <4> HIDE DEF f
      <4>1. list \in Seq(Frame) /\ IsInjective(list)
        BY DEF IInv, Types, ListIsResident
      <4>2. ToSet(RemoveFirst(list, f)) = ToSet(list) \ {f}
        BY <1>2, <4>1, RemoveOne
      <4> QED
        BY <4>2 DEF Without
    <3> QED
      BY <2>1, <3>1, <3>2, VictimLeaves DEF Without
  <2>2. CASE free # {}
    <3>1. f \in free
      BY <2>2, LeastOfNat, SwapAssumption DEF IInv, Types
    <3>2. f \notin ToSet(list)
      BY <3>1 DEF IInv, ListIsResident
    <3>3. q = list
      BY <3>2, ListFacts DEF Without, RemoveFirst
    <3> QED
      BY <2>2, <3>2, <3>3 DEF OldestFirst
  <2> QED
    BY <2>1, <2>2
<1> HIDE DEF f, q, rest, flags, hand, evicted
<1>4. Aged(list', faulted', pra_vaddr', flags \cup {f}, hand)
  BY <1>1, <1>2, <1>3, PageComes
<1>5. Aged(list, faulted, pra_vaddr, visited, curr_ptr)'
  BY <1>1, <1>4 DEF Aged, Arrived
<1>6. ASSUME manager = "clock", NEW u \in Mapped'
      PROVE  u \in readable'
  <2>1. CASE u = v
    BY <1>1, <1>6, <2>1 DEF OldestFirst
  <2>2. CASE u # v
    <3>1. u \in Vaddr /\ pte'[u] \in Frame
      BY DEF Mapped
    <3>2. u \notin evicted /\ pte'[u] = pte[u]
      BY <1>1, <1>2, <2>2, <3>1
    <3>3. u \in Mapped
      BY <3>1, <3>2 DEF Mapped
    <3> QED
      BY <1>1, <1>6, <3>2, <3>3 DEF OldestFirst
  <2> QED
    BY <2>1, <2>2
<1>7. ASSUME NEW u \in Mapped, pte'[u] = Swapped
      PROVE  u = faulted[1]
  <2>1. u \in Vaddr /\ pte[u] \in Frame /\ u # v
    BY <1>1 DEF Mapped
  <2>2. u \in evicted
    BY <1>1, <1>2, <1>7, <2>1
  <2> QED
    BY <1>3, <2>2
<1> QED
  BY <1>1, <1>5, <1>6, <1>7 DEF OldestFirst

\* A fault on a mapped page moves it to the end of the order.
LEMMA PgfaultOrdered ==
    ASSUME IInv, OldestFirst, NEW v \in Vaddr, lru_pgfault(v)
    PROVE  OldestFirst'
<1> DEFINE f == pte[v]
           q == Without(list, f)
<1>1. /\ manager' = manager /\ pte' = pte /\ pra_vaddr' = pra_vaddr
      /\ visited' = visited /\ curr_ptr' = curr_ptr
      /\ list' = <<f>> \o q /\ faulted' = Append(RemoveFirst(faulted, v), v)
  BY DEF lru_pgfault
<1>2. v \in Mapped /\ f \in Frame /\ manager # "clock"
  BY DEF lru_pgfault, Mapped, OldestFirst, Permitted
<1>3. /\ pra_vaddr[f] = v /\ pra_vaddr \in [Frame -> Vaddr]
      /\ list \in Seq(Frame) /\ IsInjective(list)
  BY <1>2 DEF IInv, Types, ListIsResident
<1>4. [pra_vaddr EXCEPT ![f] = v] = pra_vaddr
  BY <1>2, <1>3
<1>5. Aged(q, RemoveFirst(faulted, v), pra_vaddr, visited, curr_ptr)
  BY <1>2, PageLeaves DEF Without
<1>6. f \notin ToSet(q)
  BY <1>2, <1>3, RemoveOne DEF Without
<1>7. MapSwappable(q, f) = <<f>> \o q
  BY <1>2 DEF MapSwappable
<1> HIDE DEF f, q
<1>8. Aged(MapSwappable(q, f), Append(RemoveFirst(faulted, v), v),
           [pra_vaddr EXCEPT ![f] = v], visited \cup {f}, curr_ptr)
  BY <1>2, <1>3, <1>5, <1>6, PageComes
<1> QED
  BY <1>1, <1>2, <1>4, <1>7, <1>8 DEF OldestFirst, Aged, Arrived

\* The order is there from the start, each step keeps it, and evicts by it.
LEMMA NextOrdered ==
    ASSUME IInv, Ordered, [Next]_vars
    PROVE  /\ Ordered'
           /\ (manager = "clock" => readonly = {}) =>
                 \A v \in Mapped : pte'[v] = Swapped => v = faulted[1]
<1>1. readonly' = readonly /\ manager' = manager
  BY DEF Next, Access, LoadPage, lru_pgfault, Complete, vars
<1> SUFFICES ASSUME manager = "clock" => readonly = {}
             PROVE  OldestFirst' /\ \A v \in Mapped : pte'[v] = Swapped => v = faulted[1]
  BY <1>1 DEF Ordered
<1>2. OldestFirst
  BY DEF Ordered
<1>3. ASSUME UNCHANGED <<manager, readonly, pte, readable, list, faulted, pra_vaddr,
                         visited, curr_ptr>>
      PROVE  OldestFirst' /\ \A v \in Mapped : pte'[v] = Swapped => v = faulted[1]
  <2>1. OldestFirst'
    BY <1>2, <1>3 DEF OldestFirst, Aged, Arrived, Mapped
  <2>2. \A v \in Mapped : pte'[v] # Swapped
    BY <1>3, SwapAssumption DEF Mapped
  <2> QED
    BY <2>1, <2>2
<1>4. CASE UNCHANGED vars
  BY <1>3, <1>4 DEF vars
<1>5. CASE \E v \in Vaddr : Access(v) \/ Complete(v)
  BY <1>3, <1>5 DEF Access, Complete
<1>6. ASSUME NEW v \in Vaddr, lru_pgfault(v)
      PROVE  OldestFirst' /\ \A u \in Mapped : pte'[u] = Swapped => u = faulted[1]
  <2>1. \A u \in Mapped : pte'[u] # Swapped
    BY <1>6, SwapAssumption DEF lru_pgfault, Mapped
  <2> QED
    BY <1>2, <1>6, <2>1, PgfaultOrdered
<1>7. CASE \E v \in Vaddr : LoadPage(v)
  BY <1>2, <1>7, LoadPageOrdered
<1> QED
  BY <1>4, <1>5, <1>6, <1>7 DEF Next

LEMMA InitOrdered == Init => Ordered
<1> SUFFICES ASSUME Init, manager = "clock" => readonly = {}
             PROVE  OldestFirst
  BY DEF Ordered
<1>1. Mapped = {}
  BY SwapAssumption DEF Init, Mapped
<1>2. Len(list) = 0 /\ list \in Seq(Frame) /\ faulted \in Seq(Vaddr) /\ Len(faulted) = 0
  BY DEF Init
<1> QED
  BY <1>1, <1>2 DEF Init, OldestFirst, Aged

\* swap_out_victim of fifo and lru evicts the page whose last fault is oldest, and so does,
\* without read-only regions, that of the clock: it never gives a second chance.
THEOREM OldestPageLeaves == Spec => EvictsOldest
<1>1. Init => IInv /\ Ordered
  BY InitIInv, InitOrdered
<1>2. IInv /\ Ordered /\ [Next]_vars => IInv' /\ Ordered'
  BY NextIInv, NextOrdered
<1>3. IInv /\ Ordered /\ [Next]_vars =>
         [(manager = "clock" => readonly = {}) =>
             \A v \in Mapped : pte'[v] = Swapped => v = faulted[1]]_vars
  BY NextOrdered
<1> QED
  BY <1>1, <1>2, <1>3, PTL DEF Spec, EvictsOldest
=============================================================================
