-------------------------------- MODULE Swap --------------------------------
(***************************************************************************)
(* Page replacement of lab3: do_pgfault of vmm.c, swap_in and swap_out of  *)
(* swap.c, alloc_pages of pmm.c and the managers of swap_fifo.c,           *)
(* swap_clock.c and swap_lru.c.  One mm is in use (check_mm_struct).       *)
(* A page fault is handled with interrupts off, so it is one step.         *)
(***************************************************************************)
EXTENDS Integers, SequencesExt

CONSTANTS
    Vaddr,          \* the pages of the address space
    Frame,          \* the page frames left for them
    Value,          \* contents of a page
    Regions,        \* the sets of pages that may lie in regions without VM_WRITE
    Unmapped,       \* the page table entry 0
    Swapped,        \* an entry (vaddr / PGSIZE + 1) << 8: the page is on disk
    ListHead,       \* &pra_list_head
    MaxFaults       \* faults of one access are counted up to this

ASSUME SwapAssumption ==
    /\ Frame # {} /\ Frame \subseteq Nat /\ Value # {} /\ Vaddr # {}
    /\ Regions \subseteq SUBSET Vaddr
    /\ {Unmapped, Swapped, ListHead} \cap Frame = {} /\ Unmapped # Swapped
    /\ MaxFaults \in Nat /\ MaxFaults > 2

VARIABLES
    manager,        \* the swap manager that sm points to
    readonly,       \* the pages of regions without VM_WRITE
    pending,        \* the page of an access under way: at most one
    storing,        \* whether that access is a store
    faults,         \* history: how often it has faulted
    pte,            \* what a page is mapped to
    readable,       \* the mapped pages whose entry has PTE_R
    stale,          \* those that lost PTE_R while the TLB may still have it
    content,        \* what the frames hold
    disk,           \* what the swap device holds for each page
    free,           \* the frames of the free list of the frame manager
    list,           \* pra_list_head, from its next to its prev
    visited,        \* the frames whose visited is 1
    curr_ptr,       \* the hand of the clock
    pra_vaddr,      \* field of struct Page
    faulted         \* history: the mapped pages in the order of their last faults

vars == <<manager, readonly, pending, storing, faults, pte, readable, stale, content,
          disk, free, list, visited, curr_ptr, pra_vaddr, faulted>>

Mapped == {v \in Vaddr : pte[v] \in Frame}

\* The entry of a page in a region without VM_WRITE never has PTE_W.
Permitted(v) == storing => v \notin readonly

FaultsCounted == IF faults = MaxFaults THEN faults ELSE faults + 1

\* Mutant of Without: the entry stays linked.
Without_Linked(seq, e) == seq

\* list_del
Without(seq, e) == RemoveFirst(seq, e)

-----------------------------------------------------------------------------

(***************************************************************************)
(* The clock.  The hand clears the flag of every visited page it passes    *)
(* and takes out the first that is not; if all are visited it comes round. *)
(***************************************************************************)
Position(f) == CHOOSE i \in DOMAIN list : list[i] = f

Round ==
    LET n == Len(list)
        start == IF curr_ptr = ListHead THEN 1 ELSE Position(curr_ptr)
    IN [i \in 1 .. n |-> list[((start + i - 2) % n) + 1]]

ClockVictim ==
    LET unvisited == {i \in DOMAIN list : Round[i] \notin visited} IN
    Round[IF unvisited = {} THEN 1 ELSE Min(unvisited)]

PassedBy(f) ==
    IF f \in visited THEN ToSet(list)
    ELSE {Round[i] : i \in 1 .. (CHOOSE i \in DOMAIN list : Round[i] = f) - 1}

AfterInList(f) == IF f = list[Len(list)] THEN ListHead ELSE list[Position(f) + 1]

(***************************************************************************)
(* swap_out_victim: fifo and lru take the last entry of the list.          *)
(***************************************************************************)
Victim == IF manager = "clock" THEN ClockVictim ELSE list[Len(list)]

\* Mutant of MapSwappable: the clock inserts behind the head as well.
MapSwappable_Front(seq, f) == <<f>> \o seq

(***************************************************************************)
(* map_swappable: fifo and lru insert behind the head, the clock before.   *)
(***************************************************************************)
MapSwappable(seq, f) == IF manager = "clock" THEN Append(seq, f) ELSE <<f>> \o seq

-----------------------------------------------------------------------------

(***************************************************************************)
(* swap_out writes every victim: there is no dirty bit.                    *)
(***************************************************************************)
SwapfsWrite(evicted) ==
    [v \in Vaddr |-> IF v \in evicted THEN content[pte[v]] ELSE disk[v]]

\* Mutant of SwapIn: the slot is that of the page that had the frame before.
SwapIn_LastSlot(v, f) ==
    IF pte[v] = Swapped THEN [content EXCEPT ![f] = disk[pra_vaddr[f]]] ELSE content

(***************************************************************************)
(* swap_in reads the slot that the entry names.  The frame of a page that  *)
(* was never mapped keeps what it held.                                    *)
(***************************************************************************)
SwapIn(v, f) == IF pte[v] = Swapped THEN [content EXCEPT ![f] = disk[v]] ELSE content

(***************************************************************************)
(* do_pgfault on a page that is not mapped.  alloc_page finds a free frame *)
(* or makes swap_out evict one.  A store to a page of a region without     *)
(* VM_WRITE is not refused.  page_insert and swap_out flush the TLB.       *)
(***************************************************************************)
LoadPage(v) ==
    LET evicts == free = {}
        f == IF evicts THEN Victim ELSE Min(free)
        evicted == IF evicts THEN {pra_vaddr[f]} ELSE {}
    IN  /\ pending = {v} /\ pte[v] \notin Frame
        /\ pte' = [u \in Vaddr |-> IF u = v THEN f
                                   ELSE IF u \in evicted THEN Swapped ELSE pte[u]]
        /\ readable' = (readable \ evicted) \cup ({v} \ readonly)
        /\ stale' = {}
        /\ disk' = SwapfsWrite(evicted)
        /\ content' = SwapIn(v, f)
        /\ free' = free \ {f}
        /\ list' = MapSwappable(Without(list, f), f)
        /\ visited' = IF manager # "clock" THEN visited
                      ELSE IF evicts THEN (visited \ PassedBy(f)) \cup {f}
                      ELSE visited \cup {f}
        /\ curr_ptr' = IF manager = "clock" /\ evicts THEN AfterInList(f) ELSE curr_ptr
        /\ pra_vaddr' = [pra_vaddr EXCEPT ![f] = v]
        /\ faulted' = Append(IF evicts THEN RemoveFirst(faulted, pra_vaddr[f]) ELSE faulted, v)
        /\ faults' = FaultsCounted
        /\ UNCHANGED <<manager, readonly, pending, storing>>

\* Mutant of UnablePageRead: it comes after PTE_R is set, not before.
UnablePageRead_After(v) == {}

(***************************************************************************)
(* do_pgfault on a mapped page: lru_pgfault, whatever the manager and the  *)
(* error_code.  It gives back PTE_R, also for a store that lacks PTE_W.    *)
(***************************************************************************)
UnablePageRead(v) == {v}

lru_pgfault(v) ==
    /\ pending = {v} /\ pte[v] \in Frame /\ (v \in readable => ~Permitted(v))
    /\ readable' = UnablePageRead(v)
    /\ stale' = (stale \cup readable) \ {v}
    /\ list' = <<pte[v]>> \o Without(list, pte[v])
    /\ faulted' = Append(RemoveFirst(faulted, v), v)
    /\ faults' = FaultsCounted
    /\ UNCHANGED <<manager, readonly, pending, storing, pte, content, disk, free,
                   visited, curr_ptr, pra_vaddr>>

-----------------------------------------------------------------------------

(***************************************************************************)
(* The program.  An access that faults is retried when the handler is      *)
(* done.  Whether a translation that lost PTE_R is still in the TLB is up  *)
(* to the machine, for unable_page_read does not flush it.                 *)
(***************************************************************************)
Access(v) ==
    /\ pending = {}
    /\ pending' = {v} /\ storing' \in BOOLEAN /\ faults' = 0
    /\ UNCHANGED <<manager, readonly, pte, readable, stale, content, disk, free,
                   list, visited, curr_ptr, pra_vaddr, faulted>>

Complete(v) ==
    /\ pending = {v} /\ v \in Mapped /\ v \in readable \cup stale /\ Permitted(v)
    /\ pending' = {} /\ storing' = FALSE /\ faults' = 0
    /\ IF storing THEN \E x \in Value : content' = [content EXCEPT ![pte[v]] = x]
       ELSE UNCHANGED content
    /\ UNCHANGED <<manager, readonly, pte, readable, stale, disk, free, list,
                   visited, curr_ptr, pra_vaddr, faulted>>

Init ==
    /\ manager \in {"fifo", "clock", "lru"}
    /\ readonly \in Regions
    /\ pending = {} /\ storing = FALSE /\ faults = 0
    /\ readable = {} /\ stale = {} /\ visited = {}
    /\ pte = [v \in Vaddr |-> Unmapped]
    /\ content = [f \in Frame |-> CHOOSE x \in Value : TRUE]
    /\ disk = [v \in Vaddr |-> CHOOSE x \in Value : TRUE]
    /\ free = Frame
    /\ list = <<>> /\ faulted = <<>>
    /\ curr_ptr = ListHead
    /\ pra_vaddr = [f \in Frame |-> CHOOSE v \in Vaddr : TRUE]

Next == \E v \in Vaddr : Access(v) \/ LoadPage(v) \/ lru_pgfault(v) \/ Complete(v)

Spec == Init /\ [][Next]_vars

-----------------------------------------------------------------------------

(***************************************************************************)
(* The list of the manager holds exactly the frames of the mapped pages,   *)
(* each once, and each knows its page; the others are free; the hand is on *)
(* the list.  Violated, swap_out would fail its assertion or give a frame  *)
(* away twice.                                                             *)
(***************************************************************************)
ListIsResident ==
    /\ ToSet(list) = {pte[v] : v \in Mapped}
    /\ IsInjective(list)
    /\ \A v \in Mapped : pra_vaddr[pte[v]] = v
    /\ free = Frame \ ToSet(list)
    /\ curr_ptr \in ToSet(list) \cup {ListHead}

(***************************************************************************)
(* The page evicted is the one whose last fault was longest ago.  Without  *)
(* read-only regions that is the page that came first, under each of the   *)
(* managers: the clock never gives a second chance, for nothing sets       *)
(* visited after map_swappable; and lru never learns of a use, for PTE_R   *)
(* is taken only in a fault on a mapped page, and there is none.  With     *)
(* such regions lru_pgfault moves pages on the list, which fifo and lru    *)
(* read from its end; the clock takes what has moved for the oldest.       *)
(***************************************************************************)
EvictsOldest ==
    [][(manager = "clock" => readonly = {}) =>
           \A v \in Mapped : pte'[v] = Swapped => v = faulted[1]]_vars

(***************************************************************************)
(* An access that the region permits completes after few faults: one that  *)
(* loads the page or gives back PTE_R; both for a load from a region       *)
(* without VM_WRITE, whose pages come without PTE_R.  A store to such a    *)
(* region is no such access: it faults for ever (see SwapExpected).        *)
(***************************************************************************)
FaultsTwiceAtMost ==
    \A v \in pending : Permitted(v) => faults <= IF v \in readonly THEN 2 ELSE 1

(***************************************************************************)
(* The program sees a plain memory: no page loses its contents on the way  *)
(* to the disk and back, and only its own stores change one.               *)
(***************************************************************************)
Memory == INSTANCE PlainMemory WITH
    touched <- {v \in Vaddr : pte[v] # Unmapped},
    mem <- [v \in Vaddr |-> IF pte[v] = Unmapped THEN CHOOSE x \in Value : TRUE
                            ELSE IF pte[v] = Swapped THEN disk[v]
                            ELSE content[pte[v]]]

ImplementsMemory == Memory!Spec
=============================================================================
