----------------------------- MODULE SwapExpected -----------------------------
(***************************************************************************)
(* What comments of lab3 say of page replacement and its code does not do: *)
(* TLC finds both properties violated (SwapStores.cfg, SwapUse.cfg).       *)
(***************************************************************************)
EXTENDS Swap

VARIABLE used       \* history: the mapped pages in the order of their last uses

UseInit == Init /\ used = <<>>

UseNext ==
    /\ Next
    /\ used' = LET resident == SelectSeq(used, LAMBDA v : pte'[v] \in Frame) IN
               IF pending' = {} THEN Append(RemoveFirst(resident, CHOOSE v \in pending : TRUE),
                                            CHOOSE v \in pending : TRUE)
               ELSE resident

UseSpec == UseInit /\ [][UseNext]_<<vars, used>>

(***************************************************************************)
(* "The last element of the list, that is, the least used page"            *)
(* (swap_lru.c:36), of the LRU algorithm that lab3.md asks for.  But a     *)
(* use of a page that is mapped and readable leaves no trace.              *)
(***************************************************************************)
EvictsLeastUsed ==
    [][manager = "lru" /\ readonly = {} =>
           \A v \in Mapped : pte'[v] = Swapped => v = used[1]]_<<vars, used>>

\* The program runs on, and each of its faults is handled.
FairUseSpec == UseSpec /\ WF_<<vars, used>>(UseNext)

(***************************************************************************)
(* The accesses for which do_pgfault shall "continue process" contain no   *)
(* first write to a page that is not writable (vmm.c:350-355): one would   *)
(* have to fail.  But VM_WRITE is never tested against the error_code; the *)
(* page is loaded, and the store faults again and again, without failing   *)
(* or completing.                                                          *)
(***************************************************************************)
StoresEnd == \A v \in Vaddr : pending = {v} /\ storing ~> pending = {}
=============================================================================
