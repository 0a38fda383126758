----------------------------- MODULE PlainMemory -----------------------------
(***************************************************************************)
(* What page replacement promises the program whose pages it moves: a      *)
(* memory as large as its address space.  The first access to a page finds *)
(* whatever its frame held before; from then on only a store to the page   *)
(* changes it.                                                             *)
(***************************************************************************)
CONSTANTS Vaddr, Value

VARIABLES
    pending,        \* the page of an access under way: at most one
    storing,        \* whether it is a store
    touched,        \* the pages that were accessed before
    mem             \* their contents

Init ==
    /\ pending = {} /\ storing = FALSE
    /\ touched = {}
    /\ mem = [v \in Vaddr |-> CHOOSE x \in Value : TRUE]

Access(v) ==
    /\ pending = {}
    /\ pending' = {v} /\ storing' \in BOOLEAN
    /\ UNCHANGED <<touched, mem>>

FirstTouch(v, x) ==
    /\ pending = {v} /\ v \notin touched
    /\ touched' = touched \cup {v}
    /\ mem' = [mem EXCEPT ![v] = x]
    /\ UNCHANGED <<pending, storing>>

Load(v) ==
    /\ pending = {v} /\ ~storing /\ v \in touched
    /\ pending' = {}
    /\ UNCHANGED <<storing, touched, mem>>

Store(v, x) ==
    /\ pending = {v} /\ storing /\ v \in touched
    /\ pending' = {} /\ storing' = FALSE
    /\ mem' = [mem EXCEPT ![v] = x]
    /\ UNCHANGED touched

Next == \E v \in Vaddr :
    \/ Access(v) \/ Load(v)
    \/ \E x \in Value : FirstTouch(v, x) \/ Store(v, x)

Spec == Init /\ [][Next]_<<pending, storing, touched, mem>>
=============================================================================
