----------------------------- MODULE PrivateMemory -----------------------------
(***************************************************************************)
(* What fork, exec and page faults promise a process: memory of its own,   *)
(* which only it changes, and a copy of which its child gets.              *)
(***************************************************************************)
CONSTANTS Proc, Loaded, Demand, Value, Program, Untouched, NoMemory

VARIABLES
    mem,            \* the contents of the pages of a process, while it has memory
    odd             \* whether the number of stores is odd: nothing else changes a page

\* exec loads some pages; the others hold anything once they are touched.
Fresh == [v \in Loaded \cup Demand |-> IF v \in Loaded THEN Program ELSE Untouched]

Init ==
    /\ \E p \in Proc : mem = [q \in Proc |-> IF q = p THEN Fresh ELSE NoMemory]
    /\ odd = FALSE

Touch(p, v) ==
    /\ mem[p][v] = Untouched
    /\ \E x \in Value : mem' = [mem EXCEPT ![p][v] = x]
    /\ UNCHANGED odd

Write(p, v) ==
    /\ mem[p][v] # Untouched
    /\ \E x \in Value : mem' = [mem EXCEPT ![p][v] = x]
    /\ odd' = ~odd

Fork(p, q) == mem[q] = NoMemory /\ mem' = [mem EXCEPT ![q] = mem[p]] /\ UNCHANGED odd
Exec(p) == mem' = [mem EXCEPT ![p] = Fresh] /\ UNCHANGED odd
Exit(p) == mem' = [mem EXCEPT ![p] = NoMemory] /\ UNCHANGED odd

Next == \E p \in {q \in Proc : mem[q] # NoMemory} :
    \/ \E v \in Loaded \cup Demand : Touch(p, v) \/ Write(p, v)
    \/ \E q \in Proc : Fork(p, q)
    \/ Exec(p) \/ Exit(p)

Spec == Init /\ [][Next]_<<mem, odd>>
=============================================================================
