----------------------------- MODULE PidNextFit -----------------------------
(***************************************************************************)
(* What get_pid (lab5/kern/process/proc.c) promises to do_fork: a pid that *)
(* no process of proc_list has, and among those the first one after the    *)
(* pid handed out before, wrapping from MAX_PID - 1 to 1.  So a pid is not *)
(* reused while another one that was never used is ahead of it.            *)
(***************************************************************************)
EXTENDS Naturals

CONSTANT MAX_PID

VARIABLES
    live,   \* pids of the processes on proc_list
    prev    \* the pid the previous call returned; MAX_PID before the first

vars == <<live, prev>>

Pids == 1 .. MAX_PID - 1

\* Every pid met on the way from prev to p, in cyclic order, is taken.
FirstFreeAfterPrev(p) ==
    \/ p > prev /\ \A q \in Pids : prev < q /\ q < p => q \in live
    \/ \A q \in Pids : prev < q \/ q < p => q \in live

Init == live = {} /\ prev = MAX_PID

\* do_fork puts the process with the new pid on proc_list.
Hand(p) ==
    /\ p \notin live
    /\ FirstFreeAfterPrev(p)
    /\ live' = live \cup {p}
    /\ prev' = p

\* do_wait takes a reaped process off proc_list.
Reap(p) ==
    /\ p \in live
    /\ live' = live \ {p}
    /\ UNCHANGED prev

Next == \E p \in Pids : Hand(p) \/ Reap(p)

Spec == Init /\ [][Next]_vars
=============================================================================
