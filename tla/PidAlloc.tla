------------------------------ MODULE PidAlloc ------------------------------
(***************************************************************************)
(* get_pid of lab5/kern/process/proc.c, one iteration of its scan per step.*)
(*                                                                         *)
(* The function keeps two static integers between calls: last_pid, the pid *)
(* handed out last, and next_safe, such that no process has a pid strictly *)
(* between the two.  A call that stays below next_safe does not look at    *)
(* proc_list; another scans it and recomputes both.  Between two calls     *)
(* processes come (do_fork) and go (do_wait), so next_safe may be stale.   *)
(*                                                                         *)
(* The scan runs with interrupts off, so the list does not change under    *)
(* it.  `todo' is the part of the list not visited yet: the order of the   *)
(* list decides nothing, and the model visits it in any order.             *)
(***************************************************************************)
EXTENDS Naturals, FiniteSets

CONSTANTS
    MAX_PROCESS,    \* do_fork refuses when nr_process reaches it
    MAX_PID         \* pids are below it

\* static_assert(MAX_PID > MAX_PROCESS); idle and one other process fit.
ASSUME PidAssumption ==
    /\ MAX_PROCESS \in Nat /\ MAX_PID \in Nat
    /\ 1 < MAX_PROCESS /\ MAX_PROCESS < MAX_PID

VARIABLES
    live,       \* pids of the processes on proc_list
    last_pid,
    next_safe,
    pc,         \* "out": not in get_pid; "scan": in the while loop; "ret"
    todo,       \* processes the current scan has not visited
    prev        \* history: value of last_pid when the call was entered

vars == <<live, last_pid, next_safe, pc, todo, prev>>

Pids == 1 .. MAX_PID - 1

Init ==
    /\ live = {}
    /\ last_pid = MAX_PID /\ next_safe = MAX_PID
    /\ pc = "out" /\ todo = {}
    /\ prev = MAX_PID

\* do_fork passed its check of nr_process, which counts idle too.
RoomForOne == Cardinality(live) + 1 < MAX_PROCESS

\* Entry of get_pid: next pid, wrapped to 1 at the end; scan if it wrapped
\* or left the interval known to be free.
Enter ==
    /\ pc = "out" /\ RoomForOne
    /\ LET wrapped == last_pid + 1 >= MAX_PID
           pid     == IF wrapped THEN 1 ELSE last_pid + 1
       IN /\ last_pid' = pid
          /\ IF wrapped \/ pid >= next_safe
             THEN pc' = "scan" /\ next_safe' = MAX_PID /\ todo' = live
             ELSE pc' = "ret" /\ UNCHANGED <<next_safe, todo>>
    /\ UNCHANGED <<live, prev>>

\* Mutant of VisitTaken: every new round starts from pid 1.
VisitTaken_FromOne(p) ==
    /\ p = last_pid
    /\ last_pid' = IF last_pid + 1 >= next_safe THEN 1 ELSE last_pid + 1
    /\ next_safe' = IF last_pid + 1 >= next_safe THEN MAX_PID ELSE next_safe
    /\ todo' = IF last_pid + 1 >= next_safe THEN live ELSE todo \ {p}

\* Mutant of VisitTaken: a new round without trying the next pid.
VisitTaken_NoAdvance(p) ==
    /\ p = last_pid
    /\ last_pid' = last_pid /\ next_safe' = MAX_PID /\ todo' = live

\* The loop meets a process that has the candidate pid: try the next one,
\* and start over when that one is not known to be free.
VisitTaken(p) ==
    /\ p = last_pid
    /\ IF last_pid + 1 >= next_safe
       THEN /\ last_pid' = IF last_pid + 1 >= MAX_PID THEN 1 ELSE last_pid + 1
            /\ next_safe' = MAX_PID
            /\ todo' = live
       ELSE /\ last_pid' = last_pid + 1
            /\ todo' = todo \ {p}
            /\ UNCHANGED next_safe

\* Mutant of VisitOther: the first larger pid met is the bound, not the least.
VisitOther_FirstBound(p) ==
    /\ p # last_pid
    /\ next_safe' = IF p > last_pid /\ next_safe = MAX_PID THEN p ELSE next_safe
    /\ todo' = todo \ {p}
    /\ UNCHANGED last_pid

\* The loop meets another process: it may bound the free interval.
VisitOther(p) ==
    /\ p # last_pid
    /\ next_safe' = IF p > last_pid /\ next_safe > p THEN p ELSE next_safe
    /\ todo' = todo \ {p}
    /\ UNCHANGED last_pid

Visit(p) ==
    /\ pc = "scan" /\ p \in todo
    /\ VisitTaken(p) \/ VisitOther(p)
    /\ UNCHANGED <<live, pc, prev>>

\* The whole list was visited.
ScanEnd ==
    /\ pc = "scan" /\ todo = {}
    /\ pc' = "ret"
    /\ UNCHANGED <<live, last_pid, next_safe, todo, prev>>

\* do_fork hashes and links the process under the pid returned.
Return ==
    /\ pc = "ret"
    /\ live' = live \cup {last_pid}
    /\ prev' = last_pid
    /\ pc' = "out"
    /\ UNCHANGED <<last_pid, next_safe, todo>>

\* do_wait unhashes and unlinks a zombie.
Reap(p) ==
    /\ pc = "out" /\ p \in live
    /\ live' = live \ {p}
    /\ UNCHANGED <<last_pid, next_safe, pc, todo, prev>>

Call == Enter \/ (\E p \in Pids : Visit(p)) \/ ScanEnd \/ Return

Next == Call \/ \E p \in Pids : Reap(p)

Spec == Init /\ [][Next]_vars

\* get_pid runs with interrupts off: once entered nothing stops its steps.
FairSpec == Spec /\ WF_vars(pc # "out" /\ Call)

-----------------------------------------------------------------------------

TypeOK ==
    /\ live \subseteq Pids
    /\ last_pid \in 1 .. MAX_PID /\ next_safe \in 1 .. MAX_PID
    /\ pc \in {"out", "scan", "ret"}
    /\ todo \subseteq live
    /\ prev \in 1 .. MAX_PID

\* No process has a pid strictly between last_pid and next_safe: what makes
\* it right to hand out ++last_pid without a scan, however many processes
\* came and went since next_safe was computed (proc.c:179, 199).
FreeGap == pc # "scan" => \A q \in live : ~(last_pid < q /\ q < next_safe)

\* While a scan runs the same holds of the part of the list visited, also
\* after last_pid moved on in the middle of it (proc.c:186-196).
ScanPrefix ==
    pc = "scan" =>
        /\ last_pid < next_safe
        /\ \A q \in live \ todo :
              q # last_pid /\ ~(last_pid < q /\ q < next_safe)

\* The pid get_pid is about to return is in range and no process has it.
PidUnique == pc = "ret" => last_pid \in Pids /\ last_pid \notin live

\* The pids skipped since the call was entered are all taken.
Skipped ==
    pc # "out" =>
        \/ last_pid > prev
           /\ \A q \in Pids : prev < q /\ q < last_pid => q \in live
        \/ \A q \in Pids : prev < q \/ q < last_pid => q \in live

\* Outside the loop nothing is left to visit; between calls the history
\* variable is last_pid itself; last_pid is out of range only at boot.
Settled ==
    /\ pc # "scan" => todo = {}
    /\ pc = "out" => prev = last_pid
    /\ pc # "out" => last_pid < MAX_PID

IInv == TypeOK /\ FreeGap /\ ScanPrefix /\ PidUnique /\ Skipped /\ Settled

\* get_pid implements the next-fit choice of PidNextFit.
NextFit == INSTANCE PidNextFit
ImplementsNextFit == NextFit!Spec

\* A call always returns: the scan restarts only finitely often, because
\* there are more pids than processes (static_assert, proc.c:170).
CallReturns == pc # "out" ~> pc = "out"
=============================================================================
