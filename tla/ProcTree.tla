------------------------------ MODULE ProcTree ------------------------------
(***************************************************************************)
(* The life cycle of processes that fork, exit, wait and kill              *)
(* (lab5/kern/process/proc.c) promise each other, without the links, the   *)
(* process list or the scheduler: any runnable process may take the next   *)
(* step.  Process implements it.                                           *)
(***************************************************************************)
EXTENDS ProcIds

Procs == UserPids \cup {initproc}
Targets == Procs \cup {AnyChild}

VARIABLES
    state,      \* "free" is a pid with no process
    parent,
    waitFor,    \* the pid do_wait was called with, NULL outside do_wait
    exiting     \* PF_EXITING

vars == <<state, parent, waitFor, exiting>>

Init ==
    /\ state = [p \in Procs |-> IF p = initproc THEN "RUNNABLE" ELSE "free"]
    /\ parent = [p \in Procs |-> NULL]
    /\ waitFor = [p \in Procs |-> NULL]
    /\ exiting = [p \in Procs |-> FALSE]

\* The children do_wait(t) of process p looks at.
Matches(p, t) == {c \in UserPids : parent[c] = p /\ (t = AnyChild \/ c = t)}

\* p is about to search its children on behalf of do_wait(t): either it
\* calls do_wait or it was woken in it and not told to exit.
Searching(p, t) ==
    /\ state[p] = "RUNNABLE"
    /\ waitFor[p] # NULL => waitFor[p] = t /\ ~exiting[p]

\* wakeup_proc on a sleeper; every other process is left alone.
Woken(p) == IF state[p] = "SLEEPING" THEN "RUNNABLE" ELSE state[p]

Fork(p, c) ==
    /\ state[p] = "RUNNABLE" /\ waitFor[p] = NULL
    /\ state[c] = "free"
    /\ state' = [state EXCEPT ![c] = "RUNNABLE"]
    /\ parent' = [parent EXCEPT ![c] = p]
    /\ exiting' = [exiting EXCEPT ![c] = FALSE]
    /\ UNCHANGED waitFor

\* do_wait finds a zombie and frees it.
WaitReap(p, t, c) ==
    /\ Searching(p, t)
    /\ c \in Matches(p, t) /\ state[c] = "ZOMBIE"
    /\ state' = [state EXCEPT ![c] = "free"]
    /\ parent' = [parent EXCEPT ![c] = NULL]
    /\ waitFor' = [waitFor EXCEPT ![p] = NULL]
    /\ exiting' = [exiting EXCEPT ![c] = FALSE]

\* do_wait finds children and no zombie: sleep.
WaitSleep(p, t) ==
    /\ Searching(p, t)
    /\ Matches(p, t) # {}
    /\ \A c \in Matches(p, t) : state[c] # "ZOMBIE"
    /\ state' = [state EXCEPT ![p] = "SLEEPING"]
    /\ waitFor' = [waitFor EXCEPT ![p] = t]
    /\ UNCHANGED <<parent, exiting>>

\* do_wait finds no child: return -E_BAD_PROC.
WaitFail(p, t) ==
    /\ Searching(p, t)
    /\ Matches(p, t) = {}
    /\ waitFor' = [waitFor EXCEPT ![p] = NULL]
    /\ UNCHANGED <<state, parent, exiting>>

\* do_exit: become a zombie, wake the parent out of do_wait, hand the
\* children to init and wake init if one of them is a zombie.
Exit(p) ==
    /\ state[p] = "RUNNABLE"
    /\ waitFor[p] # NULL => exiting[p]
    /\ LET kids   == {c \in UserPids : parent[c] = p}
           zombie == \E c \in kids : state[c] = "ZOMBIE"
       IN /\ state' = [q \in Procs |->
                 IF q = p THEN "ZOMBIE"
                 ELSE IF q = parent[p] \/ (q = initproc /\ zombie)
                      THEN Woken(q) ELSE state[q]]
          /\ parent' = [q \in Procs |->
                 IF q \in kids THEN initproc ELSE parent[q]]
    /\ waitFor' = [waitFor EXCEPT ![p] = NULL]
    /\ UNCHANGED exiting

\* do_kill: mark q and wake it.  A killed init panics when it resumes, which
\* is not a step here.
Kill(q) ==
    /\ state[q] # "free" /\ ~exiting[q]
    /\ exiting' = [exiting EXCEPT ![q] = TRUE]
    /\ state' = [state EXCEPT ![q] = Woken(q)]
    /\ UNCHANGED <<parent, waitFor>>

Next ==
    \/ \E p \in Procs, c \in UserPids : Fork(p, c)
    \/ \E p \in Procs, t \in Targets, c \in UserPids : WaitReap(p, t, c)
    \/ \E p \in Procs, t \in Targets : WaitSleep(p, t) \/ WaitFail(p, t)
    \/ \E p \in UserPids : Exit(p)
    \/ \E q \in Procs : Kill(q)

Spec == Init /\ [][Next]_vars

-----------------------------------------------------------------------------

TypeOK ==
    /\ state \in [Procs -> {"free", "RUNNABLE", "SLEEPING", "ZOMBIE"}]
    /\ parent \in [Procs -> Procs \cup {NULL}]
    /\ waitFor \in [Procs -> Targets \cup {NULL}]
    /\ exiting \in [Procs -> BOOLEAN]

\* Init is never a zombie, and every process, a zombie too, has a parent
\* that is not one: do_exit hands the children over before its process
\* stops running (proc.c:501-521), so no zombie is left without a reaper.
ParentAlive ==
    /\ state[initproc] \in {"RUNNABLE", "SLEEPING"} /\ parent[initproc] = NULL
    /\ \A c \in UserPids :
          IF state[c] = "free" THEN parent[c] = NULL
          ELSE /\ parent[c] \in Procs \ {c}
               /\ state[parent[c]] \in {"RUNNABLE", "SLEEPING"}

\* A process asleep in do_wait has a child that it waits for, and none of
\* those is a zombie: the exit of each, and the hand-over of a zombie to a
\* waiting init, woke it (proc.c:504, 518).  A lost wakeup leaves a sleeper
\* whose child has already exited.
NoLostWakeup ==
    \A p \in Procs :
        state[p] = "SLEEPING" =>
            /\ waitFor[p] # NULL
            /\ Matches(p, waitFor[p]) # {}
            /\ \A c \in Matches(p, waitFor[p]) : state[c] # "ZOMBIE"

\* Only a process that can run or sleep is in do_wait.
WaitersAlive ==
    \A p \in Procs : waitFor[p] # NULL => state[p] \in {"RUNNABLE", "SLEEPING"}

IInv == TypeOK /\ ParentAlive /\ NoLostWakeup /\ WaitersAlive
=============================================================================
