------------------------------- MODULE Sched -------------------------------
(***************************************************************************)
(* Processes of lab7 that compute, yield, sleep, use kernel semaphores,    *)
(* kill one another and exit, under the timer interrupt.                   *)
(*                                                                         *)
(* A user process is in the kernel with interrupts off and is switched out *)
(* there only by a call of schedule(); in user mode the timer can take the *)
(* CPU from it.  It gives back what it took before it returns there.       *)
(* A kernel thread runs with interrupts on, but the end of trap() never    *)
(* switches it out.  do_sleep and __down restore interrupts before they    *)
(* call schedule(): on a kernel thread the timer can come in between, and  *)
(* pc "sleeping" and "waiting" are that window.                            *)
(***************************************************************************)
EXTENDS SchedCore

CONSTANTS
    KThreads,       \* the kernel threads among Procs
    InitValue,      \* units of each semaphore at the start
    MaxSleep        \* bound: longest sleep asked for, in ticks

NoSem == "no_semaphore"

ASSUME SchedAssumption ==
    /\ IsFiniteSet(Procs) /\ idleproc \notin Procs /\ KThreads \subseteq Procs
    /\ NoSem \notin Sems
    /\ MAX_TIME_SLICE \in Nat \ {0} /\ MaxSleep \in Nat
    /\ InitValue \in Nat

VARIABLES
    k,          \* the kernel state of SchedCore
    pc,         \* "run" is user mode, or the code of a kernel thread; "kern"
                \* a system call; "asleep" and "queued" switched out in
                \* do_sleep and __down; "trap" the end of trap()
    sem,        \* the semaphore of the down() a process is in
    exiting,    \* PF_EXITING
    held,       \* history: units each process took and did not give back
    left        \* history: ticks until the end of the sleep asked for

vars == <<k, pc, sem, exiting, held, left>>

Init ==
    /\ \E order \in SetToSeqs(Procs) : k = Boot(order, [s \in Sems |-> InitValue])
    /\ pc = [p \in All |-> "run"]
    /\ sem = [p \in Procs |-> NoSem]
    /\ exiting = [p \in Procs |-> FALSE]
    /\ held = [p \in Procs |-> [s \in Sems |-> 0]]
    /\ left = [p \in Procs |-> 0]

Labels == {"run", "kern", "sleeping", "asleep", "waiting", "queued", "trap", "dead"}
Goto(p, l) == pc' = [pc EXCEPT ![p] = l]

\* Where p can call a kernel service, and where the service returns to.
Executing(p) == pc[p] \in {"run", "kern"}
Back(p) == IF p \in KThreads THEN "run" ELSE "kern"

HoldsNone(p) == \A s \in Sems : held[p][s] = 0

\* do_sleep.
Sleep(p) ==
    /\ Executing(p)
    /\ \E ticks \in 1 .. MaxSleep :
          /\ k' = SleepFor(k, ticks)
          /\ left' = [left EXCEPT ![p] = ticks]
    /\ Goto(p, "sleeping")
    /\ UNCHANGED <<sem, exiting, held>>

SwitchOut(p) ==
    /\ pc[p] \in {"sleeping", "waiting"}
    /\ k' = Schedule(k)
    /\ Goto(p, IF pc[p] = "sleeping" THEN "asleep" ELSE "queued")
    /\ UNCHANGED <<sem, exiting, held, left>>

SleepReturns(p) ==
    /\ pc[p] = "asleep"
    /\ k' = DelTimer(k, p)
    /\ left' = [left EXCEPT ![p] = 0]
    /\ Goto(p, Back(p))
    /\ UNCHANGED <<sem, exiting, held>>

\* down() of a semaphore that has units, or try_down.
DownNow(p, s) ==
    /\ Executing(p) /\ k.value[s] > 0
    /\ k' = TakeUnit(k, s)
    /\ held' = [held EXCEPT ![p][s] = @ + 1]
    /\ Goto(p, Back(p))
    /\ UNCHANGED <<sem, exiting, left>>

DownWaits(p, s) ==
    /\ Executing(p) /\ ~(k.value[s] > 0)
    /\ k' = WaitCurrentSet(k, s)
    /\ sem' = [sem EXCEPT ![p] = s]
    /\ Goto(p, "waiting")
    /\ UNCHANGED <<exiting, held, left>>

DownEnds(p) ==
    /\ pc[p] = "queued"
    /\ k' = DownReturns(k, sem[p])
    /\ held' = [held EXCEPT ![p][sem[p]] = @ + 1]
    /\ sem' = [sem EXCEPT ![p] = NoSem]
    /\ Goto(p, Back(p))
    /\ UNCHANGED <<exiting, left>>

\* up(), by a process that holds a unit.
UpHeld(p, s) ==
    /\ Executing(p) /\ held[p][s] > 0
    /\ k' = Up(k, s)
    /\ held' = [held EXCEPT ![p][s] = @ - 1]
    /\ Goto(p, Back(p))
    /\ UNCHANGED <<sem, exiting, left>>

\* Mutant of Kill: every sleeper is woken.
Kill_WakesAll(p, q) ==
    /\ Executing(p) /\ ~exiting[q]
    /\ exiting' = [exiting EXCEPT ![q] = TRUE]
    /\ k' = IF k.state[q] = "SLEEPING" THEN WakeupProc(k, q) ELSE k
    /\ Goto(p, Back(p))
    /\ UNCHANGED <<sem, held, left>>

\* do_kill: mark q and wake it if its wait can be interrupted.
Kill(p, q) ==
    /\ Executing(p) /\ ~exiting[q]
    /\ exiting' = [exiting EXCEPT ![q] = TRUE]
    /\ k' = IF Interruptible(k.wait_state[q]) THEN WakeupProc(k, q) ELSE k
    /\ Goto(p, Back(p))
    /\ UNCHANGED <<sem, held, left>>

\* do_yield; on a kernel thread the flag would wait for its next schedule().
Yield(p) ==
    /\ pc[p] = "run" /\ p \notin KThreads
    /\ k' = [k EXCEPT !.need_resched[p] = TRUE]
    /\ Goto(p, "trap")
    /\ UNCHANGED <<sem, exiting, held, left>>

\* do_exit, of a process that holds no unit.  Its parent is not modelled
\* here; Process has what do_exit and do_wait do to each other.
Exit(p) ==
    /\ k' = Schedule([k EXCEPT !.state[p] = "ZOMBIE"])
    /\ Goto(p, "dead")
    /\ UNCHANGED <<sem, exiting, held, left>>

ExitCall(p) == Executing(p) /\ HoldsNone(p) /\ Exit(p)

\* A system call comes to its end with nothing held.
EndCall(p) ==
    /\ pc[p] = "kern" /\ HoldsNone(p)
    /\ Goto(p, "trap")
    /\ UNCHANGED <<k, sem, exiting, held, left>>

\* The end of trap() on the way to user mode.
TrapEnd(p) ==
    /\ pc[p] = "trap"
    /\ \/ exiting[p] /\ Exit(p)
       \/ /\ ~exiting[p]
          /\ k' = IF k.need_resched[p] THEN Schedule(k) ELSE k
          /\ Goto(p, "run")
          /\ UNCHANGED <<sem, exiting, held, left>>

\* The timer interrupt, wherever interrupts are on.
InterruptsOn(p) ==
    \/ pc[p] = "run"
    \/ p \in KThreads /\ pc[p] # "dead"

Tick(p) ==
    /\ InterruptsOn(p)
    /\ k' = RunTimerList(k)
    /\ left' = [q \in Procs |-> IF left[q] > 0 THEN left[q] - 1 ELSE 0]
    /\ IF p \in Procs \ KThreads THEN Goto(p, "trap") ELSE UNCHANGED pc
    /\ UNCHANGED <<sem, exiting, held>>

\* cpu_idle.
Idle ==
    /\ k.current = idleproc /\ k.need_resched[idleproc]
    /\ k' = Schedule(k)
    /\ UNCHANGED <<pc, sem, exiting, held, left>>

\* What a process in the kernel does whatever its program wants.
KernelStep(p) == SwitchOut(p) \/ SleepReturns(p) \/ DownEnds(p) \/ TrapEnd(p)

ProgramStep(p) ==
    \/ Sleep(p) \/ Yield(p) \/ ExitCall(p) \/ EndCall(p)
    \/ \E s \in Sems : DownNow(p, s) \/ DownWaits(p, s) \/ UpHeld(p, s)
    \/ \E q \in Procs : Kill(p, q)

Next ==
    \/ \E p \in Procs \cap {k.current} : KernelStep(p) \/ ProgramStep(p)
    \/ Tick(k.current)
    \/ Idle

Spec == Init /\ [][Next]_vars

(***************************************************************************)
(* Kernel code runs to its end, and system calls are finite: they give     *)
(* back what they took, and return.  The clock ticks for ever; a tick that *)
(* comes while interrupts are off is taken when they are on again, so the  *)
(* fairness of Tick is the strong one, written out with its enabling       *)
(* condition.  Leaves and GivesBack say of a step only what it must do.    *)
(***************************************************************************)
Leaves(p, from) ==
    /\ k.current = p /\ pc[p] \in from
    /\ \E l \in Labels \ from : Goto(p, l)

GivesBack(p, s) ==
    /\ k.current = p /\ Executing(p) /\ held[p][s] > 0
    /\ held' = [held EXCEPT ![p][s] = @ - 1]

FairSpec ==
    /\ Spec
    /\ WF_vars(Idle)
    /\ \A p \in Procs :
          /\ WF_pc(Leaves(p, {"sleeping", "waiting"}))
          /\ WF_pc(Leaves(p, {"asleep", "queued"}))
          /\ WF_pc(Leaves(p, {"trap"}))
          /\ SF_pc(HoldsNone(p) /\ Leaves(p, {"kern"}))
          /\ \A s \in Sems : SF_held(GivesBack(p, s))
    /\ []<>InterruptsOn(k.current) => []<><<Tick(k.current)>>_vars

-----------------------------------------------------------------------------

TypeOK ==
    /\ k \in KernelStates
    /\ pc \in [All -> Labels]
    /\ sem \in [Procs -> Sems \cup {NoSem}]
    /\ exiting \in [Procs -> BOOLEAN]
    /\ held \in [Procs -> [Sems -> Nat]]
    /\ left \in [Procs -> 0 .. MaxSleep]

\* No assert() of the run queue, the timer list, the wait queues or down()
\* fails: among them that nothing but up() ends the wait of down(), although
\* kill and timers wake sleepers too (sem.c:25, 63; sched.c:60, 154, 160).
AssertionsHold == k.ok

\* The run queue holds each runnable process once, except the current one,
\* which a wakeup in the window before schedule() must not queue.
RunQueueExact ==
    /\ IsInjective(k.run_list)
    /\ ToSet(k.run_list) = {p \in Procs \ {k.current} : k.state[p] = "RUNNABLE"}

\* The differences of the timer list add up to what each sleeper asked for,
\* through insertions, expiries and removals of killed sleepers.
TimersExact ==
    \A i \in DOMAIN k.timer_list : Due(k.timer_list, i) = left[k.timer_list[i].proc]

\* The run queue and the timer list agree with what the processes do.
QueuesExact == TypeOK /\ RunQueueExact /\ TimersExact

\* Every sleeper has somebody to wake it: a timer still to run, or a place
\* in the queue of the semaphore it waits for.
NoLostSleeper ==
    \A p \in Procs :
        k.state[p] = "SLEEPING" =>
            \/ /\ k.wait_state[p] = "WT_TIMER"
               /\ \E i \in DOMAIN k.timer_list : k.timer_list[i].proc = p
            \/ k.wait_state[p] = "WT_KSEM" /\ p \in ToSet(k.wait_queue[sem[p]])

\* A sleeper that nobody killed is woken by the tick that ends its sleep,
\* neither earlier nor later.
SleepsExactly ==
    \A p \in Procs :
        pc[p] \in {"sleeping", "asleep"} /\ ~exiting[p] =>
            (k.state[p] = "SLEEPING" <=> left[p] > 0)

\* Units are neither lost nor made: those of the value, those held, and the
\* one handed to each process taken off the queue that did not run yet.
HeldUnits(s) == UNION {{p} \X (1 .. held[p][s]) : p \in Procs}
Handed(s) == {p \in Procs : sem[p] = s /\ p \notin ToSet(k.wait_queue[s])}

UnitsConserved ==
    \A s \in Sems :
        k.value[s] + Cardinality(Handed(s)) + Cardinality(HeldUnits(s)) = InitValue

\* Nobody waits for a semaphore that has units.
NoIdleUnits == \A s \in Sems : k.wait_queue[s] # <<>> => k.value[s] = 0

\* Each unit is with a process or waits for one, and then nobody waits for it.
UnitsAccounted == UnitsConserved /\ NoIdleUnits

\* A unit goes to the waiters in the order they came.
UnitsInOrder ==
    [][\A s \in Sems :
          \/ IsPrefix(k.wait_queue[s], k'.wait_queue[s])
          \/ k'.wait_queue[s] = Tail(k.wait_queue[s])]_vars

\* Round robin with time slices starves nobody: a runnable process runs,
\* if those that run are user processes.
EveryoneRuns ==
    \A p \in Procs : k.state[p] = "RUNNABLE" ~> k.current = p

\* Every sleep ends.
SleepersWake ==
    \A p \in Procs : k.wait_state[p] = "WT_TIMER" ~> k.wait_state[p] # "WT_TIMER"
=============================================================================
