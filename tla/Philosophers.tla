---------------------------- MODULE Philosophers ----------------------------
(***************************************************************************)
(* The self-test of lab7/kern/sync/check_sync.c: check_sync, running in    *)
(* init, creates N kernel threads, the philosophers, which eat TIMES times *)
(* each with semaphores between them, and waits for each to exit.  All are *)
(* kernel threads: they run until they sleep or wait, with the timer       *)
(* coming in anywhere.                                                     *)
(***************************************************************************)
EXTENDS Naturals

CONSTANTS N, TIMES, SLEEP_TIME, MAX_TIME_SLICE

ASSUME PhilosophersAssumption ==
    /\ N \in Nat \ {0, 1} /\ TIMES \in Nat \ {0}
    /\ SLEEP_TIME \in Nat \ {0} /\ MAX_TIME_SLICE \in Nat \ {0}

Phils == 0 .. N - 1
LEFT(i) == (i + N - 1) % N
RIGHT(i) == (i + 1) % N

\* Threads 0 .. N-1 are the philosophers; semaphore i is s[i].
initproc == N
idleproc == N + 1
mutex == N
Procs == Phils \cup {initproc}
Sems == Phils \cup {mutex}

INSTANCE SchedCore

VARIABLES
    k,              \* the kernel state of SchedCore
    pc,             \* line of the program a thread is at
    in,             \* "call" at that line; "switch" before, "resume" after
                    \* the schedule() of the sleep or down at that line
    iter,           \* rounds a philosopher has begun
    state_sema,
    next            \* the philosopher init creates or waits for next

vars == <<k, pc, in, iter, state_sema, next>>

\* The lines of philosopher_using_semaphore, with phi_take_forks_sema and
\* phi_put_forks_sema inlined, and the line after each.
After == [think |-> "lock", lock |-> "hungry", hungry |-> "unlock",
          unlock |-> "forks", forks |-> "eat", eat |-> "relock",
          relock |-> "put", put |-> "release", release |-> "loop"]

Init ==
    /\ k = Boot(<<initproc>>, [s \in Sems |-> IF s = mutex THEN 1 ELSE 0])
    /\ pc = [p \in Procs |-> IF p = initproc THEN "create" ELSE "loop"]
    /\ in = [p \in Procs |-> "call"]
    /\ iter = [i \in Phils |-> 0]
    /\ state_sema = [i \in Phils |-> "THINKING"]
    /\ next = 0

At(p, l) == k.current = p /\ pc[p] = l /\ in[p] = "call"
Advance(p) == pc' = [pc EXCEPT ![p] = After[pc[p]]] /\ in' = [in EXCEPT ![p] = "call"]
Enter(p, phase) == in' = [in EXCEPT ![p] = phase] /\ UNCHANGED pc

\* do_sleep(SLEEP_TIME) of a philosopher, up to its schedule().
Sleep(i) ==
    /\ At(i, "think") \/ At(i, "eat")
    /\ k' = SleepFor(k, SLEEP_TIME)
    /\ Enter(i, "switch")
    /\ UNCHANGED <<iter, state_sema, next>>

\* down(s) at line l.
Down(i, l, s) ==
    /\ At(i, l)
    /\ \/ k.value[s] > 0 /\ k' = TakeUnit(k, s) /\ Advance(i)
       \/ k.value[s] = 0 /\ k' = WaitCurrentSet(k, s) /\ Enter(i, "switch")
    /\ UNCHANGED <<iter, state_sema, next>>

Switch(p) ==
    /\ k.current = p /\ in[p] = "switch"
    /\ k' = Schedule(k)
    /\ Enter(p, "resume")
    /\ UNCHANGED <<iter, state_sema, next>>

Resume(i) ==
    /\ k.current = i /\ in[i] = "resume"
    /\ k' = CASE pc[i] \in {"think", "eat"}   -> DelTimer(k, i)
              [] pc[i] \in {"lock", "relock"} -> DownReturns(k, mutex)
              [] pc[i] = "forks"              -> DownReturns(k, i)
    /\ Advance(i)
    /\ UNCHANGED <<iter, state_sema, next>>

\* Mutant of PhiTest: only the left neighbour is looked at.
PhiTest_LeftOnly(st, j) ==
    IF st.sema[j] = "HUNGRY" /\ st.sema[LEFT(j)] # "EATING"
    THEN [sema |-> [st.sema EXCEPT ![j] = "EATING"], kernel |-> Up(st.kernel, j)]
    ELSE st

\* Mutant of PhiTest: the state is left to the philosopher.
PhiTest_KeepsState(st, j) ==
    IF /\ st.sema[j] = "HUNGRY"
       /\ st.sema[LEFT(j)] # "EATING" /\ st.sema[RIGHT(j)] # "EATING"
    THEN [st EXCEPT !.kernel = Up(st.kernel, j)]
    ELSE st

\* phi_test_sema(j), on the record of what it reads and writes.
PhiTest(st, j) ==
    IF /\ st.sema[j] = "HUNGRY"
       /\ st.sema[LEFT(j)] # "EATING" /\ st.sema[RIGHT(j)] # "EATING"
    THEN [sema |-> [st.sema EXCEPT ![j] = "EATING"], kernel |-> Up(st.kernel, j)]
    ELSE st

Becomes(st) == state_sema' = st.sema /\ k' = st.kernel

\* phi_take_forks_sema between the down and the up of mutex.
Hungry(i) ==
    /\ At(i, "hungry")
    /\ Becomes(PhiTest([sema |-> [state_sema EXCEPT ![i] = "HUNGRY"], kernel |-> k], i))
    /\ Advance(i)
    /\ UNCHANGED <<iter, next>>

\* Mutant of Put: the neighbours are tested while the forks are still held.
Put_TestsFirst(i) ==
    /\ At(i, "put")
    /\ LET st == PhiTest(PhiTest([sema |-> state_sema, kernel |-> k], LEFT(i)), RIGHT(i))
       IN Becomes([st EXCEPT !.sema[i] = "THINKING"])
    /\ Advance(i)
    /\ UNCHANGED <<iter, next>>

\* Mutant of Put: the left neighbour is not tested.
Put_RightOnly(i) ==
    /\ At(i, "put")
    /\ Becomes(PhiTest([sema |-> [state_sema EXCEPT ![i] = "THINKING"],
                        kernel |-> k], RIGHT(i)))
    /\ Advance(i)
    /\ UNCHANGED <<iter, next>>

\* phi_put_forks_sema between the down and the up of mutex.
Put(i) ==
    /\ At(i, "put")
    /\ Becomes(PhiTest(PhiTest([sema |-> [state_sema EXCEPT ![i] = "THINKING"],
                                kernel |-> k], LEFT(i)), RIGHT(i)))
    /\ Advance(i)
    /\ UNCHANGED <<iter, next>>

Unlock(i) ==
    /\ At(i, "unlock") \/ At(i, "release")
    /\ k' = Up(k, mutex)
    /\ Advance(i)
    /\ UNCHANGED <<iter, state_sema, next>>

\* The test of the while loop; after TIMES rounds the thread returns, which
\* is do_exit: zombie, wake init out of do_wait, schedule.
Loop(i) ==
    /\ At(i, "loop")
    /\ \/ /\ iter[i] < TIMES
          /\ iter' = [iter EXCEPT ![i] = @ + 1]
          /\ pc' = [pc EXCEPT ![i] = "think"]
          /\ UNCHANGED k
       \/ /\ iter[i] = TIMES
          /\ LET z == [k EXCEPT !.state[i] = "ZOMBIE"] IN
             k' = Schedule(IF k.wait_state[initproc] = "WT_CHILD"
                           THEN WakeupProc(z, initproc) ELSE z)
          /\ pc' = [pc EXCEPT ![i] = "quit"]
          /\ UNCHANGED iter
    /\ UNCHANGED <<in, state_sema, next>>

Philosopher(i) ==
    \/ Loop(i) \/ Sleep(i) \/ Switch(i) \/ Resume(i)
    \/ Down(i, "lock", mutex) \/ Hungry(i) \/ Unlock(i) \/ Down(i, "forks", i)
    \/ Down(i, "relock", mutex) \/ Put(i)

\* kernel_thread for philosopher `next'; after the last one, do_wait.
Create ==
    /\ At(initproc, "create")
    /\ k' = WakeupProc(k, next)
    /\ next' = (next + 1) % N
    /\ pc' = [pc EXCEPT ![initproc] = IF next + 1 = N THEN "wait" ELSE "create"]
    /\ UNCHANGED <<in, iter, state_sema>>

\* do_wait(pids[next]) finds a zombie, or sets init to sleep; after
\* schedule() it looks again.
Wait ==
    /\ At(initproc, "wait")
    /\ IF k.state[next] = "ZOMBIE"
       THEN /\ next' = (next + 1) % N
            /\ pc' = [pc EXCEPT ![initproc] = IF next + 1 = N THEN "done" ELSE "wait"]
            /\ UNCHANGED <<k, in>>
       ELSE /\ k' = [k EXCEPT !.state[initproc] = "SLEEPING",
                              !.wait_state[initproc] = "WT_CHILD"]
            /\ Enter(initproc, "switch")
            /\ UNCHANGED next
    /\ UNCHANGED <<iter, state_sema>>

WaitAgain ==
    /\ k.current = initproc /\ in[initproc] = "resume"
    /\ Enter(initproc, "call")
    /\ UNCHANGED <<k, iter, state_sema, next>>

CheckSync == Create \/ Wait \/ Switch(initproc) \/ WaitAgain

\* cpu_idle.
Idle ==
    /\ k.current = idleproc /\ k.need_resched[idleproc]
    /\ k' = Schedule(k)
    /\ UNCHANGED <<pc, in, iter, state_sema, next>>

Tick == k' = RunTimerList(k) /\ UNCHANGED <<pc, in, iter, state_sema, next>>

Next == CheckSync \/ (\E i \in Phils : Philosopher(i)) \/ Idle \/ Tick

Spec == Init /\ [][Next]_vars

(***************************************************************************)
(* Weak fairness of the CPU, which executes the current thread, and of the *)
(* clock, with their enabling conditions written out: a thread always has  *)
(* a step until it is done, idle has one when the tick asked for it, and a *)
(* tick that changes nothing does not count.                               *)
(***************************************************************************)
Execute == CheckSync \/ (\E i \in Phils : Philosopher(i)) \/ Idle

CanExecute ==
    IF k.current = idleproc THEN k.need_resched[idleproc]
    ELSE pc[k.current] # "done"

TickMatters ==
    k.timer_list # <<>> \/ (k.current = idleproc /\ ~k.need_resched[idleproc])

FairSpec ==
    /\ Spec
    /\ <>[]CanExecute => []<><<Execute>>_vars
    /\ <>[]TickMatters => []<><<Tick>>_vars

-----------------------------------------------------------------------------

TypeOK ==
    /\ k \in KernelStates
    /\ pc \in [Procs -> DOMAIN After \cup {"loop", "quit", "create", "wait", "done"}]
    /\ in \in [Procs -> {"call", "switch", "resume"}]
    /\ iter \in [Phils -> 0 .. TIMES]
    /\ state_sema \in [Phils -> {"THINKING", "HUNGRY", "EATING"}]
    /\ next \in Phils

\* No assert() of scheduler, timers or semaphores fails in the test.
AssertionsHold == k.ok

\* Two neighbours never eat at the same time, as the program sees it
\* (state_sema) and as the threads do it.
Eats(i) == pc[i] = "eat"
NeighboursDoNotEat ==
    \A i \in Phils :
        /\ Eats(i) => ~Eats(RIGHT(i)) \/ RIGHT(i) = i
        /\ state_sema[i] = "EATING" => state_sema[RIGHT(i)] # "EATING"

\* A philosopher asleep on its semaphore is HUNGRY and has a neighbour that
\* is EATING and whose put will test it: nobody starves for a test that was
\* made too early or a unit of s[i] that went elsewhere.
HungryHasEatingNeighbour ==
    \A i \in Phils :
        i \in ToSet(k.wait_queue[i]) =>
            /\ state_sema[i] = "HUNGRY" /\ k.value[i] = 0
            /\ \E j \in {LEFT(i), RIGHT(i)} : state_sema[j] = "EATING"

\* A unit of s[i] exists exactly from the test that lets i eat to the down
\* that takes it, so a philosopher cannot eat twice on one test.
UnitIsRightToEat ==
    \A i \in Phils :
        /\ k.value[i] <= 1
        /\ k.value[i] = 1 => state_sema[i] = "EATING" /\ ~Eats(i)

\* What the program and the kernel each keep about a philosopher agrees.
StatesAgree == TypeOK /\ AssertionsHold /\ UnitIsRightToEat

\* Everybody finishes, and check_sync reaps each of them.
AllFinish == <>(pc[initproc] = "done")
=============================================================================
