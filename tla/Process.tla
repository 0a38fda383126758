------------------------------ MODULE Process ------------------------------
(***************************************************************************)
(* Processes of lab5: do_fork, do_exit, do_wait, do_kill, do_yield and     *)
(* do_execve (kern/process/proc.c), schedule and wakeup_proc               *)
(* (kern/schedule/sched.c), the end of trap() (kern/trap/trap.c), and the  *)
(* kernel threads idle, init and user_main.                                *)
(*                                                                         *)
(* The kernel is not preemptive: a process leaves the CPU only in a call   *)
(* of schedule().  A step is what the current process does up to the next  *)
(* such call, or up to a point where the model splits the handler from the *)
(* end of trap(); nobody else moves at such a point, for `current' is the  *)
(* only process with enabled actions.                                      *)
(***************************************************************************)
EXTENDS ProcLinks

CONSTANTS
    MAX_PROCESS,
    KillTargets,    \* pids a user program passes to kill
    NoMemory,       \* calls of do_fork that may run out of memory
    MaxLostStacks   \* bound: kernel stacks lost before memory suffices again

ASSUME ProcessAssumption ==
    /\ UserPids \subseteq Nat /\ IsFiniteSet(UserPids) /\ initproc \in Nat
    /\ KillTargets \subseteq UserPids \cup {initproc}
    /\ NoMemory \subseteq {"alloc_proc", "setup_kstack", "copy_mm"}
    /\ MAX_PROCESS \in Nat /\ MaxLostStacks \in Nat
    /\ NULL \notin Nat

VARIABLES
    state,          \* "free": no proc_struct
    wait_state,     \* "none" (0) or "WT_CHILD"
    exiting,        \* PF_EXITING of flags
    need_resched,
    links,          \* parent, cptr, yptr, optr
    proc_list,      \* from the head; idle is not on it
    nr_process,
    current,
    pc,             \* where the process is, or where it resumes
    waitPid,        \* argument of the do_wait the process is in
    kstacks,        \* kernel stacks allocated by setup_kstack and not freed
    panic           \* message of the panic that stopped the kernel

procVars == <<state, wait_state, exiting, links, proc_list, nr_process, waitPid>>
vars == <<procVars, need_resched, current, pc, kstacks, panic>>

(***************************************************************************)
(* pc: "user" in user mode, or switched out on the way back to it;         *)
(* "trap" the handler returned, the end of trap() is next; "wait" switched *)
(* out inside do_wait; "zombie"; and, for the kernel threads, "idle",      *)
(* "init_main" before it forks user_main, "loop" at the do_wait of its     *)
(* loop, "reaped" at the schedule() of its loop, "checks" after the loop,  *)
(* "user_main" before its exec.                                            *)
(***************************************************************************)
KernelIdle == {"idle", "user_main"}

\* The state proc_init leaves: idle runs, init is its child.
Init ==
    LET only(p, x, other) == [q \in Procs |-> IF q = p THEN x ELSE other] IN
    /\ state = [q \in Procs |-> IF q \in UserPids THEN "free" ELSE "RUNNABLE"]
    /\ wait_state = [q \in Procs |-> "none"]
    /\ exiting = [q \in Procs |-> FALSE]
    /\ need_resched = only(idleproc, TRUE, FALSE)
    /\ links = [parent |-> only(initproc, idleproc, NULL),
                cptr   |-> only(idleproc, initproc, NULL),
                yptr   |-> only(idleproc, NULL, NULL),
                optr   |-> only(idleproc, NULL, NULL)]
    /\ proc_list = <<initproc>> /\ nr_process = 2
    /\ current = idleproc
    /\ pc = [q \in Procs |-> CASE q = idleproc -> "idle"
                               [] q = initproc -> "init_main"
                               [] OTHER -> "free"]
    /\ waitPid = [q \in Procs |-> NULL]
    /\ kstacks = 1
    /\ panic = "none"

-----------------------------------------------------------------------------
(* sched.c *)

\* wakeup_proc on those of S whose wait_state is WT_CHILD, the test every
\* caller of lab5 makes before the call.
Sleepers(S) == {q \in S : wait_state[q] = "WT_CHILD"}

\* Mutant of Wakeup: init alone is woken.
Wakeup_OnlyInit(S, st) ==
    LET woken == Sleepers(S \cap {initproc}) IN
    /\ state' = [q \in Procs |-> IF q \in woken THEN "RUNNABLE" ELSE st[q]]
    /\ wait_state' = [q \in Procs |-> IF q \in woken THEN "none" ELSE wait_state[q]]

Wakeup(S, st) ==
    /\ state' = [q \in Procs |-> IF q \in Sleepers(S) THEN "RUNNABLE" ELSE st[q]]
    /\ wait_state' = [q \in Procs |-> IF q \in Sleepers(S) THEN "none" ELSE wait_state[q]]

\* Mutant of NextToRun: every search starts at the head of the list.
NextToRun_FromHead(p, st, list) ==
    LET k == SelectInSeq(list, LAMBDA q : st[q] = "RUNNABLE")
    IN IF k = 0 THEN idleproc ELSE list[k]

\* The first runnable process after p on the circular list, p itself last;
\* idle starts at the head and is the answer when there is none.
NextToRun(p, st, list) ==
    LET pos == IF p = idleproc THEN 0 ELSE SelectInSeq(list, LAMBDA q : q = p)
        order == SubSeq(list, pos + 1, Len(list)) \o SubSeq(list, 1, pos)
        k == SelectInSeq(order, LAMBDA q : st[q] = "RUNNABLE")
    IN IF k = 0 THEN idleproc ELSE order[k]

\* schedule(), called after the rest of the step.
Schedule ==
    /\ need_resched' = [need_resched EXCEPT ![current] = FALSE]
    /\ current' = NextToRun(current, state', proc_list')

NoSwitch == UNCHANGED <<current, need_resched>>

Goto(p, l) == pc' = [pc EXCEPT ![p] = l]

-----------------------------------------------------------------------------
(* proc.c *)

\* do_fork with enough memory, for a child that starts at label l.
ForkChild(p, c, l, next) ==
    /\ nr_process < MAX_PROCESS
    /\ state[c] = "free"
    /\ state' = [state EXCEPT ![c] = "RUNNABLE"]
    /\ links' = SetLinks([links EXCEPT !.parent[c] = p], c)
    /\ proc_list' = <<c>> \o proc_list
    /\ nr_process' = nr_process + 1
    /\ kstacks' = kstacks + 1
    /\ pc' = [pc EXCEPT ![c] = l, ![p] = next]
    /\ NoSwitch
    /\ UNCHANGED <<wait_state, exiting, waitPid, panic>>

\* do_fork without a process or memory for it.  The labels its failures
\* jump to are swapped: a failed setup_kstack frees a stack there is not,
\* and PADDR panics; a failed copy_mm leaves the stack allocated.
ForkFails ==
    \/ /\ \/ nr_process >= MAX_PROCESS
          \/ nr_process < MAX_PROCESS /\ "alloc_proc" \in NoMemory
       /\ UNCHANGED <<kstacks, panic>>
    \/ /\ nr_process < MAX_PROCESS /\ "setup_kstack" \in NoMemory
       /\ panic' = "PADDR_invalid_kva"
       /\ UNCHANGED kstacks
    \/ /\ nr_process < MAX_PROCESS /\ "copy_mm" \in NoMemory
       /\ kstacks < Len(proc_list) + MaxLostStacks
       /\ kstacks' = kstacks + 1
       /\ UNCHANGED panic

\* Mutant of Heir: init is not told of the zombies it inherits.
Heir_None(kids) == {}

\* Whom the loop of do_exit wakes for the zombies among the children.
Heir(kids) == IF \E c \in kids : state[c] = "ZOMBIE" THEN {initproc} ELSE {}

\* do_exit: zombie, wake the parent, give the children to init and wake it
\* if one of them is a zombie, schedule.
DoExit(p) ==
    IF p = initproc
    THEN /\ panic' = "initproc_exit"
         /\ NoSwitch
         /\ UNCHANGED <<procVars, pc, kstacks>>
    ELSE LET kids == ToSet(Children(links, p))
         IN /\ Wakeup({links.parent[p]} \cup Heir(kids), [state EXCEPT ![p] = "ZOMBIE"])
            /\ links' = AdoptAll(links, p, initproc)
            /\ Goto(p, "zombie")
            /\ waitPid' = [waitPid EXCEPT ![p] = NULL]
            /\ UNCHANGED <<exiting, proc_list, nr_process, kstacks, panic>>
            /\ Schedule

\* Mutant of Searched: do_wait(pid) accepts a process of somebody else.
Searched_AnyParent(p, t) ==
    IF t = AnyChild THEN Children(links, p)
    ELSE IF t \in UserPids /\ state[t] # "free" THEN <<t>> ELSE <<>>

\* The children do_wait(t) looks at: the chain, or find_proc(t) if it is
\* a child.
Searched(p, t) ==
    IF t = AnyChild THEN Children(links, p)
    ELSE IF t \in Procs \ {idleproc} /\ state[t] # "free" /\ links.parent[t] = p
         THEN <<t>> ELSE <<>>

FirstZombie(p, t) ==
    SelectInSeq(Searched(p, t), LAMBDA c : state[c] = "ZOMBIE")

\* Mutant of ForgetProcess: nr_process still counts the process.
ForgetProcess_StillCounted(c) ==
    /\ links' = [RemoveLinks(links, c) EXCEPT !.parent[c] = NULL, !.cptr[c] = NULL,
                                                !.yptr[c] = NULL, !.optr[c] = NULL]
    /\ proc_list' = RemoveFirst(proc_list, c)
    /\ UNCHANGED nr_process

\* remove_links; the fields of c itself are gone with its proc_struct.
ForgetProcess(c) ==
    /\ links' = [RemoveLinks(links, c) EXCEPT !.parent[c] = NULL, !.cptr[c] = NULL,
                                                !.yptr[c] = NULL, !.optr[c] = NULL]
    /\ proc_list' = RemoveFirst(proc_list, c)
    /\ nr_process' = nr_process - 1

\* put_kstack.
PutKstack == kstacks' = kstacks - 1

\* Label `found': unhash, unlink, free the stack and the proc_struct.
DoWaitReap(p, t, next) ==
    LET k == FirstZombie(p, t)
        c == Searched(p, t)[k]
    IN /\ k # 0
       /\ state' = [state EXCEPT ![c] = "free"]
       /\ exiting' = [exiting EXCEPT ![c] = FALSE]
       /\ ForgetProcess(c)
       /\ PutKstack
       /\ pc' = [pc EXCEPT ![c] = "free", ![p] = next]
       /\ waitPid' = [waitPid EXCEPT ![p] = NULL]
       /\ NoSwitch
       /\ UNCHANGED <<wait_state, panic>>

\* Children, none a zombie: sleep.
DoWaitSleep(p, t) ==
    /\ Searched(p, t) # <<>> /\ FirstZombie(p, t) = 0
    /\ state' = [state EXCEPT ![p] = "SLEEPING"]
    /\ wait_state' = [wait_state EXCEPT ![p] = "WT_CHILD"]
    /\ waitPid' = [waitPid EXCEPT ![p] = t]
    /\ Goto(p, "wait")
    /\ UNCHANGED <<exiting, links, proc_list, nr_process, kstacks, panic>>
    /\ Schedule

\* No such child: -E_BAD_PROC.
DoWaitFails(p, t, next) ==
    /\ Searched(p, t) = <<>>
    /\ waitPid' = [waitPid EXCEPT ![p] = NULL]
    /\ Goto(p, next)
    /\ NoSwitch
    /\ UNCHANGED <<state, wait_state, exiting, links, proc_list, nr_process,
                   kstacks, panic>>

DoWait(p, t) ==
    \/ DoWaitReap(p, t, IF p = initproc THEN "reaped" ELSE "trap")
    \/ DoWaitSleep(p, t)
    \/ DoWaitFails(p, t, IF p = initproc THEN "checks" ELSE "trap")

-----------------------------------------------------------------------------
(* System calls and interrupts of a user process; p is the current one. *)

SysFork(p) ==
    /\ pc[p] = "user"
    /\ \/ \E c \in UserPids : ForkChild(p, c, "user", "trap")
       \/ /\ ForkFails
          /\ Goto(p, "trap")
          /\ NoSwitch
          /\ UNCHANGED procVars

SysExit(p) == pc[p] = "user" /\ DoExit(p)

SysWait(p) == pc[p] = "user" /\ \E t \in Procs : DoWait(p, t)

\* do_kill on a process that exists and was not killed before; every other
\* outcome returns an error and is a SysOther.
SysKill(p) ==
    /\ pc[p] = "user"
    /\ \E q \in KillTargets :
          /\ state[q] # "free" /\ ~exiting[q]
          /\ exiting' = [exiting EXCEPT ![q] = TRUE]
          /\ Wakeup({q}, state)
    /\ Goto(p, "trap")
    /\ NoSwitch
    /\ UNCHANGED <<links, proc_list, nr_process, waitPid, kstacks, panic>>

\* do_yield, and every TICK_NUM-th timer interrupt.
AskResched(p) ==
    /\ pc[p] = "user"
    /\ need_resched' = [need_resched EXCEPT ![p] = TRUE]
    /\ Goto(p, "trap")
    /\ UNCHANGED <<procVars, current, kstacks, panic>>

SysYield(p) == AskResched(p)
UserTick(p) == AskResched(p)

\* Calls and interrupts that change none of this state: getpid, putc, a
\* call that returns an error, the other timer interrupts; exec, which
\* replaces the memory of the process, when it succeeds.
SysOther(p) ==
    /\ pc[p] = "user"
    /\ Goto(p, "trap")
    /\ NoSwitch
    /\ UNCHANGED <<procVars, kstacks, panic>>

\* exec that fails after it gave up the old memory.
SysExecFails(p) == pc[p] = "user" /\ DoExit(p)

\* Mutant of TrapEnd: a process that must yield is not asked whether it was
\* killed.
TrapEnd_NoExit(p) ==
    /\ pc[p] = "trap"
    /\ IF need_resched[p] THEN UNCHANGED procVars /\ Schedule
                          ELSE UNCHANGED procVars /\ NoSwitch
    /\ Goto(p, "user")
    /\ UNCHANGED <<kstacks, panic>>

\* The end of trap(): a killed process exits, one that must yields.
TrapEnd(p) ==
    /\ pc[p] = "trap"
    /\ \/ exiting[p] /\ DoExit(p)
       \/ /\ ~exiting[p]
          /\ IF need_resched[p]
             THEN UNCHANGED procVars /\ Schedule
             ELSE UNCHANGED procVars /\ NoSwitch
          /\ Goto(p, "user")
          /\ UNCHANGED <<kstacks, panic>>

\* do_wait after its schedule() returned.
WaitResumes(p) ==
    /\ pc[p] = "wait"
    /\ \/ exiting[p] /\ DoExit(p)
       \/ ~exiting[p] /\ DoWait(p, waitPid[p])

-----------------------------------------------------------------------------
(* Kernel threads. *)

\* cpu_idle.
IdleLoop(p) ==
    /\ pc[p] = "idle" /\ need_resched[p]
    /\ UNCHANGED <<procVars, pc, kstacks, panic>>
    /\ Schedule

\* A timer interrupt in kernel mode only sets the flag.  That of init is
\* reset by the schedule() it is about to call and read by nobody.
KernelTick(p) ==
    /\ pc[p] \in KernelIdle /\ ~need_resched[p]
    /\ need_resched' = [need_resched EXCEPT ![p] = TRUE]
    /\ UNCHANGED <<procVars, current, pc, kstacks, panic>>

\* init_main forks user_main; it has no mm to copy, and panics on failure.
InitMain(p) ==
    /\ pc[p] = "init_main"
    /\ \E c \in UserPids : ForkChild(p, c, "user_main", "loop")

InitWaits(p) == pc[p] = "loop" /\ DoWait(p, AnyChild)

InitYields(p) ==
    /\ pc[p] = "reaped"
    /\ Goto(p, "loop")
    /\ UNCHANGED <<procVars, kstacks, panic>>
    /\ Schedule

\* After the loop: the assertions, then the return from init_main, which
\* kernel_thread_entry follows with do_exit.
InitChecks(p) ==
    /\ pc[p] = "checks"
    /\ panic' = IF /\ links.cptr[p] = NULL /\ links.yptr[p] = NULL
                   /\ links.optr[p] = NULL
                   /\ nr_process = 2 /\ proc_list = <<p>>
                THEN "initproc_exit" ELSE "assertion_failed"
    /\ NoSwitch
    /\ UNCHANGED <<procVars, pc, kstacks>>

\* user_main's exec of the first program, through a trap taken in kernel
\* mode: trap() ends without looking at the flags.
UserMain(p) ==
    /\ pc[p] = "user_main"
    /\ \/ /\ Goto(p, "user")
          /\ NoSwitch
          /\ UNCHANGED <<procVars, kstacks, panic>>
       \/ DoExit(p)

-----------------------------------------------------------------------------

\* What the kernel does on its own, whatever the user programs want.
KernelStep(p) ==
    \/ TrapEnd(p) \/ WaitResumes(p) \/ IdleLoop(p) \/ InitMain(p)
    \/ InitWaits(p) \/ InitYields(p) \/ InitChecks(p) \/ UserMain(p)

UserStep(p) ==
    \/ SysFork(p) \/ SysExit(p) \/ SysWait(p) \/ SysKill(p)
    \/ SysYield(p) \/ SysOther(p) \/ SysExecFails(p)

Running == panic = "none"

\* panic() never returns.
Stopped == ~Running /\ UNCHANGED vars

Next ==
    \/ Running /\ \E p \in {current} :
          KernelStep(p) \/ UserStep(p) \/ UserTick(p) \/ KernelTick(p)
    \/ Stopped

Spec == Init /\ [][Next]_vars

(***************************************************************************)
(* The CPU executes kernel code to its end, and the clock keeps ticking: a *)
(* tick that arrives while interrupts are off is taken on the return to    *)
(* user mode, so a program cannot escape it by making system calls.        *)
(***************************************************************************)
FairSpec ==
    /\ Spec
    /\ WF_vars(Running /\ KernelStep(current))
    /\ WF_vars(Running /\ KernelTick(current))
    /\ SF_vars(Running /\ UserTick(current))

-----------------------------------------------------------------------------

Alive == {q \in Procs : state[q] # "free"}
PCs == {"free", "user", "trap", "wait", "zombie", "idle", "init_main", "loop",
        "reaped", "checks", "user_main"}

TypeOK ==
    /\ state \in [Procs -> {"free", "RUNNABLE", "SLEEPING", "ZOMBIE"}]
    /\ wait_state \in [Procs -> {"none", "WT_CHILD"}]
    /\ exiting \in [Procs -> BOOLEAN] /\ need_resched \in [Procs -> BOOLEAN]
    /\ links \in Links
    /\ proc_list \in Seq(Procs) /\ nr_process \in Nat /\ kstacks \in Nat
    /\ current \in Procs
    /\ pc \in [Procs -> PCs]
    /\ waitPid \in [Procs -> Procs \cup {NULL}]
    /\ panic \in {"none", "initproc_exit", "assertion_failed",
                  "PADDR_invalid_kva"}

\* Through forks, exits that hand whole chains to init and reaps from the
\* middle of a chain, the three sibling pointers stay one doubly linked list
\* per parent (proc.c:139-165, 506-521).
LinksWellFormed == WellFormed(links, Alive)

\* proc_list holds every process but idle once, and nr_process counts it
\* with idle (what init_main asserts at the end, proc.c:877-879).
ListMatchesProcesses ==
    /\ IsInjective(proc_list)
    /\ ToSet(proc_list) = Alive \ {idleproc}
    /\ nr_process = Len(proc_list) + 1

\* wakeup_proc is only called on a sleeping process: neither its assertion
\* nor its warning fires (sched.c:9, 18), for wait_state and state agree.
WakeupOnlySleepers ==
    \A q \in Procs : wait_state[q] = "WT_CHILD" <=> state[q] = "SLEEPING"

\* As long as a process is left, not everybody sleeps: each sleeper waits
\* for a descendant that runs, so the CPU never idles for good (lab5 has no
\* interrupt that could wake anybody).
SomebodyRuns == \E q \in Procs \ {idleproc} : state[q] = "RUNNABLE"

\* The assertions of init_main never fail, not even after failed forks and
\* a kill(1), and init ends only when all its descendants are gone, unless
\* it is killed (proc.c:875-879).
OnlyInitEndsIt ==
    /\ panic # "assertion_failed"
    /\ panic = "initproc_exit" => Alive = {idleproc, initproc} \/ exiting[initproc]

\* The fields of a process, the process list and its counter tell the same
\* story.
StructuresAgree == TypeOK /\ ListMatchesProcesses /\ WakeupOnlySleepers

\* Processes, without links, list and scheduler.
UserAndInit == UserPids \cup {initproc}
Tree == INSTANCE ProcTree WITH
    state <- [q \in UserAndInit |-> state[q]],
    parent <- [q \in UserAndInit |->
                  IF q = initproc THEN NULL ELSE links.parent[q]],
    waitFor <- [q \in UserAndInit |-> waitPid[q]],
    exiting <- [q \in UserAndInit |-> exiting[q]]

ImplementsProcTree == Tree!Spec

\* No process that can run is passed over for ever, whatever the others
\* fork and kill: the scan resumes after the current process and new ones
\* are linked at the head (sched.c:32-43).
EveryoneRuns ==
    \A q \in Procs \ {idleproc} :
        state[q] = "RUNNABLE" ~> current = q \/ state[q] # "RUNNABLE" \/ ~Running

\* A zombie whose parent is init is reaped (proc.c:871-873).
InitReaps ==
    \A q \in UserPids :
        state[q] = "ZOMBIE" /\ links.parent[q] = initproc
            ~> state[q] = "free" \/ ~Running

\* A killed process that stays in user mode is shut down at its next trap;
\* one that is in do_wait may stay there (see KillShutsDown).
KilledLeavesUserMode ==
    \A q \in UserPids :
        exiting[q] ~> pc[q] \in {"wait", "zombie", "free"} \/ ~Running

\* PF_EXITING: `getting shutdown' (proc.h:61).  A killed process ends.
KillShutsDown ==
    \A q \in UserPids :
        exiting[q] ~> state[q] \in {"ZOMBIE", "free"} \/ ~Running

\* Only a process holds a kernel stack, so that do_wait frees all of them.
NoLostStack == kstacks = Cardinality(Alive \ {idleproc})
=============================================================================
