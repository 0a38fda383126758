----------------------------- MODULE SchedCore -----------------------------
(***************************************************************************)
(* The kernel services of lab7 that put processes to sleep and wake them,  *)
(* as operations on a record k of the kernel's state: the round-robin run  *)
(* queue (kern/schedule/default_sched_c.c), wakeup_proc, schedule and the  *)
(* timer list (kern/schedule/sched.c), wait queues and semaphores          *)
(* (kern/sync/wait.c, sem.c).  Each runs with interrupts off, so each is   *)
(* one operation.  A failed assert() is recorded in k.ok.                  *)
(***************************************************************************)
EXTENDS Naturals, FiniteSets, SequencesExt

CONSTANTS
    Procs,              \* processes other than idle
    idleproc,
    Sems,               \* kernel semaphores
    MAX_TIME_SLICE

All == Procs \cup {idleproc}

KernelStates == [
    state        : [All -> {"UNINIT", "RUNNABLE", "SLEEPING", "ZOMBIE"}],
    wait_state   : [All -> {"none", "WT_CHILD", "WT_TIMER", "WT_KSEM"}],
    need_resched : [All -> BOOLEAN],
    time_slice   : [All -> 0 .. MAX_TIME_SLICE],
    current      : All,
    run_list     : Seq(Procs),
    timer_list   : Seq([proc : Procs, expires : Nat]),
    value        : [Sems -> Nat],
    wait_queue   : [Sems -> Seq(Procs)],
    wakeup_flags : [All -> {"WT_INTERRUPTED", "WT_KSEM"}],
    ok           : BOOLEAN]

\* Idle runs; the processes of `started' are runnable and queued.
Boot(started, values) == [
    state        |-> [p \in All |-> IF p \in {idleproc} \cup ToSet(started)
                                    THEN "RUNNABLE" ELSE "UNINIT"],
    wait_state   |-> [p \in All |-> "none"],
    need_resched |-> [p \in All |-> p = idleproc],
    time_slice   |-> [p \in All |-> IF p \in ToSet(started) THEN MAX_TIME_SLICE ELSE 0],
    current      |-> idleproc,
    run_list     |-> started,
    timer_list   |-> <<>>,
    value        |-> values,
    wait_queue   |-> [s \in Sems |-> <<>>],
    wakeup_flags |-> [p \in All |-> "WT_INTERRUPTED"],
    ok           |-> TRUE]

Check(k, holds) == [k EXCEPT !.ok = @ /\ holds]

\* wait_state & WT_INTERRUPTED
Interruptible(ws) == ws \in {"WT_CHILD", "WT_TIMER"}

-----------------------------------------------------------------------------
(* default_sched_c.c *)

\* Mutant of RR_enqueue: at the head, as list_add does it.
RR_enqueue_AtHead(k, p) ==
    [Check(k, p \notin ToSet(k.run_list)) EXCEPT
        !.run_list = <<p>> \o @,
        !.time_slice[p] = IF @ = 0 \/ @ > MAX_TIME_SLICE THEN MAX_TIME_SLICE ELSE @]

RR_enqueue(k, p) ==
    [Check(k, p \notin ToSet(k.run_list)) EXCEPT
        !.run_list = Append(@, p),
        !.time_slice[p] = IF @ = 0 \/ @ > MAX_TIME_SLICE THEN MAX_TIME_SLICE ELSE @]

RR_dequeue(k, p) ==
    [Check(k, p \in ToSet(k.run_list)) EXCEPT !.run_list = RemoveFirst(@, p)]

RR_proc_tick(k, p) ==
    LET left == IF k.time_slice[p] > 0 THEN k.time_slice[p] - 1 ELSE 0 IN
    [k EXCEPT !.time_slice[p] = left,
              !.need_resched[p] = @ \/ left = 0]

-----------------------------------------------------------------------------
(* sched.c *)

\* Mutant of WakeupProc: the current process is queued too.
WakeupProc_QueuesCurrent(k, p) ==
    LET a == Check(k, k.state[p] # "ZOMBIE") IN
    IF k.state[p] = "RUNNABLE" THEN a
    ELSE RR_enqueue([a EXCEPT !.state[p] = "RUNNABLE", !.wait_state[p] = "none"], p)

\* The current process is not queued: schedule() will do that.  A process
\* that is runnable already is only warned about.
WakeupProc(k, p) ==
    LET a == Check(k, k.state[p] # "ZOMBIE")
        w == [a EXCEPT !.state[p] = "RUNNABLE", !.wait_state[p] = "none"]
    IN IF k.state[p] = "RUNNABLE" THEN a
       ELSE IF p = k.current \/ p = idleproc THEN w
       ELSE RR_enqueue(w, p)

Schedule(k) ==
    LET c == k.current
        a == [k EXCEPT !.need_resched[c] = FALSE]
        b == IF k.state[c] = "RUNNABLE" /\ c # idleproc THEN RR_enqueue(a, c) ELSE a
    IN IF b.run_list = <<>> THEN [b EXCEPT !.current = idleproc]
       ELSE [RR_dequeue(b, Head(b.run_list)) EXCEPT !.current = Head(b.run_list)]

\* Ticks from now until the i-th timer: timer_list holds differences.
Due(timers, i) ==
    LET due[j \in 0 .. Len(timers)] ==
            IF j = 0 THEN 0 ELSE due[j - 1] + timers[j].expires
    IN due[i]

\* Insert before the first timer that is due later.
AddTimer(k, p, ticks) ==
    LET l == k.timer_list
        later == {i \in DOMAIN l : ticks < Due(l, i)}
        n == IF later = {} THEN Len(l) ELSE Min(later) - 1
        delta == ticks - Due(l, n)
        behind == [i \in 1 .. Len(l) - n |->
                      IF i = 1 THEN [l[n + 1] EXCEPT !.expires = @ - delta] ELSE l[n + i]]
    IN [Check(k, ticks > 0 /\ \A i \in DOMAIN l : l[i].proc # p) EXCEPT
           !.timer_list =
              SubSeq(l, 1, n) \o <<[proc |-> p, expires |-> delta]>> \o behind]

\* Mutant of DelTimer: the next timer does not inherit the difference.
DelTimer_Drops(k, p) ==
    [k EXCEPT !.timer_list = SelectSeq(@, LAMBDA t : t.proc # p)]

\* p's timer, if it is still listed; the next one inherits its difference.
DelTimer(k, p) ==
    LET l == k.timer_list
        i == SelectInSeq(l, LAMBDA t : t.proc = p)
    IN IF i = 0 THEN k
       ELSE [k EXCEPT !.timer_list = RemoveAt(
                IF i = Len(l) THEN l
                ELSE [l EXCEPT ![i + 1].expires = @ + l[i].expires], i)]

\* The first timer, which has expired.
Expire(k) ==
    LET p == k.timer_list[1].proc
        ws == k.wait_state[p]
    IN DelTimer(WakeupProc(Check(k, ws # "none" => Interruptible(ws)), p), p)

\* The loop of run_timer_list: as long as the first timer is at zero.
ExpireTimers(k) ==
    LET after[i \in 0 .. Len(k.timer_list)] ==
            IF i = 0 THEN k
            ELSE LET b == after[i - 1] IN
                 IF b.timer_list # <<>> /\ b.timer_list[1].expires = 0 THEN Expire(b) ELSE b
    IN after[Len(k.timer_list)]

CountDown(k) ==
    IF k.timer_list = <<>> THEN k
    ELSE [Check(k, k.timer_list[1].expires # 0) EXCEPT !.timer_list[1].expires = @ - 1]

\* Mutant of RunTimerList: no timer is counted down while idle runs.
RunTimerList_NotIdle(k) ==
    IF k.current = idleproc THEN [k EXCEPT !.need_resched[idleproc] = TRUE]
    ELSE RR_proc_tick(ExpireTimers(CountDown(k)), k.current)

\* The timer interrupt: count down the first timer, expire those at zero,
\* charge the current process.
RunTimerList(k) ==
    LET b == ExpireTimers(CountDown(k)) IN
    IF k.current = idleproc THEN [b EXCEPT !.need_resched[idleproc] = TRUE]
    ELSE RR_proc_tick(b, k.current)

-----------------------------------------------------------------------------
(* sem.c, wait.c *)

\* Mutant of Up: the waiter leaves the queue and is not woken.
Up_NoWakeup(k, s) ==
    [k EXCEPT !.value[s] = IF k.wait_queue[s] = <<>> THEN @ + 1 ELSE @,
              !.wait_queue[s] = IF @ = <<>> THEN @ ELSE Tail(@)]

\* Mutant of Up: the value counts the unit that is handed over.
Up_CountsTwice(k, s) ==
    LET a == [k EXCEPT !.value[s] = @ + 1] IN
    IF k.wait_queue[s] = <<>> THEN a
    ELSE LET p == Head(k.wait_queue[s]) IN
         WakeupProc([a EXCEPT !.wait_queue[s] = Tail(@), !.wakeup_flags[p] = "WT_KSEM"], p)

\* __up: to the first waiter if there is one, else to the value.
Up(k, s) ==
    IF k.wait_queue[s] = <<>> THEN [k EXCEPT !.value[s] = @ + 1]
    ELSE LET p == Head(k.wait_queue[s]) IN
         WakeupProc([Check(k, k.wait_state[p] = "WT_KSEM") EXCEPT
                        !.wait_queue[s] = Tail(@),
                        !.wakeup_flags[p] = "WT_KSEM"], p)

\* __down that need not wait, and try_down.
TakeUnit(k, s) == [k EXCEPT !.value[s] = @ - 1]

\* Mutant of WaitCurrentSet: the new waiter goes to the front.
WaitCurrentSet_AtFront(k, s) ==
    LET p == k.current IN
    [k EXCEPT !.state[p] = "SLEEPING", !.wait_state[p] = "WT_KSEM",
              !.wakeup_flags[p] = "WT_INTERRUPTED",
              !.wait_queue[s] = <<p>> \o @]

\* __down that must wait, up to its schedule(): wait_current_set.
WaitCurrentSet(k, s) ==
    LET p == k.current IN
    [Check(k, \A r \in Sems : p \notin ToSet(k.wait_queue[r])) EXCEPT
        !.state[p] = "SLEEPING", !.wait_state[p] = "WT_KSEM",
        !.wakeup_flags[p] = "WT_INTERRUPTED",
        !.wait_queue[s] = Append(@, p)]

\* The rest of __down after schedule(): wait_current_del, and down()'s
\* assertion that an up() and nothing else ended the wait.
DownReturns(k, s) ==
    LET p == k.current IN
    [Check(k, k.wakeup_flags[p] = "WT_KSEM") EXCEPT !.wait_queue[s] = RemoveFirst(@, p)]

\* do_sleep up to its schedule().
SleepFor(k, ticks) ==
    LET p == k.current IN
    AddTimer([k EXCEPT !.state[p] = "SLEEPING", !.wait_state[p] = "WT_TIMER"], p, ticks)
=============================================================================
