------------------------------- MODULE Stdin --------------------------------
(***************************************************************************)
(* The keyboard device of lab8, fs/devs/dev_stdin.c, with the wait queue   *)
(* of its readers.  The readers are user processes: interrupts stay off    *)
(* during their system calls, so a step runs from one schedule() to the    *)
(* next and the timer interrupt, which polls the keyboard, comes between   *)
(* the steps.  Which runnable process goes on is left open (see Sched).    *)
(***************************************************************************)
EXTENDS Naturals, SequencesExt

CONSTANTS
    Readers,        \* the processes that read from stdin
    STDIN_BUFSIZE,
    MaxRead,        \* bound on the characters of one read
    MaxTyped        \* bound on the characters typed

ASSUME StdinAssumption ==
    STDIN_BUFSIZE \in Nat \ {0} /\ MaxRead \in Nat \ {0} /\ MaxTyped \in Nat

VARIABLES
    stdin_buffer, p_rpos, p_wpos, wait_queue,
    wakeup_flags,   \* of the wait_t on the stack of each reader
    state,          \* "runnable", "sleeping" or "zombie"
    exiting,        \* processes with PF_EXITING
    left,           \* characters that a read still wants; 0 in user mode
    typed,          \* characters typed so far; the next one is typed + 1
    received        \* history: what each process has read

vars == <<stdin_buffer, p_rpos, p_wpos, wait_queue, wakeup_flags, state,
          exiting, left, typed, received>>

Init ==
    /\ stdin_buffer = [i \in 0 .. STDIN_BUFSIZE - 1 |-> 0]
    /\ p_rpos = 0 /\ p_wpos = 0
    /\ wait_queue = <<>>
    /\ wakeup_flags = [p \in Readers |-> "WT_INTERRUPTED"]
    /\ state = [p \in Readers |-> "runnable"]
    /\ exiting = {}
    /\ left = [p \in Readers |-> 0]
    /\ typed = 0
    /\ received = [p \in Readers |-> <<>>]

-----------------------------------------------------------------------------

\* Mutant of WakeupQueue: wakeup_first.
WakeupQueue_First ==
    LET first == {Head(wait_queue)} IN
    IF wait_queue = <<>> THEN UNCHANGED <<wait_queue, wakeup_flags, state>>
    ELSE /\ wait_queue' = Tail(wait_queue)
         /\ wakeup_flags' = [p \in Readers |->
                 IF p \in first THEN "WT_KBD" ELSE wakeup_flags[p]]
         /\ state' = [p \in Readers |-> IF p \in first THEN "runnable" ELSE state[p]]

\* wakeup_queue(wait_queue, WT_KBD, 1).  A reader in the queue that a kill has
\* made runnable gets the flag, too.
WakeupQueue ==
    LET woken == ToSet(wait_queue) IN
    /\ wait_queue' = <<>>
    /\ wakeup_flags' = [p \in Readers |->
            IF p \in woken THEN "WT_KBD" ELSE wakeup_flags[p]]
    /\ state' = [p \in Readers |-> IF p \in woken THEN "runnable" ELSE state[p]]

\* Mutant of Advance: the write position does not stop at a full buffer.
Advance_Always == p_wpos' = p_wpos + 1

Advance == p_wpos' = IF p_wpos - p_rpos < STDIN_BUFSIZE THEN p_wpos + 1 ELSE p_wpos

\* dev_stdin_write, called by the timer interrupt.
Key ==
    /\ typed < MaxTyped
    /\ typed' = typed + 1
    /\ stdin_buffer' = [stdin_buffer EXCEPT ![p_wpos % STDIN_BUFSIZE] = typed']
    /\ Advance
    /\ WakeupQueue
    /\ UNCHANGED <<p_rpos, exiting, left, received>>

-----------------------------------------------------------------------------

Buffered == [i \in 1 .. p_wpos - p_rpos |-> stdin_buffer[(p_rpos + i - 1) % STDIN_BUFSIZE]]

\* The end of trap(), which every system call of p comes to: exit if killed.
TrapEnd(p) == state' = [state EXCEPT ![p] = IF p \in exiting THEN "zombie" ELSE "runnable"]

\* The loop of dev_stdin_read, up to its return or its schedule(): n characters
\* are still wanted, queue is the wait queue without p.
ReadLoop(p, n, queue) ==
    LET taken == SubSeq(Buffered, 1, Min({n, Len(Buffered)})) IN
    /\ p_rpos' = p_rpos + Len(taken)
    /\ received' = [received EXCEPT ![p] = @ \o taken]
    /\ left' = [left EXCEPT ![p] = n - Len(taken)]
    /\ IF left'[p] = 0
       THEN TrapEnd(p) /\ wait_queue' = queue /\ UNCHANGED wakeup_flags
       ELSE /\ state' = [state EXCEPT ![p] = "sleeping"]
            /\ wait_queue' = Append(queue, p)
            /\ wakeup_flags' = [wakeup_flags EXCEPT ![p] = "WT_INTERRUPTED"]
    /\ UNCHANGED <<stdin_buffer, p_wpos, exiting, typed>>

InUserMode(p) == state[p] = "runnable" /\ left[p] = 0

\* A process that was killed while it waited for the CPU at the end of trap()
\* returns to user mode and may still call read.
Read(p, n) == InUserMode(p) /\ ReadLoop(p, n, wait_queue)

\* Mutant of WaitCurrentDel: the wait_t of an interrupted read stays queued.
WaitCurrentDel_Not(p) == wait_queue

WaitCurrentDel(p) == RemoveFirst(wait_queue, p)

\* After schedule() in dev_stdin_read: try again after a key, else return.
Resume(p) ==
    /\ state[p] = "runnable" /\ left[p] > 0
    /\ IF wakeup_flags[p] = "WT_KBD"
       THEN ReadLoop(p, left[p], WaitCurrentDel(p))
       ELSE /\ wait_queue' = WaitCurrentDel(p)
            /\ left' = [left EXCEPT ![p] = 0]
            /\ TrapEnd(p)
            /\ UNCHANGED <<stdin_buffer, p_rpos, p_wpos, wakeup_flags, exiting,
                           typed, received>>

\* do_kill, by any process.  It leaves the wait_t of a reader in the queue.
Kill(p) ==
    /\ state[p] # "zombie" /\ p \notin exiting
    /\ exiting' = exiting \cup {p}
    /\ state' = [state EXCEPT ![p] = "runnable"]
    /\ UNCHANGED <<stdin_buffer, p_rpos, p_wpos, wait_queue, wakeup_flags, left,
                   typed, received>>

\* A call of exit, or the end of trap() after a tick in user mode.
Exit(p) ==
    /\ InUserMode(p)
    /\ state' = [state EXCEPT ![p] = "zombie"]
    /\ UNCHANGED <<stdin_buffer, p_rpos, p_wpos, wait_queue, wakeup_flags,
                   exiting, left, typed, received>>

Next ==
    \/ Key
    \/ \E p \in Readers : \/ \E n \in 1 .. MaxRead : Read(p, n)
                          \/ Resume(p)
                          \/ Kill(p)
                          \/ Exit(p)

Spec == Init /\ [][Next]_vars

-----------------------------------------------------------------------------

\* No reader sleeps while there are characters: between the test of the
\* positions and the sleep in dev_stdin_read no key is lost, whatever other
\* readers take and whoever is killed.
NoLostReader == \A p \in Readers : state[p] = "sleeping" => p_rpos = p_wpos

\* The wait queue holds the wait_t of processes that are inside
\* dev_stdin_read, once each, for it is on their stacks; so wakeup_queue never
\* wakes a zombie.  Every sleeper is queued.
NoDanglingWait ==
    /\ IsInjective(wait_queue)
    /\ \A p \in ToSet(wait_queue) : left[p] > 0 /\ state[p] # "zombie"
    /\ \A p \in Readers : state[p] = "sleeping" => p \in ToSet(wait_queue)

(***************************************************************************)
(* Refinement: the ring buffer and the loop of dev_stdin_read hand out the *)
(* characters as KeyBuffer says.                                           *)
(***************************************************************************)
Promise == INSTANCE KeyBuffer WITH keys <- Buffered

ImplementsKeyBuffer == Promise!Spec
=============================================================================
