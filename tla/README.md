# A TLA+ development of the uCore labs

This directory specifies and verifies the core of the teaching kernel in this
repository (uCore on RISC-V, `lab0` to `lab8`). Each lab is a copy of the one
before it with a subsystem added, but labs 6 to 8 leave the bodies of earlier
exercises empty. Every part is therefore modelled from the lab in which it is
complete:

| part | lab | files |
|---|---|---|
| processes, fork, exit, wait, kill, first scheduler | lab5 | `kern/process/proc.c`, `kern/schedule/sched.c`, `kern/trap/trap.c` |
| round robin, timers, wait queues, semaphores, philosophers | lab7 | `kern/schedule/`, `kern/sync/` |
| copy-on-write, page faults, kernel heap | lab5 | `kern/mm/` |
| page frame allocators | lab2 | `kern/mm/*_pmm.c` |
| page replacement | lab3 | `kern/mm/swap*.c` |
| files, VFS, SFS, devices | lab8 | `kern/fs/` |

Where the models of lab7 need code that lab7 leaves empty (`alloc_proc`, the
middle of `do_fork`), they take what lab5 does, together with the fields that the
exercise text lists: a new process is on no run queue and has no time slice.

## 1. Inventory

One CPU runs the whole system. The kernel is not preemptive: the end of `trap()`
calls `schedule()` only on the way back to user mode, so code in the kernel is
interrupted by the timer and the keyboard but loses the CPU only where it calls
`schedule()` itself. What makes the code hard is what happens around those calls.

**Process identifiers** (`get_pid`). State: the static integers `last_pid` and
`next_safe`, and `proc_list`. `next_safe` is a cache that is trusted while
processes come and go. Correct: the pid is not in use, and is the next free one.

**Process life cycle** (`do_fork`, `do_exit`, `do_wait`, `do_kill`, `do_yield`,
`do_execve`, `init_main`, `user_main`). State per process: `state`,
`wait_state`, `flags`, `need_resched`, the links `parent`, `cptr`, `yptr`, `optr`;
globally `proc_list`, `nr_process`, `current`. Processes interact by waking one
another through `wakeup_proc` and by handing children over to init. Hard: an
exit against a wait, a kill against either, handing over chains with zombies, a
fork that fails halfway. Correct: links form one doubly linked chain per parent;
no process misses the exit of a child; every zombie is reaped; the list and its
counter agree; init's final assertions hold.

**Scheduler of lab5**: circular scan of `proc_list` from the current process.
Correct: nobody is passed over.

**Round robin and timers (lab7)**. State: the run queue with a time slice per
process, `timer_list` with relative expiries. Operations: enqueue, dequeue, pick,
tick, `add_timer`, `del_timer`, `run_timer_list`, `do_sleep`. The timer interrupt
calls into it anywhere interrupts are on, and `do_sleep` restores them *before*
it calls `schedule()`. Correct: the run queue holds each runnable process once;
every sleep ends at its tick, also when other sleepers are killed.

**Wait queues and semaphores (lab7)**. State: `value` and `wait_queue` of each
semaphore, `wakeup_flags` of each wait. Used by the philosophers, the monitors
and the file system (as locks). Correct: units are conserved, handed out in
order, no waiter is lost, and only `up` ends a `down`.

**Philosophers (lab7)**: kernel threads on one mutex and a semaphore each.
Correct: neighbours never eat together, a hungry philosopher always has an eating
neighbour that will test it, the test ends.

**Page frame allocators (lab2)**: first fit, best fit, buddy and slub: free lists
of blocks with `property` and `nr_free`, merged when pages are freed. Correct:
blocks are disjoint, counters agree with the lists, what is freed can be
allocated again.

**Page replacement (lab3)**: FIFO, clock and LRU lists per `mm`, `swap_out`,
`swap_in`, `do_pgfault`; LRU makes pages unreadable to see them used. Hard: the clock
hand when the page under it goes, rights and the TLB in the second fault. Correct: the
list holds the resident pages; a page is either mapped or on disk with its last
contents; every access that its region permits completes.

**Virtual memory and copy-on-write (lab5)**: `mm`, vmas, page tables, reference
counts; `copy_range` at fork, `do_pgfault` and its branch `cow_pgfault` at a fault.
(`cow_copy_mm`, which would share pages at fork, is commented out in `do_fork`.)
Correct: contents are private, reference counts equal the number of mappings, a
fault gives no more rights than the region has.

**Kernel heap (lab5)**: the SLOB free list and the list of big blocks. Correct:
blocks are disjoint, ordered and merged.

**Open files and VFS (lab8)**: `fd_array` entries (`FD_NONE`, `FD_INIT`,
`FD_OPENED`, `FD_CLOSED`) with counts, inodes with reference and open counts, the
list of devices. Every process has a table of its own (`CLONE_FS` is never passed);
fork duplicates the entries, so the inodes are shared. Hard: the counts through forks,
execs, exits and calls that fail in the middle. Correct: the counts of an
inode equal the entries and directories that name it; it is reclaimed when nobody
holds it.

**SFS (lab8)**: cache of inodes with `reclaim_count`, locks per file system and
inode, the block map and the free map. The disk is a RAM disk, so no operation
sleeps while it holds a lock, and the locks are never contended. Hard: two counts
that long sequences of lookups and reclaims must keep in step. Correct: one inode in
memory per number; blocks used once; the free map agrees with the inodes.

**Devices (lab8)**: the keyboard ring buffer, filled by the timer interrupt, and
its waiting readers. Correct: each character is read once, no reader sleeps while
there are characters, and a wait, which lives on the reader's stack, leaves the queue
before the read returns, also after a kill.

**Left aside**: boot code, context switch and trap entry (straight-line machine
code), drivers and console (input and output), libraries (formatting, strings,
lists), user programs (the models let a program make any call at any time),
`mksfs` (runs on the host), the monitor and the stride scheduler (exercises whose
bodies the repository leaves empty).

The hazards of each part, at the line where they bite, are in `PROJECT.json`.

## 2. Modules

| module | models | used by |
|---|---|---|
| `PidNextFit` | what `get_pid` promises: the first free pid after the last one | `PidAlloc` |
| `PidAlloc` | `get_pid`, one scan iteration per step | `PidAllocProof`, `MCPidAlloc` |
| `PidAllocProof` | proofs about `PidAlloc` | |
| `ProcIds` | the constants that the next modules share, with their assumption | `ProcTree`, `Process` |
| `ProcTree` | what fork, exit, wait and kill promise one another, under any scheduling | `Process` |
| `ProcLinks` | `set_links`, `remove_links` and the loop of `do_exit`, on records of pointers | `Process` |
| `Process` | the processes of lab5: system calls, end of `trap()`, scheduler, init, `user_main` | `ProcessProof`, `MCProcess` |
| `ProcessProof` | proofs about `Process`, `ProcLinks` and the life cycle `ProcTree` | |
| `SchedCore` | run queue, timers, wait queues, semaphores of lab7, as operators on a kernel state | `Sched`, `Philosophers` |
| `Sched` | processes of lab7 that sleep, use semaphores, kill, yield, exit, under the timer | `SchedProof`, `MCSched` |
| `SchedProof` | proofs about `Sched` and `SchedCore` | |
| `Philosophers` | the first half of `check_sync` on `SchedCore` | `MCPhilosophers` |
| `FreeFrames` | what first fit and best fit promise, on the set of free frames | `Frames` |
| `Frames` | `default_pmm.c` and `best_fit_pmm.c` of lab2, on the linked list of blocks | `MCFrames` |
| `PlainMemory` | what page replacement promises the program: a memory | `Swap` |
| `Swap` | page faults of lab3 with the three replacement managers, swapping out and in | `SwapProof`, `MCSwap` |
| `SwapProof` | proofs about `Swap` | |
| `SwapExpected` | what comments of lab3 say of page replacement and its code does not do | (see Findings) |
| `Heap` | what `kmalloc` and `kfree` promise: blocks that do not overlap | `Slob` |
| `Slob` | `kmalloc.c` of lab5: the SLOB list and the list of big blocks | `MCSlob` |
| `PrivateMemory` | what fork, exec and page faults promise a process: memory of its own | `UserMemory` |
| `UserMemory` | page tables, rights and reference counts of lab5 through fork, faults, exec, exit | `UserMemoryProof`, `MCUserMemory` |
| `UserMemoryProof` | proofs about `UserMemory` | |
| `OpenFiles` | what the file calls promise a process: descriptors of its own, files they share | `Files` |
| `Files` | descriptor tables, inode counts and the inode cache of lab8 | `FilesProof`, `MCFiles` |
| `FilesProof` | proofs about `Files` | |
| `KeyBuffer` | what the keyboard device promises its readers | `Stdin` |
| `Stdin` | `dev_stdin.c` of lab8 with its wait queue, the interrupt and `do_kill` | `StdinProof`, `MCStdin` |
| `StdinProof` | proofs about `Stdin` | |
| `ListLemmas` | lemmas about lists without repetitions, and least numbers | `ProcessProof`, `SchedProof`, `StdinProof`, `SwapProof`, `FilesProof` |

The modules whose names begin with `MC` give the constants of a run that a `.cfg` cannot.

Operators whose name is another definition's with a suffix (`Exit_InitNotWoken`)
and whose comment says *Mutant of* are not used by any specification. They are
plausible bugs: with a mutant in place of its definition, the property that
`PROJECT.json` names for it is violated, which shows that the property depends on
what the code does.

### PidAlloc

`live` is the set of pids on `proc_list`; `last_pid` and `next_safe` are the
static variables; `todo` is the part of the list the scan has not visited. `Enter`
is the code up to the loop; `Visit` one iteration, on a process with the pid
tried (`VisitTaken`) or with another (`VisitOther`); `Return` the rest of
`do_fork`, which links the process; `Reap` the removal in `do_wait`, between two
calls. The list is visited in any order: nothing depends on it. `prev` is a
history variable, the value of `last_pid` at the call, used by the refinement.

### ProcTree and Process

`Process` is the code: a step of the current process runs to its next call of
`schedule()`, except that the handler of a system call and the end of `trap()`
are two steps (nothing can happen between them, for `current` does not change).
`pc` says where a process resumes. `links`, `proc_list`, `nr_process`, `state`,
`wait_state`, `need_resched` and `exiting` (`PF_EXITING`) are the fields of the
code; `kstacks` counts kernel stacks; `panic` records which panic stopped the
kernel. A user program is a process at pc `"user"` that may make any call.

* `do_fork` takes any unused pid. `PidAlloc` justifies that: `get_pid` returns an
  unused one, and any can come up.
* A successful exec changes nothing that is modelled (memory is not) and is a
  `SysOther`; a failing one exits.
* `do_kill` on a dead, missing or already killed process returns an error and is
  a `SysOther` too.
* Exit codes, memory and the user-space check of `code_store` are not modelled;
  the latter's failure is an error return, a `SysOther`.
* The code does not protect init from `kill`. `KillTargets` contains it in the run
  `process`: `do_exit` then panics, as the code does.
* `NoMemory` names the calls of `do_fork` that may fail, and `MaxLostStacks` bounds
  the stacks that the bug in the error labels can lose.

`ProcTree` has the same operations without links, list, scheduler and kernel
threads: any runnable process may take the next step, and children are found by
`parent`. `Process` implements it (`ImplementsProcTree`) under the mapping at the
end of `Process.tla`: pointers and lists disappear, `waitPid` becomes `waitFor`.

### SchedCore, Sched and Philosophers

Everything in `SchedCore` runs with interrupts off, so each function of the code
is an operator from kernel state to kernel state. A failed `assert` is recorded in
`k.ok`, and the runs show that it stays `TRUE`.

`Sched` has *user processes*, whose system calls cannot be interrupted but which
the timer preempts in user mode, and *kernel threads*, which the timer interrupts
anywhere, but which the end of `trap()` does not switch out. `do_sleep` and `__down`
restore interrupts before they call `schedule()`. On a kernel thread a tick, and so
a wakeup of the very process that is about to switch out, can come in between; pc
`"sleeping"` and `"waiting"` are that window. System calls take and give units in
any order; a process gives back what it holds before it leaves the kernel.
`held` (units a process has taken) and `left` (ticks until its sleep ends) are
history variables that the properties compare with the kernel's own accounts.
Parents are not modelled in `Sched`; `Process` has them.

`Philosophers` follows the lines of the program, with the same window, on the
same operators.

### Frames

`area` is `free_area` with the fields of `struct Page` that the managers use: `next`
and `prev` of `page_link` (the head of the list is node `N`), `property`, the frames
with `PG_property` (`flagged`) and `nr_free`. The functions of `list.h` make their
stores in the order of the code, which matters when a block is added behind itself
(see Findings). The loops over the list are computed from the nodes they visit
(`Visits`); a loop that would not end clears `alive`, like a failed assertion.
`alloc_pages` and `free_pages` run with interrupts off, so each is one action.
`manager` is chosen once, as `init_pmm_manager` does. Callers free any consecutive
frames that they hold, whole blocks or parts, as the checks of lab2 do.
`FreeFrames` knows no list: a request gets the lowest place it fits (first fit) or
the start of the smallest hole (best fit), and is refused only if it fits nowhere.
`LastFrameUsed` is an assumption on the callers, discussed under Findings.

### Swap

A page fault of lab3 is handled with interrupts off and one `mm` is in use, so a fault is
one step: `LoadPage` when the page is not mapped, `lru_pgfault` when it is but lacks
`PTE_R`, or `PTE_W` for a store (`do_pgfault` calls it whatever the manager and the
`error_code` are). `pending` is the page of the access under way, `storing` whether it is a
store; it is retried until `Complete`. Accesses are to mapped regions: one outside fails
in `find_vma`, and the kernel panics. A page of a region without `VM_WRITE` (`readonly`)
comes without `PTE_R` and never gets `PTE_W`; stores to such pages are made, and never
complete (see Findings). `faults` counts the faults of an access up to `MaxFaults`, `faulted` is
the order of the last faults; both are history. `list` is `pra_list_head` from its `next` to its
`prev`; the frames in `visited` have the flag set; `curr_ptr` is the hand, which
`swap_clock.c` keeps between calls. The hand's walk is computed from one round of the
list: a second round finds all flags clear. `stale` are the pages that `unable_page_read`
made unreadable without flushing the TLB: whether an access to one faults is up to the
machine. There is no dirty bit: every victim is written to its own slot
(`vaddr / PGSIZE + 1`), so `disk` is indexed by page. `PlainMemory` has the same accesses:
there, too, only a store that completes changes a page that was touched before, so a page
that came back wrong from the disk in a fault is no step of it. The TLB of the model may keep
an entry that lost a right, not one from before a right was given. `free` and `Min(free)` stand for the
frame manager of lab3, the lowest frame first.

### Slob

Addresses count units. `heap.header` has the header of each block, free or in use, by
address: `slob_free` and `slob_alloc` find a block's size there, as the code does.
`Walk` follows `next` from `slobfree`; the two loops stop at the first place or block that
suits them, which the model picks out of the walk. The heap grows by any page that the
frame allocator has; a page never goes back. `Big` is the test of `kfree`: a pointer on a
page boundary is looked up in `bigblocks`, all others are taken for small. `live` is the
history variable that `Heap` consists of.

`SlobAssumption` states what the callers must keep to, see Findings.

### UserMemory

An entry is a process and a page. `pte` maps entries to frames, `writable` are those with
`PTE_W`. `ref`, `free` and `content` belong to the frames. The loops over a page table
(`copy_range`, `cow_copy_range`, `exit_range`) change each entry once and independently,
so the model states their effect on all entries together. Which frames `alloc_page` returns
is left open (`Frames` has the allocators). A process runs a program with read-only pages
(`Text`), writable ones (`Data`) and a stack mapped on demand. `do_fork` calls `copy_mm`; the
repository has `cow_copy_mm` beside it, and a comment sign decides: a fork of the model may
do either, so that copied and shared memories mix. `WriteFault` is a store to a mapped page
without `PTE_W`. `cow_pgfault` loses a reference to the old frame (see Findings); `lost`
counts these per frame, and `RefsExact` says that nothing else is lost. `odd` makes stores
visible in the abstract specification: any other step must leave every private memory
exactly as it was, which `PrivateMemory` could not say otherwise, because a store may
write what was there.

### Files

The disk is a RAM disk, so only reads of stdin sleep, and they use no count but that of
their own descriptor: every other call is one step. Each function of the code is an operator
from kernel state to kernel state, and a failing `assert` clears `k.ok`. Between calls
an entry of a descriptor table is either `FD_NONE` or `FD_OPENED` with an open count of one.
`Open` is any sequence of flags that `vfs_open` accepts on a name that exists;
`OpenRefused` and `OpenExists` are its failures after the lookup. `Fork` may fail
after `copy_files`, and then undoes it. `Exec` keeps the descriptors below `NStd`, opens the
program and leaves it open, as `do_execve` does (`load_icode` of lab8 has no body that
could close it); `ExecNotFound` and `ExecNotLoaded` end in `do_exit` with and without a
memory map. A file's size, 0 or 1, stands for its data: truncation sets it to 0, a seek
behind the end to 1. `lost` holds the references that two of the failures leave behind
(see Findings).

### Stdin

The readers are user processes, so interrupts stay off while they are in the kernel:
a step runs from a system call, or from the return of `schedule()`, to the next
`schedule()` or the end of `trap()`. `Key` is `dev_stdin_write`, called by the timer
interrupt between two such steps. `left` is what a read still wants (0 in user mode),
`wakeup_flags` the field of the `wait_t` on its stack. `Kill` leaves that `wait_t` in the
queue, so a key may still mark it before the killed process runs. Characters are the
numbers in which they were typed, all different; `received` is a history variable.
Any runnable process may be the next to run; `Sched` has the scheduler. In
`KeyBuffer` a character typed at a full buffer replaces the *oldest*, and is then read
before older ones: this is what the code does, and nothing in the repository says
otherwise.

## 3. What is checked

| run | bounds | properties |
|---|---|---|
| `pid_alloc` | 5 processes, pids below 8 | `IInv` (see proofs), `ImplementsNextFit`, `CallReturns`: every call ends |
| `process` | init and 3 pids, room for 4 processes and idle; every allocation may fail; init may be killed | `LinksWellFormed`, `StructuresAgree`, `SomebodyRuns`, `OnlyInitEndsIt`, `ImplementsProcTree` |
| `process_live` | the same, one process that is killed, no failing allocation | `EveryoneRuns`, `InitReaps`, `KilledLeavesUserMode` |
| `sched` | 2 user processes, 1 kernel thread, a semaphore with one unit, slices of 2 ticks, sleeps up to 2 | `AssertionsHold`, `QueuesExact`, `NoLostSleeper`, `SleepsExactly`, `UnitsAccounted`, `UnitsInOrder` |
| `sched_live` | 2 user processes, sleeps up to 2 | `EveryoneRuns`, `SleepersWake` |
| `philosophers` | 5 philosophers, 2 rounds, sleeps of 2 ticks | `NeighboursDoNotEat`, `HungryHasEatingNeighbour`, `StatesAgree`, `AllFinish` |
| `frames` | 5 frames, requests up to 3, the last frame stays free | `ListIsHoles`, `ImplementsFreeFrames` |
| `swap` | 4 pages, 3 frames, 2 contents, none or three of the pages read-only; each manager; faults of an access counted up to 3 | `ListIsResident`, `FaultsTwiceAtMost`, `EvictsOldest`, `ImplementsMemory` |
| `slob` | 3 pages of 8 units of 2 bytes; small blocks of 2 and 4 units, big ones of 1 and 2 pages | `HeapConsistent`, `ImplementsHeap` |
| `user_memory` | 3 processes, 5 frames, one read-only, one writable and one stack page, 2 contents, 2 lost references | `RefsExact`, `SharedReadOnly`, `ImplementsPrivateMemory` |
| `files` | 2 processes, 2 descriptors, 2 directories, a file, stdin, one leak | `CountsExact`, `SyncedWhenClosed`, `ImplementsOpenFiles` |
| `stdin` | 3 readers, a buffer of 2, reads up to 3, 4 characters | `NoLostReader`, `NoDanglingWait`, `ImplementsKeyBuffer` |

What the properties say is in the comment above each. Some are conjunctions whose parts
have names of their own: `StructuresAgree` of `Process` is `TypeOK`, the process list and its
counter against the processes, and that only sleepers are woken; `QueuesExact` of `Sched`
is `TypeOK`, the run queue and the timer list; `UnitsAccounted` is the conservation of units
and that none lies idle; `StatesAgree` of `Philosophers` is `TypeOK`, the assertions and the
meaning of the philosophers' semaphores. `CountsExact` of `Files` includes the assertions
of the code. In modules without a `TypeOK` the refinement and the proofs stand for it.

**Why the bounds are enough to see the interesting cases.** Pids: seven pids for
four processes wrap around with a full and with a sparse table. Processes: three
user processes besides init make a chain with a middle to reap from, a hand-over
of several children with and without zombies, and a grandchild. `sched`: three
processes fill the wait queue behind a holder and the timer list with equal and
different expiries; a kernel thread is there for the window before `schedule()`.
In the run, the two user processes are symmetric. `philosophers`: the code has
five, four rounds and sleeps of ten ticks; with fewer ticks the same orders occur.
`frames`: five frames make two holes of different or equal size, a block with both
neighbours free, and a split; the two managers are checked in one run. `swap`: with one
frame less than pages every fault evicts, and with three frames the clock hand stands
at the first, a middle or the last entry, or at the head; read-only regions are where faults
on mapped pages come from. `slob`: a page holds four, three or two small blocks, so that all
merges occur, between pages as well; three pages run out. `user_memory`: five frames
hold three processes that share all their pages, or two that share none but one, and run
out when all copy; a page shared by three is copied by one, then by a second; two lost
references may be of one frame or of two. `files`: two descriptors, one of which exec
keeps, are full after two opens, and make counts of up to four for a file; one leak shows
that it is not counted twice. `stdin`: a buffer of two wraps around and overflows; three
readers compete for one key; a read may want more than the buffer holds, and sleep in the
middle.

**Fairness.** Kernel code is executed to its end (weak fairness of the current
process's kernel steps): there is one CPU and no other agent that could disable
them. The clock ticks for ever. A tick that comes while interrupts are off is taken
when they are on again, at the latest on the return to user mode; so a program that
only makes system calls cannot avoid it, and its fairness is the strong one. Nothing
is assumed of user programs, except in `sched_live`, where a system call is finite
and gives back what it took. The formulas of `Sched` and `Philosophers` write the
enabling conditions out, which spares TLC the evaluation of `ENABLED`.
Round robin does not preempt kernel threads: one that never sleeps keeps the CPU.
`sched_live` therefore has user processes only.

**Deadlock** is checked except in `stdin`, `files` and `user_memory`, where all processes
may exit.

## 4. Findings

Five configurations beside the runs show what the code does against its own tests and
comments. TLC finds each of these properties violated:

* `ProcessKill.cfg`, `KillShutsDown`: a killed process may not be shut down. `PF_EXITING`
  is tested at the end of `trap()` and after the `schedule()` in `do_wait`, but not before
  that one. A process killed while it waits for the CPU in `trap()`'s `schedule()` goes
  back to user mode; if it then waits for a child that goes on, it sleeps, and
  every further `kill` returns `-E_KILLED` without waking it. `KilledLeavesUserMode` is about
  the end of `trap()` only and admits this case.
* `ProcessStack.cfg`, `NoLostStack`: the error labels of `do_fork` are swapped. When
  `copy_mm` fails the kernel stack is lost; when `setup_kstack` fails, a stack that was
  never allocated is freed, which panics (`process` reaches that panic, too).
  `StructuresAgree` does not look at stacks, so only this configuration shows the loss.
* `FramesFull.cfg`, `ListMatchesCount`: the loop that inserts a freed block by address adds
  a block that belongs at the end of the list twice, the second time behind itself, for
  there is no `break` after `list_add` (`best_fit_pmm.c:181`, `default_pmm.c:147`; also in
  `init_memmap`, and in the copies of later labs). Its `prev` then points to itself:
  the block before it is not merged, and after further frees the list has a cycle or
  lacks blocks, so that its sizes do not add up to `nr_free`, which the checks of lab2
  assert. It takes a freed block above all free ones, that is, an allocation that has
  reached the end of memory. The run `frames` excludes just that (the last frame is
  never given out) and shows that the managers are right otherwise.
* `SwapStores.cfg`, `StoresEnd` (module `SwapExpected`): a store to a page of a region without
  `VM_WRITE` neither completes nor fails. The comment of `do_pgfault` in lab3 lists the accesses
  that "continue process", and of the writes to a missing page only those to a writable one
  (`vmm.c:350-355`), but no code tests it: the first fault loads the page, and each further
  one goes to `lru_pgfault` (`vmm.c:335-336`), which sets `PTE_R` whatever the `error_code` is and
  returns 0 (`swap_lru.c:134-159`). The store is made again, for ever. The checks of
  lab3 use writable regions only. `FaultsTwiceAtMost` is about the accesses that their
  region permits.
* `SwapUse.cfg`, `EvictsLeastUsed` (module `SwapExpected`): the LRU manager is not LRU. The
  end of its list is called the least used page (`swap_lru.c:36`), and lab3.md asks for LRU, but
  the order of the list changes only in a fault. With writable regions a mapped page has
  `PTE_R` and does not fault, and `unable_page_read`, which would make later uses visible,
  is called from such a fault only: LRU evicts in the order of FIFO.
* The clock, too, evicts in the order of FIFO: nothing sets `visited` after
  `map_swappable`, so that there is no second chance. `EvictsOldest` states what fifo, lru and
  clock really do. In regions without `VM_WRITE` `lru_pgfault` moves the page to the front of
  the list whatever the manager is; for the clock the front is where the oldest page
  is expected.

Seen while modelling, and part of the models:

* `Stdin`: a reader that is killed in its sleep and gets a key before it runs tries again,
  and sleeps again if another reader took the character; the cause is that of
  `ProcessKill.cfg`.
* `Files`: `vfs_open` returns `-E_EXISTS` without giving back the reference of its lookup
  (`vfsfile.c:46`), so that the inode stays in the cache. `O_CREAT` truncates a file that
  exists, also when it is opened for reading. A process whose `load_icode` fails exits without
  `put_files`, for its `mm` is already `NULL` (lab8 `proc.c:511`).
* `UserMemory`: `cow_pgfault` clears the entry before `page_insert` could drop the reference of
  the old frame (`cow.c:274`), which is never free again. `do_pgfault` asks for copy-on-write
  with `(*ptep & PTE_V) & ~(*ptep & PTE_W)` (`vmm.c:434`), which holds for every valid entry:
  a store to a page that is read-only for good gets a writable copy, too.
* `Slob`: some requests, which no caller in the kernel makes, are left out. `SlobAssumption`
  excludes `kmalloc(0)` and the sizes just below the limit for small blocks (4064 to 4079),
  for which `slob_alloc` fails its assertion (`kmalloc.c:100`). The sizes of the run do not
  contain those just above two pages or more (8193): the shifts of `find_order` drop the
  remainder (`kmalloc.c:213`), so that the block ends inside the request, and `ImplementsHeap`
  would be violated.

## 5. What is proved

By TLAPS, for all values of the constants (`Spec => []...`):

* `PidAllocProof`. `GetPidInvariant` is the inductive invariant. Uniqueness alone is
  not inductive: one needs that no process has a pid strictly between `last_pid` and
  `next_safe` (`FreeGap`), what the part of the list already visited says about it
  in the middle of a scan (`ScanPrefix`), and what was skipped since the call
  (`Skipped`, `Settled`). `GetPidUnique` follows. `GetPidImplementsNextFit` shows
  that each step of `get_pid` is a step of `PidNextFit` or stutters. Assumption:
  `MAX_PROCESS < MAX_PID`, the code's `static_assert`, and room for two processes.
* `ProcessProof`. `Invariant` is the inductive invariant of the code itself, for any finite
  set of pids, any set of allocations that fail and any set of processes that may be killed:
  - `Chained`: the pointers mirror one another process by process (`Mirrored`), and some
    `rank` of the processes grows along `optr` (`Ranks`). The first alone is not enough: a
    cycle beside a chain satisfies it. `LinksStayWellFormed` follows because the walk of
    `do_wait` along `optr` then visits each child once (`KidsInOrder`).
  - The loop of `do_exit` passes through states that are not well formed: it does not clear
    the `yptr` of the child it moves until that child's turn comes. The proof follows
    `Settled` links, in which it is cleared (`AdoptOne`, `AdoptAllChained`).
  - `LabelsAgree`, `ParentsAlive`, `NoLostWakeup`, `AloneAtEnds`: where a process is, its
    state, its parent's state and what it waits for agree.
  - `Rooted`: some `depth` grows from a parent to its child. `SomebodyAlwaysRuns` needs it:
    the deepest sleeper waits for a child, which is deeper and so does not sleep.
  - `EnoughStacks`: `put_kstack` never frees more stacks than there are.
  `StructuresStayInStep` and `InitEndsLast` are parts of the invariant. `ImplementsTree` is
  the refinement of `ProcTree`, operation by operation (the lemmas whose names end in
  `Maps`). `LifeCycleInvariant` states the invariant of `ProcTree` of the code
  (`TreeInvariant`); its parts are `WaitNeverMissesExit`, which needs the others because an
  exit wakes `parent[p]`, and init for the zombies it inherits, and `EveryProcessHasReaper`. `rank` and `depth` exist in every reachable state, but the code keeps neither, so
  they are quantified; TLC evaluated the other parts of the invariant, and `Rooted` for depths
  up to 4, on the instance of the run `process`. Assumption: `ProcessAssumption`; the proofs
  of the list operations rest on the set of pids being finite.
* `SchedProof`. `Invariant` is the inductive invariant, for any finite set of processes, any
  set of semaphores and any bounds on slices and sleeps. The properties of the run alone are
  not inductive; they need one another and:
  - `Placed`: for each process, where it is in `do_sleep` or `__down` (`pc`, `sem`), its `state`
    and `wait_state`, `wakeup_flags`, the time left and its place in a wait queue agree, in and
    after the window before `schedule()`. A killed sleeper is runnable while its timer is
    still listed, which is why `left` and not the state tells whose timers are listed. A waiter that
    is off the queue has been given its unit: `NoAssertionFails` needs this at the end of
    `down()`, `UnitsStayAccounted` when the waiter takes the unit.
  - `Switched`: only the current process can be in the window, and only there can it sleep; so a
    wakeup of the current process need not queue it, and `schedule()` queues what was woken.
  - `Timely`: the timers, each less its predecessor, count down what each sleep has left
    (`Counted`), one timer per process. `InsertTimer` and `RemoveTimer` show that `add_timer` and
    `del_timer` keep this, `AllExpired` that the loop of `run_timer_list` wakes those, and only
    those, whose time is over. The sums that `add_timer` walks along are tied to it by
    `DueIsCounted`: the first timer for which they disagreed would follow one for which they agree.
  - `WaitQueues`: a process waits for one semaphore, once.
  - `Units`: the conservation of units, with what is held as a finite set (`HeldUnits`), so that
    taking, giving and handing over move one element (`OneMoreHeld`, `OneLessHeld`, `UnitMoves`).
  `NoAssertionFails`, `QueuesStayExact`, `NoSleeperIsLost`, `SleepsEndOnTime` and
  `UnitsStayAccounted` are consequences; `WaitersServedInOrder` is an action property, shown
  with each step. TLC evaluated the parts of the invariant on the instance of the run `sched`.
  Assumption: `SchedAssumption`; the cardinalities and the orders in which `Init` may link the
  processes rest on the set of processes being finite.
* `StdinProof`. `StdinInvariant`: types, `NoDanglingWait` and `NoLostReader`, for any set of
  readers and any buffer. `NoLostReader` needs `NoDanglingWait`: a key wakes the sleepers
  that are in the queue. `StdinImplementsKeyBuffer` also needs that the two positions are at
  most the size of the buffer apart (`RingInv`); then positions in use have cells of their
  own modulo the size, and a key at a full buffer overwrites the oldest. Assumption: the
  buffer is not empty, reads ask for at least one character.
* `SwapProof`. `SwapInvariant`: types, `ListIsResident`, and what the faults of an access have
  done for it (`FaultsHelp`), for any pages and frames and each manager.
  `AccessesComplete`: after the fault that maps a page it is readable or, in a region without
  `VM_WRITE`, one fault away, for every access that the region permits (the other stores
  never complete, see Findings). `SwapImplementsMemory` needs `ListIsResident`: the frame
  that is taken belongs to one page, the one that its `pra_vaddr` names, and that page goes
  to disk; what comes back is what the abstract memory still holds. `OldestPageLeaves` is the
  action property `EvictsOldest`, from a second invariant (`Ordered`): the list is in the
  order of the last faults, for the clock without read-only regions; the flags of the clock are
  set at its end only, and the hand stands at its start. Each load keeps that (`VictimLeaves`,
  `PageComes`), so the hand always stops at the oldest; and so does a fault on a mapped page
  under fifo and lru (`PageLeaves`, `PageComes`). TLC evaluated `FaultsHelp` and `Ordered` on
  the instance of the run `swap`. Assumption: there are pages and frames, the two
  special entries are not frames, and faults are counted beyond two.
* `UserMemoryProof`. `UserMemoryInvariant`: types, that only living processes have
  entries, `RefsExact` and `SharedReadOnly`, for any finite sets of processes, pages and
  frames. Exit, exec and fork change many entries at once: `RefsExact` is kept because
  the entries of one process and those of the others are disjoint sets whose cardinalities
  add up, and because the copies that `cow_copy_range` makes are as many as the entries
  they copy. `ImplementsPrivateMemory` needs both: a store reaches one entry only because
  what is writable is not shared, and a frame that is allocated again is free only when
  nobody maps it.

* `FilesProof`. `FilesInvariant` is the inductive invariant, for any finite set of processes, any
  number of descriptors and any inodes. It has three parts:
  - `Sound`: what the counts, the cache, the dirty inodes and the sizes of a kernel say of one
    another: open counts are below reference counts, a cached inode has a reference and one
    reclaim to come, what is dirty is open.
  - `Balanced`: each count is the number of its holders. The functions of the code break this
    between two of their steps (a lookup takes a reference before any entry has it, `put_files`
    drops the directory before the entries), so it is stated for any tables `f` and `w`, and for
    references `r` and opens `o` that are in nobody's table; a step within a call moves one
    from the tables to those or back (`EntryTakes`, `EntryGives`, `CwdTakes`, `CwdGives`). Between
    two calls `r` and `o` are what the kernel holds and what was lost.
  - `DeadHaveNothing`: the table of a process that ended is empty.
  Each function of `inode.c`, `file.c`, `fs.c` has a lemma that says what it moves (`RefDecMoves`,
  `OpenDecMoves`, `FdCloseResult`, `FdDupResult` and so on); the assertion it makes holds by
  `Sound`. The loops over a table are shown round by round (`CloseRounds`, `CloseFromResult`,
  `DupRounds`, `DupResult`). `CountsStayExact`, `FilesSyncedWhenClosed` and
  `FilesImplementOpenFiles` follow; each step lemma (`ForkStep`, `ExecStep`, ...) shows the
  invariant and the refinement at once, for the refinement of `exec` and of a failed fork needs to
  know where the loops left the tables. TLC evaluated the invariant on the instance of the run
  `files`. Assumption: `FilesAssumption`: exec keeps less than a full table, directories, files
  and devices are different inodes, and the processes are finitely many.

`ListLemmas` has what several of them need to know about lists without repetitions and about
least numbers.

Only model-checked: all of `Philosophers`, `Frames` and `Slob`, and liveness (beyond
the prover): `CallReturns`, `EveryoneRuns`, `InitReaps`, `KilledLeavesUserMode`, `SleepersWake`,
`AllFinish`. The induction theorems of the library cannot be used, for they take an operator
as a parameter. Where a loop is a recursive function whose value satisfies a simple equation,
as in `Process`, `Sched` and `Files`, the proofs take the least number of rounds at which a claim would
fail (`LeastOfNat`) instead. `Frames` and `Slob` compute along lists by
folds and by walks that have no such equation yet.

## 6. Not modelled

* Boot, context switch, trap entry, drivers, libraries, user programs, `mksfs`: see the end of
  section 1. The nine labs are near-identical copies of one kernel, and much of the rest
  is headers, formatting and drivers: the lines that the models stand for are a small share of
  the repository for this reason. A part is modelled once, from the lab where it is complete.
* The monitor (`cond_signal`, `cond_wait`), the stride scheduler, `load_icode` of lab8 and parts
  of `sfs_io` are exercises whose bodies the repository leaves empty.
* The buddy and slub allocators of lab2: `pmm.c` selects another manager, and slub is used
  by its own test only.
* `Process`: memory (`UserMemory` has it), exit codes, context and trap frame.
* `Swap`: a write to the swap device that fails (the device is an array in memory), the end of
  an `mm`, the swap slots of pages beyond the device.
* `UserMemory`: the structure of the vma list, the frames of page tables, allocations that
  find no frame, which are fatal in lab5.
* `Slob`: `ksize`, which changes nothing and has no caller.
* `Files`: reads of stdin (`Stdin` has them), the data of files, names and paths, the device
  list, pipes; calls that panic or fail an assertion whatever the state is (`O_CREAT` of a
  missing name, `vfsfile.c:44`, or of a directory; a seek on a directory or a device); the
  exec of a directory.
* SFS: block map and free map, and the locks, which are never contended.

What a next step would take up: the proof that `Philosophers` keeps neighbours apart, on the
lemmas about `SchedCore`; the lists of `Frames` and `Slob`, with their walks written as recursive
functions; the block map of SFS against its free map; the buddy allocator.
