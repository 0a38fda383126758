------------------------------ MODULE UserMemory ------------------------------
(***************************************************************************)
(* The memory of user processes in lab5: page tables and reference counts  *)
(* (pmm.c), page faults (vmm.c), copy-on-write (cow.c), and what fork,     *)
(* exec and exit do with them (proc.c).  The kernel is not preempted, so a *)
(* call or a fault is a step.  do_fork calls copy_mm; the call of          *)
(* cow_copy_mm beside it is commented out.  A fork of the model does       *)
(* either.  Frames of page tables are not counted.                         *)
(***************************************************************************)
EXTENDS Integers, FiniteSetsExt, Functions

CONSTANTS
    Proc,
    Frame,          \* page frames for user pages
    Text,           \* read-only pages, mapped by exec
    Data,           \* writable pages, mapped by exec
    Stack,          \* writable pages, mapped when they are touched
    Value, Program, \* contents of a page, and those that exec loads
    Untouched, NoMemory,
    MaxLost         \* how many references to frames get lost

Loaded == Text \cup Data
Vpn == Loaded \cup Stack

ASSUME UserMemoryAssumption ==
    /\ IsFiniteSet(Proc) /\ IsFiniteSet(Vpn) /\ IsFiniteSet(Frame)
    /\ Loaded \cap Stack = {} /\ Program \in Value /\ MaxLost \in Nat
    /\ Untouched \notin Frame \cup Value
    /\ NoMemory \notin [Vpn -> Value \cup {Untouched}]

VARIABLES
    alive,          \* the processes, which have memory
    pte,            \* the frame of each page of each process, or Untouched
    writable,       \* the entries with PTE_W
    ref,            \* the reference count of a frame
    free,           \* the free frames
    content,        \* of the frames
    lost,           \* history: references of frames that no page table holds
    odd             \* history: whether the number of stores is odd

vars == <<alive, pte, writable, ref, free, content, lost, odd>>

Entry == Proc \X Vpn
Mappings(f) == {e \in Entry : pte[e] = f}

EntriesOf(p) == {p} \X Vpn
Mapped(p) == {v \in Vpn : pte[<<p, v>>] \in Frame}

-----------------------------------------------------------------------------

(***************************************************************************)
(* The loops over page tables, as what they do to all entries together.    *)
(***************************************************************************)

\* How many entries of p map f.
Uses(p, f) == Cardinality(Mappings(f) \cap EntriesOf(p))

\* Mutant of RefsAfterExit: frames that are shared lose no reference.
RefsAfterExit_SharedKept(p) ==
    [f \in Frame |-> IF ref[f] = Uses(p, f) THEN 0 ELSE ref[f]]

\* exit_mmap: page_remove_pte for the entries of p.
RefsAfterExit(p) == [f \in Frame |-> ref[f] - Uses(p, f)]

\* The frames that have lost their last reference are free again.
FreeAfterExit(p) ==
    free \cup {f \in Frame : Uses(p, f) > 0 /\ RefsAfterExit(p)[f] = 0}

\* alloc_page for some pages: frames of their own, which ones is up to the frame manager.
\* Running out of frames is fatal: alloc_pages then swaps out of a memory map that is NULL,
\* and copy_range asserts that it got a frame.
Allocations(pages, frames) == Injection(pages, frames)

\* page_insert of new frames.
Referenced(refs, frames) == [f \in Frame |-> IF f \in frames THEN refs[f] + 1 ELSE refs[f]]

\* The table of p maps the pages in a, and no others.
WithTable(p, a) ==
    [e \in Entry |-> IF e \notin EntriesOf(p) THEN pte[e]
                     ELSE IF e[2] \in DOMAIN a THEN a[e[2]] ELSE Untouched]

PageIn(a, f) == CHOOSE v \in DOMAIN a : a[v] = f

-----------------------------------------------------------------------------

\* copy_mm, dup_mmap and copy_range.
copy_mm(p, q) == \E a \in Allocations(Mapped(p), free) :
    /\ pte' = WithTable(q, a)
    /\ writable' = writable \cup {<<q, v>> : v \in {w \in Vpn : <<p, w>> \in writable}}
    /\ ref' = Referenced(ref, Range(a))
    /\ free' = free \ Range(a)
    /\ content' = [f \in Frame |-> IF f \in Range(a) THEN content[pte[<<p, PageIn(a, f)>>]]
                                   ELSE content[f]]

\* Mutant of cow_copy_range: the parent keeps its right to write.
cow_copy_range_ParentWrites(p, q) == writable

\* Both processes lose the right to write.
cow_copy_range(p, q) == writable \ EntriesOf(p)

\* cow_copy_mm and cow_copy_mmap: the child gets the frames of its parent.
cow_copy_mm(p, q) ==
    /\ pte' = WithTable(q, [v \in Mapped(p) |-> pte[<<p, v>>]])
    /\ writable' = cow_copy_range(p, q)
    /\ ref' = [f \in Frame |-> ref[f] + Uses(p, f)]
    /\ UNCHANGED <<free, content>>

\* load_icode: the pages of a program, in new frames.
LoadProgram(p, refs, frames) == \E a \in Allocations(Loaded, frames) :
    /\ pte' = WithTable(p, a)
    /\ writable' = (writable \ EntriesOf(p)) \cup {<<p, v>> : v \in Data}
    /\ ref' = Referenced(refs, Range(a))
    /\ free' = frames \ Range(a)
    /\ content' = [f \in Frame |-> IF f \in Range(a) THEN Program ELSE content[f]]

\* The first process has a program.
Init == \E p \in Proc, a \in Allocations(Loaded, Frame) :
    /\ alive = {p}
    /\ pte = [e \in Entry |-> IF e[1] = p /\ e[2] \in Loaded THEN a[e[2]] ELSE Untouched]
    /\ writable = {p} \X Data
    /\ ref = [f \in Frame |-> IF f \in Range(a) THEN 1 ELSE 0]
    /\ free = Frame \ Range(a)
    /\ content \in {c \in [Frame -> Value] : \A f \in Range(a) : c[f] = Program}
    /\ lost = [f \in Frame |-> 0]
    /\ odd = FALSE

Write(p, v, x) ==
    /\ <<p, v>> \in writable
    /\ content' = [content EXCEPT ![pte[<<p, v>>]] = x]
    /\ odd' = ~odd
    /\ UNCHANGED <<alive, pte, writable, ref, free, lost>>

\* do_pgfault of a page that is not mapped: pgdir_alloc_page, which does not clear it.
Touch(p, v) == \E f \in free :
    /\ v \in Stack /\ pte[<<p, v>>] = Untouched
    /\ pte' = [pte EXCEPT ![<<p, v>>] = f]
    /\ writable' = writable \cup {<<p, v>>}
    /\ ref' = Referenced(ref, {f})
    /\ free' = free \ {f}
    /\ UNCHANGED <<alive, content, lost, odd>>

\* Mutant of copy_page_content: the new frame is not filled.
copy_page_content_Not(from, to) == content

copy_page_content(from, to) == [content EXCEPT ![to] = content[from]]

\* A writable copy.  The entry is cleared before page_insert could drop the reference of the
\* old frame, which is lost.
cow_pgfault(p, v) == \E f \in free :
    /\ content' = copy_page_content(pte[<<p, v>>], f)
    /\ pte' = [pte EXCEPT ![<<p, v>>] = f]
    /\ writable' = writable \cup {<<p, v>>}
    /\ ref' = Referenced(ref, {f})
    /\ free' = free \ {f}
    /\ lost' = [lost EXCEPT ![pte[<<p, v>>]] = @ + 1]

LostReferences == MapThenSumSet(LAMBDA f : lost[f], Frame)

\* do_pgfault of a page that is mapped, whatever the page is: a store to it faulted.
WriteFault(p, v) ==
    /\ v \in Mapped(p) /\ <<p, v>> \notin writable
    /\ LostReferences < MaxLost
    /\ cow_pgfault(p, v)
    /\ UNCHANGED <<alive, odd>>

Fork(p, q) ==
    /\ q \notin alive
    /\ alive' = alive \cup {q}
    /\ copy_mm(p, q) \/ cow_copy_mm(p, q)
    /\ UNCHANGED <<lost, odd>>

\* do_execve and load_icode, after the old memory is gone.
Exec(p) ==
    /\ LoadProgram(p, RefsAfterExit(p), FreeAfterExit(p))
    /\ UNCHANGED <<alive, lost, odd>>

\* do_exit, and do_execve of a program that load_icode finds no ELF file.
Exit(p) ==
    /\ alive' = alive \ {p}
    /\ pte' = [e \in Entry |-> IF e \in EntriesOf(p) THEN Untouched ELSE pte[e]]
    /\ writable' = writable \ EntriesOf(p)
    /\ ref' = RefsAfterExit(p)
    /\ free' = FreeAfterExit(p)
    /\ UNCHANGED <<content, lost, odd>>

Next == \E p \in alive :
    \/ \E v \in Vpn : Touch(p, v) \/ WriteFault(p, v)
    \/ \E v \in Vpn, x \in Value : Write(p, v, x)
    \/ \E q \in Proc : Fork(p, q)
    \/ Exec(p) \/ Exit(p)

Spec == Init /\ [][Next]_vars

-----------------------------------------------------------------------------

\* A frame has as many references as page table entries map it, and those that cow_pgfault
\* lost; it is free exactly when it has none.
RefsExact == \A f \in Frame :
    /\ ref[f] = Cardinality(Mappings(f)) + lost[f]
    /\ f \in free <=> ref[f] = 0

\* Nobody can write to a frame that is mapped twice.
SharedReadOnly == \A f \in Frame : \A e1, e2 \in Mappings(f) : e1 \in writable => e2 = e1

\* UserMemory implements PrivateMemory: frames shared after a fork, and copied at the
\* first write by either process, look like copies made at once.
MemoryOf(p) ==
    IF p \notin alive THEN NoMemory
    ELSE [v \in Vpn |-> IF pte[<<p, v>>] = Untouched THEN Untouched
                        ELSE content[pte[<<p, v>>]]]

Abstract == INSTANCE PrivateMemory WITH
    Demand <- Stack, mem <- [p \in Proc |-> MemoryOf(p)]

ImplementsPrivateMemory == Abstract!Spec
=============================================================================
