------------------------------ MODULE OpenFiles ------------------------------
(***************************************************************************)
(* What the file calls of lab8 promise a process: descriptors of its own   *)
(* that name files, the lowest free one at each open, a copy of them at    *)
(* fork, the first Kept kept at exec, and files whose size is the same for  *)
(* everybody.  No counts, no cache.                                        *)
(***************************************************************************)
EXTENDS Integers

CONSTANTS Proc, NFd, Kept, Root, Dirs, Regular, Devices, None

Fd == 0 .. NFd - 1
Inode == Dirs \cup Regular \cup Devices

VARIABLES
    fds,            \* what a descriptor of a process names, None if it is closed
    cwd,            \* the working directory of a process, while it lives
    size            \* of the regular files: 0 or 1

vars == <<fds, cwd, size>>

NoFiles == [fd \in Fd |-> None]
FreeFds(f) == {fd \in Fd : f[fd] = None}
Opened(f, i) == [f EXCEPT ![CHOOSE m \in FreeFds(f) : \A n \in FreeFds(f) : m <= n] = i]

Init ==
    /\ fds = [p \in Proc |-> NoFiles]
    /\ \E p \in Proc : cwd = [q \in Proc |-> IF q = p THEN Root ELSE None]
    /\ size \in [Regular -> {0, 1}]

Open(p, i) ==
    /\ FreeFds(fds[p]) # {}
    /\ fds' = [fds EXCEPT ![p] = Opened(@, i)]
    /\ \/ UNCHANGED size
       \/ i \in Regular /\ size' = [size EXCEPT ![i] = 0]
    /\ UNCHANGED cwd

Close(p, fd) ==
    /\ fds' = [fds EXCEPT ![p][fd] = None]
    /\ UNCHANGED <<cwd, size>>

Dup(p, fd1, fd2) ==
    /\ fds[p][fd1] # None /\ fds[p][fd2] = None
    /\ fds' = [fds EXCEPT ![p][fd2] = fds[p][fd1]]
    /\ UNCHANGED <<cwd, size>>

SeekPastEnd(p, fd) ==
    /\ fds[p][fd] \in Regular
    /\ size' = [size EXCEPT ![fds[p][fd]] = 1]
    /\ UNCHANGED <<fds, cwd>>

Chdir(p, i) ==
    /\ cwd' = [cwd EXCEPT ![p] = i]
    /\ UNCHANGED <<fds, size>>

Fork(p, q) ==
    /\ cwd[q] = None
    /\ fds' = [fds EXCEPT ![q] = fds[p]]
    /\ cwd' = [cwd EXCEPT ![q] = cwd[p]]
    /\ UNCHANGED size

\* The program stays open on the lowest descriptor that is free.
Exec(p, i) ==
    /\ fds' = [fds EXCEPT ![p] = Opened([fd \in Fd |-> IF fd < Kept THEN @[fd] ELSE None], i)]
    /\ UNCHANGED <<cwd, size>>

Exit(p) ==
    /\ fds' = [fds EXCEPT ![p] = NoFiles]
    /\ cwd' = [cwd EXCEPT ![p] = None]
    /\ UNCHANGED size

Next == \E p \in {q \in Proc : cwd[q] # None} :
    \/ \E i \in Inode : Open(p, i) \/ Exec(p, i)
    \/ \E i \in Dirs : Chdir(p, i)
    \/ \E fd \in Fd : Close(p, fd) \/ SeekPastEnd(p, fd)
    \/ \E fd1, fd2 \in Fd : Dup(p, fd1, fd2)
    \/ \E q \in Proc : Fork(p, q)
    \/ Exit(p)

Spec == Init /\ [][Next]_vars
=============================================================================
