-------------------------------- MODULE Files --------------------------------
(***************************************************************************)
(* Open files, inodes and their cache in lab8: file.c, fs.c, vfs/inode.c,  *)
(* vfs/vfsfile.c, vfs/vfspath.c, the cache of sfs/sfs_inode.c, and the     *)
(* calls that proc.c makes at fork, exec and exit.  The disk is a RAM      *)
(* disk, so no call sleeps but a read of stdin (module Stdin), which uses  *)
(* the counts of its own descriptor only and is left out: a call is a      *)
(* step.  An operator of the kernel state kk stands for a function.        *)
(***************************************************************************)
EXTENDS Integers, FiniteSets

CONSTANTS
    Proc,           \* user processes
    NFd,            \* FILES_STRUCT_NENTRY
    NStd,           \* the descriptors that exec keeps: 2, stdin and stdout
    Root,           \* the root directory of disk0
    Dirs, Regular,  \* inodes of SFS: directories, Root among them, and files
    Devices,        \* inodes of devices: stdin
    NULL,
    MaxLost         \* how many leaks of references a behaviour has

ASSUME FilesAssumption ==
    /\ NFd \in Nat /\ NStd \in Nat /\ NStd < NFd /\ Root \in Dirs /\ MaxLost \in Nat
    /\ NULL \notin Dirs \cup Regular \cup Devices
    /\ Dirs \cap Regular = {} /\ (Dirs \cup Regular) \cap Devices = {}
    /\ IsFiniteSet(Proc)

Sfs == Dirs \cup Regular
Inode == Sfs \cup Devices
Fd == 0 .. NFd - 1

VARIABLES
    k,              \* the kernel's tables, see Init
    lost            \* history: references that nobody will give back

vars == <<k, lost>>

-----------------------------------------------------------------------------

(***************************************************************************)
(* inode.c and the cache of SFS inodes.                                    *)
(***************************************************************************)
Check(kk, cond) == [kk EXCEPT !.ok = @ /\ cond]
InMemory(kk, i) == i \in Devices \cup kk.cached

RefInc(kk, i) == Check([kk EXCEPT !.ref_count[i] = @ + 1], InMemory(kk, i))
OpenInc(kk, i) == Check([kk EXCEPT !.open_count[i] = @ + 1], InMemory(kk, i))

\* Writes the inode to disk if it is dirty.
sfs_fsync(kk, i) ==
    IF i \in kk.dirty
    THEN [kk EXCEPT !.dirty = @ \ {i}, !.disk[i] = kk.size[i]]
    ELSE kk

\* Called for the inodes of SFS only: those of devices are never without references.
sfs_reclaim(kk, i) ==
    LET count == kk.reclaim_count[i] - 1
        k1 == Check([kk EXCEPT !.reclaim_count[i] = count], count >= 0 /\ i \in Sfs)
    IN IF count # 0 \/ kk.ref_count[i] # 0 THEN k1
       ELSE Check([sfs_fsync(k1, i) EXCEPT !.cached = @ \ {i}], kk.open_count[i] = 0)

RefDec(kk, i) ==
    LET k1 == Check([kk EXCEPT !.ref_count[i] = @ - 1],
                    InMemory(kk, i) /\ kk.ref_count[i] > 0)
    IN IF k1.ref_count[i] = 0 THEN sfs_reclaim(k1, i) ELSE k1

\* inode_check comes before every call of an operation of the inode.
inode_check(kk, i) ==
    Check(kk, InMemory(kk, i) /\ kk.ref_count[i] >= kk.open_count[i])

\* Mutant of vop_close: the inode is not written at the last close.
vop_close_NoSync(kk, i) == inode_check(kk, i)

vop_close(kk, i) == inode_check(IF i \in Sfs THEN sfs_fsync(kk, i) ELSE kk, i)

OpenDec(kk, i) ==
    LET k1 == Check([kk EXCEPT !.open_count[i] = @ - 1],
                    InMemory(kk, i) /\ kk.open_count[i] > 0)
    IN IF k1.open_count[i] = 0 THEN vop_close(k1, i) ELSE k1

vfs_close(kk, i) == RefDec(OpenDec(kk, i), i)

\* The inode with number i: the cached one, or a new one read from the disk.
sfs_load_inode(kk, i) ==
    IF i \in kk.cached
    THEN LET k1 == RefInc(kk, i) IN
         IF k1.ref_count[i] = 1 THEN [k1 EXCEPT !.reclaim_count[i] = @ + 1] ELSE k1
    ELSE [kk EXCEPT !.cached = @ \cup {i}, !.ref_count[i] = 1, !.open_count[i] = 0,
                    !.reclaim_count[i] = 1,
                    !.size = IF i \in Regular THEN [@ EXCEPT ![i] = kk.disk[i]] ELSE @]

(***************************************************************************)
(* vfs_lookup of a name that exists.  It also takes and gives back a       *)
(* reference to the directory it starts from, which cannot be the last.    *)
(***************************************************************************)
vfs_lookup(kk, i) == IF i \in Devices THEN RefInc(kk, i) ELSE sfs_load_inode(kk, i)

sfs_truncfile(kk, i, len) ==
    IF kk.size[i] = len THEN kk
    ELSE [kk EXCEPT !.size[i] = len, !.dirty = @ \cup {i}]

-----------------------------------------------------------------------------

(***************************************************************************)
(* file.c.  Between two calls an entry is FD_NONE, here NULL, or FD_OPENED *)
(* with an open_count of 1, here its node: FD_INIT, FD_CLOSED and higher   *)
(* counts are seen within a call only.                                     *)
(***************************************************************************)
IsOpen(kk, p, fd) == kk.fds[p][fd] # NULL
SetNode(kk, p, fd, i) == [kk EXCEPT !.fds[p][fd] = i]
FreeFds(kk, p) == {fd \in Fd : ~IsOpen(kk, p, fd)}
NoFiles == [fd \in Fd |-> NULL]

\* And fd_array_free.
fd_array_close(kk, p, fd) == SetNode(vfs_close(kk, kk.fds[p][fd]), p, fd, NULL)

fd_array_dup(kk, p, fd, i) == SetNode(OpenInc(RefInc(kk, i), i), p, fd, i)

-----------------------------------------------------------------------------

(***************************************************************************)
(* fs.c: the tables of descriptors.  No two processes share one, for no    *)
(* call passes CLONE_FS.                                                   *)
(***************************************************************************)
CloseFrom(kk, p, first) ==
    LET after[n \in 0 .. NFd] ==
            IF n = 0 THEN kk
            ELSE LET acc == after[n - 1] IN
                 IF n - 1 >= first /\ IsOpen(acc, p, n - 1)
                 THEN fd_array_close(acc, p, n - 1) ELSE acc
    IN after[NFd]

\* Mutant of files_closeall: the loop begins with the first descriptor.
files_closeall_All(kk, p) == CloseFrom(kk, p, 0)

files_closeall(kk, p) == CloseFrom(kk, p, NStd)

files_destroy(kk, p) ==
    LET k1 == CloseFrom(RefDec(kk, kk.pwd[p]), p, 0)
    IN Check([k1 EXCEPT !.pwd[p] = NULL], k1.fds[p] = NoFiles)

\* files_create, then dup_files.
dup_files(kk, to, from) ==
    LET after[n \in 0 .. NFd] ==
            IF n = 0 THEN RefInc([kk EXCEPT !.pwd[to] = kk.pwd[from]], kk.pwd[from])
            ELSE IF IsOpen(kk, from, n - 1)
                 THEN fd_array_dup(after[n - 1], to, n - 1, kk.fds[from][n - 1])
                 ELSE after[n - 1]
    IN after[NFd]

\* Mutant of vfs_set_curdir: the old directory stays referenced.
vfs_set_curdir_Kept(kk, p, dir) ==
    IF kk.pwd[p] = dir THEN kk ELSE [RefInc(kk, dir) EXCEPT !.pwd[p] = dir]

vfs_set_curdir(kk, p, dir) ==
    IF kk.pwd[p] = dir THEN kk
    ELSE RefDec([RefInc(kk, dir) EXCEPT !.pwd[p] = dir], kk.pwd[p])

\* vfs_open of a name that exists and file_open, when nothing refuses.
Opened(kk, p, i, trunc) ==
    LET fd == CHOOSE m \in FreeFds(kk, p) : \A n \in FreeFds(kk, p) : m <= n
        k1 == OpenInc(vfs_lookup(kk, i), i)
        k2 == IF trunc THEN sfs_truncfile(inode_check(k1, i), i, 0) ELSE k1
    IN SetNode(k2, p, fd, i)

-----------------------------------------------------------------------------

(***************************************************************************)
(* The kernel starts: init's working directory, the root of the boot file  *)
(* system and the first process hold the root; the list of devices holds   *)
(* the devices.                                                            *)
(***************************************************************************)
Kernel(i) == IF i = Root THEN 2 ELSE IF i \in Devices THEN 1 ELSE 0
NoCounts == [i \in Inode |-> 0]

Init ==
    /\ \E p \in Proc, size \in [Regular -> {0, 1}] :
        k = [ref_count     |-> [i \in Inode |-> Kernel(i) + IF i = Root THEN 1 ELSE 0],
             open_count    |-> NoCounts,
             reclaim_count |-> [i \in Inode |-> IF i = Root THEN 1 ELSE 0],
             cached        |-> {Root},
             dirty         |-> {},
             size          |-> size,
             disk          |-> size,
             pwd           |-> [q \in Proc |-> IF q = p THEN Root ELSE NULL],
             fds           |-> [q \in Proc |-> NoFiles],
             ok            |-> TRUE]
    /\ lost = [ref_count |-> NoCounts, open_count |-> NoCounts, leaks |-> 0]

\* A process has a working directory as long as it lives.
Alive == {p \in Proc : k.pwd[p] # NULL}

\* file_open gets a descriptor.
MayOpen(p) == FreeFds(k, p) # {}

\* The flags that vfs_open finds sensible.
OpenFlags == {flags \in SUBSET {"write", "trunc", "creat", "excl"} :
                "trunc" \in flags => "write" \in flags}

Truncates(flags) == flags \cap {"trunc", "creat"} # {}
Exclusive(flags) == {"excl", "creat"} \subseteq flags

\* sfs_opendir and dev_open with the open of stdin; sfs_openfile refuses nothing.
vop_open_fails(i, flags) ==
    \/ i \in Dirs /\ "write" \in flags
    \/ i \in Devices /\ flags # {}

Open(p, i, trunc) ==
    /\ MayOpen(p)
    /\ \E flags \in OpenFlags :
        ~Exclusive(flags) /\ ~vop_open_fails(i, flags) /\ Truncates(flags) = trunc
    /\ ~(i \in Dirs /\ trunc)
    /\ k' = Opened(k, p, i, trunc)
    /\ UNCHANGED lost

\* The open of the inode fails: vfs_open gives its reference back.
OpenRefused(p, i) ==
    /\ MayOpen(p)
    /\ \E flags \in OpenFlags : ~Exclusive(flags) /\ vop_open_fails(i, flags)
    /\ k' = RefDec(inode_check(vfs_lookup(k, i), i), i)
    /\ UNCHANGED lost

\* E_EXISTS is returned with the reference that vfs_lookup took: it is lost.
OpenExists(p, i) ==
    /\ MayOpen(p) /\ lost.leaks < MaxLost
    /\ k' = vfs_lookup(k, i)
    /\ lost' = [lost EXCEPT !.ref_count[i] = @ + 1, !.leaks = @ + 1]

Close(p, fd) ==
    /\ IsOpen(k, p, fd)
    /\ k' = fd_array_close(k, p, fd)
    /\ UNCHANGED lost

\* fd2 is free: the caller's choice, or the lowest.
Dup(p, fd1, fd2) ==
    /\ IsOpen(k, p, fd1) /\ fd2 \in FreeFds(k, p)
    /\ k' = fd_array_dup(k, p, fd2, k.fds[p][fd1])
    /\ UNCHANGED lost

\* file_seek beyond the end, which sfs_tryseek makes the new end.
SeekPastEnd(p, fd) ==
    /\ IsOpen(k, p, fd)
    /\ LET i == k.fds[p][fd] IN
        i \in Regular /\ k' = sfs_truncfile(inode_check(k, i), i, 1)
    /\ UNCHANGED lost

Fsync(p, fd) ==
    /\ IsOpen(k, p, fd)
    /\ LET i == k.fds[p][fd] IN
        i \in Sfs /\ k' = sfs_fsync(inode_check(k, i), i)
    /\ UNCHANGED lost

\* vfs_chdir; what is no directory is refused with E_NOTDIR.
Chdir(p, i) ==
    /\ LET k1 == vfs_lookup(k, i)
       IN k' = RefDec(IF i \in Dirs THEN vfs_set_curdir(k1, p, i) ELSE k1, i)
    /\ UNCHANGED lost

\* do_fork: copy_files, and put_files when a later step fails.
Fork(p, q) ==
    /\ k.pwd[q] = NULL
    /\ \/ k' = dup_files(k, q, p)
       \/ k' = files_destroy(dup_files(k, q, p), q)
    /\ UNCHANGED lost

\* do_execve opens the program.  Nothing in load_icode, whose body is missing, closes it.
Exec(p, i) ==
    /\ i \in Regular
    /\ k' = Opened(files_closeall(k, p), p, i, FALSE)
    /\ UNCHANGED lost

\* No such program: do_exit, which still finds the memory map of the process.
ExecNotFound(p) ==
    /\ k' = files_destroy(files_closeall(k, p), p)
    /\ UNCHANGED lost

\* load_icode fails: do_exit finds no memory map, and leaves the table and what it holds.
ExecNotLoaded(p, i) ==
    /\ i \in Regular /\ lost.leaks < MaxLost
    /\ LET k1 == Opened(files_closeall(k, p), p, i, FALSE)
           entries(n) == Cardinality({fd \in Fd : k1.fds[p][fd] = n})
           pwd(n) == IF k1.pwd[p] = n THEN 1 ELSE 0
       IN /\ k' = [k1 EXCEPT !.pwd[p] = NULL, !.fds[p] = NoFiles]
          /\ lost' = [ref_count  |-> [n \in Inode |-> lost.ref_count[n] + entries(n) + pwd(n)],
                      open_count |-> [n \in Inode |-> lost.open_count[n] + entries(n)],
                      leaks      |-> lost.leaks + 1]

\* do_exit, put_files.
Exit(p) ==
    /\ k' = files_destroy(k, p)
    /\ UNCHANGED lost

Next == \E p \in Alive :
    \/ \E i \in Inode : OpenRefused(p, i) \/ OpenExists(p, i)
    \/ \E i \in Inode, trunc \in BOOLEAN : Open(p, i, trunc)
    \/ \E fd \in Fd : Close(p, fd) \/ SeekPastEnd(p, fd) \/ Fsync(p, fd)
    \/ \E fd1, fd2 \in Fd : Dup(p, fd1, fd2)
    \/ \E i \in Inode : Chdir(p, i) \/ Exec(p, i) \/ ExecNotLoaded(p, i)
    \/ \E q \in Proc : Fork(p, q)
    \/ ExecNotFound(p) \/ Exit(p)

Spec == Init /\ [][Next]_vars

-----------------------------------------------------------------------------

Entries(i) == {e \in Alive \X Fd : k.fds[e[1]][e[2]] = i}
WorkingIn(i) == {p \in Alive : k.pwd[p] = i}

\* No assertion of inode.c, file.c, fs.c and sfs_reclaim fails, and none of their calls
\* is for an inode that was freed.
AssertionsHold == k.ok

\* The counts of an inode are those of its holders, and what was lost: nobody's
\* reference is dropped twice or forgotten by fork, dup, exec, exit, chdir or an open
\* that fails, and an inode is in the cache as long as somebody holds it.
CountsExact ==
    /\ AssertionsHold
    /\ \A i \in Inode :
        /\ k.open_count[i] = IF InMemory(k, i) THEN Cardinality(Entries(i)) + lost.open_count[i] ELSE 0
        /\ k.ref_count[i] = Cardinality(Entries(i)) + Cardinality(WorkingIn(i)) + Kernel(i)
                            + lost.ref_count[i]
    /\ \A i \in Sfs : (i \in k.cached) <=> (k.ref_count[i] > 0)

\* An inode that nobody has open is as it is on the disk: a process that opens the file
\* later, from the cache or from the disk, finds the size the last one left.
SyncedWhenClosed ==
    \A i \in Regular : k.open_count[i] = 0 =>
        i \notin k.dirty /\ (i \in k.cached => k.size[i] = k.disk[i])

\* Files implements OpenFiles: the sharing and the copying of tables and inodes, their
\* counts and the cache do not show.
Abstract == INSTANCE OpenFiles WITH
    Kept <- NStd, None <- NULL, fds <- k.fds, cwd <- k.pwd,
    size <- [i \in Regular |-> IF i \in k.cached THEN k.size[i] ELSE k.disk[i]]

ImplementsOpenFiles == Abstract!Spec

=============================================================================
