----------------------------- MODULE FilesProof ------------------------------
(***************************************************************************)
(* For all sets of processes, files and devices: the counts of an inode    *)
(* are those of its holders, a file that nobody has open is on the disk,   *)
(* and the calls do what OpenFiles promises.                               *)
(***************************************************************************)
EXTENDS Files, FiniteSetTheorems, ListLemmas

Tables == [Proc -> [Fd -> Inode \cup {NULL}]]
Pwds == [Proc -> Dirs \cup {NULL}]
Counts == [Inode -> Nat]

Kernels ==
    [ref_count : Counts, open_count : Counts, reclaim_count : [Inode -> Int],
     cached : SUBSET Sfs, dirty : SUBSET Sfs,
     size : [Regular -> {0, 1}], disk : [Regular -> {0, 1}],
     pwd : Pwds, fds : Tables, ok : BOOLEAN]

\* What the counts and the cache of a kernel say of each other, also in the
\* middle of a call.
Sound(kk) ==
    /\ kk \in Kernels /\ kk.ok
    /\ \A i \in Inode : kk.open_count[i] <= kk.ref_count[i]
    /\ \A i \in Devices : kk.ref_count[i] > 0
    /\ \A i \in Sfs : i \in kk.cached <=> kk.ref_count[i] > 0
    /\ \A i \in Sfs : kk.reclaim_count[i] = IF i \in kk.cached THEN 1 ELSE 0
    /\ \A i \in kk.dirty : i \in Regular /\ i \in kk.cached /\ kk.open_count[i] > 0
    /\ \A i \in Regular : i \in kk.cached /\ i \notin kk.dirty => kk.size[i] = kk.disk[i]

\* The size that a process finds.
SizeOf(kk) == [i \in Regular |-> IF i \in kk.cached THEN kk.size[i] ELSE kk.disk[i]]

\* r is kk after a call that moves no entry and no working directory.
SameTables(kk, r) == r.fds = kk.fds /\ r.pwd = kk.pwd

Same(kk, r) == SameTables(kk, r) /\ SizeOf(r) = SizeOf(kk)

\* r is kk with refs and opens more on the counts of i.
Moves(kk, r, i, refs, opens) ==
    /\ Sound(r) /\ Same(kk, r)
    /\ r.ref_count = [kk.ref_count EXCEPT ![i] = @ + refs]
    /\ r.open_count = [kk.open_count EXCEPT ![i] = @ + opens]

LEMMA Fields ==
    ASSUME NEW kk \in Kernels
    PROVE  /\ kk.ref_count \in Counts /\ kk.open_count \in Counts
           /\ kk.reclaim_count \in [Inode -> Int]
           /\ kk.cached \subseteq Sfs /\ kk.dirty \subseteq Sfs
           /\ kk.size \in [Regular -> {0, 1}] /\ kk.disk \in [Regular -> {0, 1}]
           /\ kk.pwd \in Pwds /\ kk.fds \in Tables /\ kk.ok \in BOOLEAN
BY DEF Kernels

\* An assertion that holds changes nothing.
LEMMA CheckHolds ==
    ASSUME NEW kk \in Kernels, kk.ok, NEW cond, cond
    PROVE  Check(kk, cond) = kk
BY DEF Check, Kernels

LEMMA CountTypes ==
    ASSUME NEW c \in Counts, NEW i \in Inode
    PROVE  /\ c[i] \in Nat
           /\ [c EXCEPT ![i] = @ + 0] = c
           /\ [c EXCEPT ![i] = @ + 1] \in Counts
           /\ c[i] > 0 => [c EXCEPT ![i] = @ + (-1)] \in Counts
BY DEF Counts

\* What has references is in memory.
LEMMA HeldInMemory ==
    ASSUME NEW kk, Sound(kk), NEW i \in Inode, kk.ref_count[i] > 0
    PROVE  InMemory(kk, i)
BY DEF Sound, InMemory, Inode

LEMMA InodeCheckHolds ==
    ASSUME NEW kk, Sound(kk), NEW i \in Inode, kk.ref_count[i] > 0
    PROVE  inode_check(kk, i) = kk
<1>1. InMemory(kk, i) /\ kk.ref_count[i] >= kk.open_count[i]
  <2>1. kk.ref_count[i] \in Nat /\ kk.open_count[i] \in Nat
    BY Fields DEF Sound, Counts
  <2> QED
    BY <2>1, HeldInMemory DEF Sound
<1> QED
  BY <1>1, CheckHolds DEF inode_check, Sound

LEMMA RefIncMoves ==
    ASSUME NEW kk, Sound(kk), NEW i \in Inode, InMemory(kk, i)
    PROVE  Moves(kk, RefInc(kk, i), i, 1, 0)
<1> DEFINE r == [kk EXCEPT !.ref_count[i] = @ + 1]
<1>1. /\ r \in Kernels /\ r.ok /\ r.ref_count = [kk.ref_count EXCEPT ![i] = @ + 1]
      /\ r.open_count = kk.open_count /\ r.reclaim_count = kk.reclaim_count
      /\ r.cached = kk.cached /\ r.dirty = kk.dirty
      /\ r.size = kk.size /\ r.disk = kk.disk /\ r.pwd = kk.pwd /\ r.fds = kk.fds
  <2>1. kk \in Kernels /\ kk.ok
    BY DEF Sound
  <2>2. [kk.ref_count EXCEPT ![i] = @ + 1] \in Counts
    BY <2>1, Fields, CountTypes
  <2> QED
    BY <2>1, <2>2 DEF Kernels
<1>2. RefInc(kk, i) = r
  BY <1>1, CheckHolds DEF RefInc
<1> HIDE DEF r
<1>3. kk.ref_count \in Counts /\ kk.open_count \in Counts /\ kk.cached \subseteq Sfs
  BY Fields DEF Sound
<1>4. kk.ref_count[i] > 0
  BY <1>3 DEF Sound, InMemory, Inode
<1>5. Sound(r)
  <2>1. \A j \in Inode : /\ r.ref_count[j] = IF j = i THEN kk.ref_count[j] + 1 ELSE kk.ref_count[j]
                         /\ kk.ref_count[j] \in Nat /\ kk.open_count[j] \in Nat
    BY <1>1, <1>3 DEF Counts
  <2>2. \A j \in Sfs : j \in r.cached <=> r.ref_count[j] > 0
    BY <1>1, <1>4, <2>1 DEF Sound, Inode
  <2>3. \A j \in Inode : r.open_count[j] <= r.ref_count[j]
    BY <1>1, <2>1 DEF Sound
  <2>4. \A j \in Devices : r.ref_count[j] > 0
    BY <1>1, <2>1 DEF Sound, Inode
  <2> QED
    BY <1>1, <2>2, <2>3, <2>4 DEF Sound
<1>6. Same(kk, r)
  BY <1>1 DEF Same, SameTables, SizeOf
<1>7. r.open_count = [kk.open_count EXCEPT ![i] = @ + 0]
  BY <1>1, <1>3, CountTypes
<1> QED
  BY <1>1, <1>2, <1>5, <1>6, <1>7 DEF Moves

LEMMA OpenIncMoves ==
    ASSUME NEW kk, Sound(kk), NEW i \in Inode, kk.open_count[i] < kk.ref_count[i]
    PROVE  Moves(kk, OpenInc(kk, i), i, 0, 1)
<1> DEFINE r == [kk EXCEPT !.open_count[i] = @ + 1]
<1>1. /\ r \in Kernels /\ r.ok /\ r.open_count = [kk.open_count EXCEPT ![i] = @ + 1]
      /\ r.ref_count = kk.ref_count /\ r.reclaim_count = kk.reclaim_count
      /\ r.cached = kk.cached /\ r.dirty = kk.dirty
      /\ r.size = kk.size /\ r.disk = kk.disk /\ r.pwd = kk.pwd /\ r.fds = kk.fds
  <2>1. kk \in Kernels /\ kk.ok
    BY DEF Sound
  <2>2. [kk.open_count EXCEPT ![i] = @ + 1] \in Counts
    BY <2>1, Fields, CountTypes
  <2> QED
    BY <2>1, <2>2 DEF Kernels
<1>2. kk.ref_count \in Counts /\ kk.open_count \in Counts /\ kk.cached \subseteq Sfs
  BY Fields DEF Sound
<1>3. InMemory(kk, i)
  <2>1. kk.ref_count[i] \in Nat /\ kk.open_count[i] \in Nat
    BY <1>2 DEF Counts
  <2> QED
    BY <2>1, HeldInMemory
<1>4. OpenInc(kk, i) = r
  BY <1>1, <1>3, CheckHolds DEF OpenInc
<1> HIDE DEF r
<1>5. Sound(r)
  <2>1. \A j \in Inode : /\ r.open_count[j] = IF j = i THEN kk.open_count[j] + 1 ELSE kk.open_count[j]
                         /\ kk.ref_count[j] \in Nat /\ kk.open_count[j] \in Nat
    BY <1>1, <1>2 DEF Counts
  <2>2. \A j \in r.dirty : j \in Regular /\ j \in r.cached /\ r.open_count[j] > 0
    BY <1>1, <2>1 DEF Sound, Inode, Sfs
  <2>3. \A j \in Inode : r.open_count[j] <= r.ref_count[j]
    BY <1>1, <2>1 DEF Sound
  <2> QED
    BY <1>1, <2>2, <2>3 DEF Sound
<1>6. Same(kk, r)
  BY <1>1 DEF Same, SameTables, SizeOf
<1>7. r.ref_count = [kk.ref_count EXCEPT ![i] = @ + 0]
  <2>1. [kk.ref_count EXCEPT ![i] = @ + 0] = kk.ref_count
    BY <1>2, CountTypes
  <2> QED
    BY <1>1, <2>1
<1> QED
  BY <1>1, <1>4, <1>5, <1>6, <1>7 DEF Moves

\* What sfs_fsync writes.
LEMMA FsyncWrites ==
    ASSUME NEW kk \in Kernels, NEW i \in Inode, i \in kk.dirty => i \in Regular
    PROVE  LET r == sfs_fsync(kk, i) IN
           /\ r \in Kernels /\ r.dirty = kk.dirty \ {i}
           /\ r.disk \in [Regular -> {0, 1}]
           /\ \A j \in Regular : r.disk[j] = IF j = i /\ i \in kk.dirty THEN kk.size[i] ELSE kk.disk[j]
           /\ r.ref_count = kk.ref_count /\ r.open_count = kk.open_count
           /\ r.reclaim_count = kk.reclaim_count /\ r.cached = kk.cached
           /\ r.size = kk.size /\ r.pwd = kk.pwd /\ r.fds = kk.fds /\ r.ok = kk.ok
<1> DEFINE r == [kk EXCEPT !.dirty = @ \ {i}, !.disk[i] = kk.size[i]]
<1>1. CASE i \in kk.dirty
  <2>1. /\ r \in Kernels /\ r.dirty = kk.dirty \ {i} /\ r.disk = [kk.disk EXCEPT ![i] = kk.size[i]]
        /\ r.ref_count = kk.ref_count /\ r.open_count = kk.open_count
        /\ r.reclaim_count = kk.reclaim_count /\ r.cached = kk.cached
        /\ r.size = kk.size /\ r.pwd = kk.pwd /\ r.fds = kk.fds /\ r.ok = kk.ok
    BY <1>1 DEF Kernels
  <2>2. sfs_fsync(kk, i) = r
    BY <1>1 DEF sfs_fsync
  <2> HIDE DEF r
  <2>3. kk.disk \in [Regular -> {0, 1}] /\ r.disk \in [Regular -> {0, 1}]
    BY <2>1, Fields
  <2> QED
    BY <1>1, <2>1, <2>2, <2>3
<1>2. CASE i \notin kk.dirty
  <2>1. sfs_fsync(kk, i) = kk
    BY <1>2 DEF sfs_fsync
  <2> QED
    BY <1>2, <2>1, Fields
<1> QED
  BY <1>1, <1>2

\* fsync of an inode that is held.
LEMMA FsyncKeeps ==
    ASSUME NEW kk, Sound(kk), NEW i \in Inode
    PROVE  LET r == sfs_fsync(kk, i) IN
           /\ Sound(r) /\ Same(kk, r)
           /\ r.ref_count = kk.ref_count /\ r.open_count = kk.open_count
<1> DEFINE r == sfs_fsync(kk, i)
<1>1. kk \in Kernels /\ (i \in kk.dirty => i \in Regular /\ i \in kk.cached)
  BY DEF Sound
<1>2. /\ r \in Kernels /\ r.dirty = kk.dirty \ {i}
      /\ \A j \in Regular : r.disk[j] = IF j = i /\ i \in kk.dirty THEN kk.size[i] ELSE kk.disk[j]
      /\ r.ref_count = kk.ref_count /\ r.open_count = kk.open_count
      /\ r.reclaim_count = kk.reclaim_count /\ r.cached = kk.cached
      /\ r.size = kk.size /\ r.pwd = kk.pwd /\ r.fds = kk.fds /\ r.ok = kk.ok
  BY <1>1, FsyncWrites
<1> HIDE DEF r
<1>3. Sound(r)
  BY <1>2 DEF Sound
<1>4. Same(kk, r)
  BY <1>1, <1>2 DEF Same, SameTables, SizeOf
<1> QED
  BY <1>2, <1>3, <1>4 DEF r

\* The last close writes the inode, so that only open ones stay dirty.
LEMMA OpenDecMoves ==
    ASSUME NEW kk, Sound(kk), NEW i \in Inode, kk.open_count[i] > 0
    PROVE  Moves(kk, OpenDec(kk, i), i, 0, -1)
<1> DEFINE k1 == [kk EXCEPT !.open_count[i] = @ - 1]
           r == IF k1.open_count[i] = 0 THEN sfs_fsync(k1, i) ELSE k1
<1>1. kk.ref_count \in Counts /\ kk.open_count \in Counts /\ kk.cached \subseteq Sfs
  BY Fields DEF Sound
<1>2. /\ kk.ref_count[i] \in Nat /\ kk.open_count[i] \in Nat /\ kk.ref_count[i] > 0
      /\ kk.ref_count[i] >= kk.open_count[i]
  BY <1>1 DEF Counts, Sound
<1>3. [kk.open_count EXCEPT ![i] = @ + (-1)] \in Counts
  BY <1>1, CountTypes
<1>4. [kk.open_count EXCEPT ![i] = @ - 1] = [kk.open_count EXCEPT ![i] = @ + (-1)]
  BY <1>2
<1>5. /\ k1 \in Kernels /\ k1.ok /\ k1.open_count = [kk.open_count EXCEPT ![i] = @ - 1]
      /\ k1.ref_count = kk.ref_count /\ k1.reclaim_count = kk.reclaim_count
      /\ k1.cached = kk.cached /\ k1.dirty = kk.dirty
      /\ k1.size = kk.size /\ k1.disk = kk.disk /\ k1.pwd = kk.pwd /\ k1.fds = kk.fds
  BY <1>3, <1>4 DEF Sound, Kernels
<1>6. k1 = Check([kk EXCEPT !.open_count[i] = @ - 1], InMemory(kk, i) /\ kk.open_count[i] > 0)
  BY <1>2, <1>5, CheckHolds, HeldInMemory
<1> HIDE DEF k1
<1>7. i \in k1.dirty => i \in Regular /\ i \in kk.cached
  BY <1>5 DEF Sound
<1>8. /\ r \in Kernels /\ r.ok /\ r.open_count = [kk.open_count EXCEPT ![i] = @ + (-1)]
      /\ r.ref_count = kk.ref_count /\ r.reclaim_count = kk.reclaim_count
      /\ r.cached = kk.cached /\ r.size = kk.size /\ r.pwd = kk.pwd /\ r.fds = kk.fds
      /\ r.dirty = IF k1.open_count[i] = 0 THEN kk.dirty \ {i} ELSE kk.dirty
      /\ \A j \in Regular : r.disk[j] = IF j = i /\ i \in kk.dirty /\ k1.open_count[i] = 0
                                        THEN kk.size[i] ELSE kk.disk[j]
  <2>1. CASE k1.open_count[i] = 0
    BY <1>4, <1>5, <1>7, <2>1, FsyncWrites
  <2>2. CASE k1.open_count[i] # 0
    BY <1>4, <1>5, <2>2
  <2> QED
    BY <2>1, <2>2
<1>9. OpenDec(kk, i) = r
  <2>1. CASE k1.open_count[i] = 0
    <3> DEFINE f == sfs_fsync(k1, i)
    <3>1. (IF i \in Sfs THEN sfs_fsync(k1, i) ELSE k1) = f
      BY <1>7 DEF sfs_fsync, Sfs
    <3>2. r = f
      BY <2>1
    <3>3. InMemory(f, i) /\ f.ref_count[i] >= f.open_count[i] /\ f \in Kernels /\ f.ok
      <4>1. InMemory(kk, i)
        BY <1>2, HeldInMemory
      <4>2. r.open_count[i] = 0 /\ r.ref_count[i] = kk.ref_count[i]
        BY <1>4, <1>5, <1>8, <2>1
      <4> HIDE DEF f, r
      <4> QED
        BY <1>2, <1>8, <3>2, <4>1, <4>2 DEF InMemory
    <3>4. inode_check(f, i) = f
      <4> HIDE DEF f, r
      <4> QED
        BY <3>3, CheckHolds DEF inode_check
    <3> HIDE DEF f, r
    <3>5. vop_close(k1, i) = f
      BY <3>1, <3>4 DEF vop_close
    <3> QED
      BY <1>6, <2>1, <3>2, <3>5 DEF OpenDec
  <2>2. CASE k1.open_count[i] # 0
    <3>1. r = k1
      BY <2>2
    <3> HIDE DEF r
    <3> QED
      BY <1>6, <2>2, <3>1 DEF OpenDec
  <2> QED
    BY <2>1, <2>2
<1>10. k1.open_count[i] = kk.open_count[i] - 1
  BY <1>1, <1>5 DEF Counts
<1> HIDE DEF r
<1>11. Sound(r)
  <2>1. \A j \in Inode : /\ r.open_count[j] = IF j = i THEN kk.open_count[j] - 1 ELSE kk.open_count[j]
                         /\ kk.ref_count[j] \in Nat /\ kk.open_count[j] \in Nat
    BY <1>1, <1>8 DEF Counts
  <2>2. \A j \in r.dirty : j \in Regular /\ j \in r.cached /\ r.open_count[j] > 0
    <3> SUFFICES ASSUME NEW j \in r.dirty
                 PROVE  j \in Regular /\ j \in r.cached /\ r.open_count[j] > 0
      OBVIOUS
    <3>1. j \in kk.dirty /\ (j = i => k1.open_count[i] # 0)
      BY <1>8
    <3>2. j \in Regular /\ j \in kk.cached /\ kk.open_count[j] > 0 /\ j \in Inode
      BY <3>1 DEF Sound, Inode, Sfs
    <3> QED
      BY <1>8, <1>10, <2>1, <3>1, <3>2
  <2>3. \A j \in Inode : r.open_count[j] <= r.ref_count[j]
    BY <1>8, <2>1 DEF Sound
  <2>4. \A j \in Regular : j \in r.cached /\ j \notin r.dirty => r.size[j] = r.disk[j]
    BY <1>8 DEF Sound
  <2> QED
    BY <1>8, <2>2, <2>3, <2>4 DEF Sound
<1>12. Same(kk, r)
  <2>1. i \in kk.dirty => i \in kk.cached
    BY DEF Sound
  <2> QED
    BY <1>8, <2>1 DEF Same, SameTables, SizeOf
<1>13. r.ref_count = [kk.ref_count EXCEPT ![i] = @ + 0]
  <2>1. [kk.ref_count EXCEPT ![i] = @ + 0] = kk.ref_count
    BY <1>1, CountTypes
  <2> QED
    BY <1>8, <2>1
<1> QED
  BY <1>8, <1>9, <1>11, <1>12, <1>13 DEF Moves

\* The last reference frees the inode: it is closed then, and so on the disk.
LEMMA RefDecMoves ==
    ASSUME NEW kk, Sound(kk), NEW i \in Inode, kk.ref_count[i] > kk.open_count[i],
           i \in Devices => kk.ref_count[i] > 1
    PROVE  Moves(kk, RefDec(kk, i), i, -1, 0)
<1> DEFINE k1 == [kk EXCEPT !.ref_count[i] = @ - 1]
           k2 == [k1 EXCEPT !.reclaim_count[i] = 0]
           k3 == [k2 EXCEPT !.cached = @ \ {i}]
<1>1. kk.ref_count \in Counts /\ kk.open_count \in Counts /\ kk.cached \subseteq Sfs
  BY Fields DEF Sound
<1>2. kk.ref_count[i] \in Nat /\ kk.open_count[i] \in Nat /\ kk.ref_count[i] > 0
  BY <1>1 DEF Counts
<1>3. [kk.ref_count EXCEPT ![i] = @ + (-1)] \in Counts
  BY <1>1, <1>2, CountTypes
<1>4. [kk.ref_count EXCEPT ![i] = @ - 1] = [kk.ref_count EXCEPT ![i] = @ + (-1)]
  BY <1>2
<1>5. /\ k1 \in Kernels /\ k1.ok /\ k1.ref_count = [kk.ref_count EXCEPT ![i] = @ + (-1)]
      /\ k1.open_count = kk.open_count /\ k1.reclaim_count = kk.reclaim_count
      /\ k1.cached = kk.cached /\ k1.dirty = kk.dirty
      /\ k1.size = kk.size /\ k1.disk = kk.disk /\ k1.pwd = kk.pwd /\ k1.fds = kk.fds
  BY <1>3, <1>4 DEF Sound, Kernels
<1>6. k1 = Check([kk EXCEPT !.ref_count[i] = @ - 1], InMemory(kk, i) /\ kk.ref_count[i] > 0)
  BY <1>2, <1>5, CheckHolds, HeldInMemory
<1>7. k1.ref_count[i] = kk.ref_count[i] - 1
  BY <1>1, <1>2, <1>5 DEF Counts
<1>8. \A j \in Inode : /\ k1.ref_count[j] = IF j = i THEN kk.ref_count[j] - 1 ELSE kk.ref_count[j]
                       /\ kk.ref_count[j] \in Nat /\ kk.open_count[j] \in Nat
  <2>1. k1.ref_count = [kk.ref_count EXCEPT ![i] = @ - 1]
    BY <1>4, <1>5
  <2> HIDE DEF k1
  <2> QED
    BY <1>1, <2>1 DEF Counts
<1>9. k1.open_count = [kk.open_count EXCEPT ![i] = @ + 0]
  <2>1. [kk.open_count EXCEPT ![i] = @ + 0] = kk.open_count
    BY <1>1, CountTypes
  <2> QED
    BY <1>5, <2>1
<1> HIDE DEF k1
<1>10. \A j \in Inode : k1.open_count[j] <= k1.ref_count[j]
  BY <1>5, <1>8, <1>2 DEF Sound
<1>11. CASE k1.ref_count[i] # 0
  <2>1. RefDec(kk, i) = k1
    BY <1>6, <1>11 DEF RefDec
  <2>2. Sound(k1)
    <3>1. \A j \in Devices : k1.ref_count[j] > 0
      <4>1. \A j \in Devices : j \in Inode /\ kk.ref_count[j] > 0
        BY DEF Sound, Inode
      <4> QED
        BY <1>2, <1>8, <1>11, <4>1
    <3>2. \A j \in Sfs : j \in k1.cached <=> k1.ref_count[j] > 0
      BY <1>2, <1>5, <1>7, <1>8, <1>11 DEF Sound, Inode
    <3> QED
      BY <1>5, <1>10, <3>1, <3>2 DEF Sound
  <2>3. Same(kk, k1)
    BY <1>5 DEF Same, SameTables, SizeOf
  <2> QED
    BY <1>5, <1>9, <2>1, <2>2, <2>3 DEF Moves
<1>12. CASE k1.ref_count[i] = 0
  <2>1. i \notin Devices /\ i \in Sfs /\ i \in kk.cached /\ kk.open_count[i] = 0
    BY <1>2, <1>7, <1>12 DEF Sound, Inode
  <2>2. i \notin kk.dirty /\ kk.reclaim_count[i] = 1
    BY <2>1 DEF Sound
  <2>3. /\ k2 \in Kernels /\ k2.ok /\ k2.ref_count = k1.ref_count
        /\ k2.open_count = k1.open_count /\ k2.reclaim_count = [k1.reclaim_count EXCEPT ![i] = 0]
        /\ k2.cached = k1.cached /\ k2.dirty = k1.dirty
        /\ k2.size = k1.size /\ k2.disk = k1.disk /\ k2.pwd = k1.pwd /\ k2.fds = k1.fds
    BY <1>5 DEF Kernels
  <2>4. k2 = Check([k1 EXCEPT !.reclaim_count[i] = k1.reclaim_count[i] - 1],
                   k1.reclaim_count[i] - 1 >= 0 /\ i \in Sfs)
    <3>1. k1.reclaim_count[i] - 1 = 0
      BY <1>5, <2>2
    <3>2. Check(k2, k1.reclaim_count[i] - 1 >= 0 /\ i \in Sfs) = k2
      <4> DEFINE cond == k1.reclaim_count[i] - 1 >= 0 /\ i \in Sfs
      <4>1. cond
        BY <2>1, <3>1
      <4> HIDE DEF k2, cond
      <4>2. Check(k2, cond) = k2
        BY <2>3, <4>1, CheckHolds
      <4> QED
        BY <4>2 DEF cond
    <3> QED
      BY <3>1, <3>2
  <2> HIDE DEF k2
  <2>5. sfs_fsync(k2, i) = k2
    BY <1>5, <2>2, <2>3 DEF sfs_fsync
  <2>6. /\ k3 \in Kernels /\ k3.ok /\ k3.ref_count = k1.ref_count
        /\ k3.open_count = k1.open_count /\ k3.reclaim_count = [k1.reclaim_count EXCEPT ![i] = 0]
        /\ k3.cached = k1.cached \ {i} /\ k3.dirty = k1.dirty
        /\ k3.size = k1.size /\ k3.disk = k1.disk /\ k3.pwd = k1.pwd /\ k3.fds = k1.fds
    BY <2>3 DEF Kernels
  <2>7. Check(k3, k1.open_count[i] = 0) = k3
    <3> HIDE DEF k3
    <3> QED
      BY <1>5, <2>1, <2>6, CheckHolds
  <2>8. RefDec(kk, i) = k3
    <3>1. RefDec(kk, i) = sfs_reclaim(k1, i)
      BY <1>6, <1>12 DEF RefDec
    <3>2. k1.reclaim_count[i] - 1 = 0
      BY <1>5, <2>2
    <3>3. sfs_reclaim(k1, i) = Check([sfs_fsync(k2, i) EXCEPT !.cached = @ \ {i}], k1.open_count[i] = 0)
      BY <1>12, <2>4, <3>2 DEF sfs_reclaim
    <3> QED
      BY <2>5, <2>7, <3>1, <3>3
  <2> HIDE DEF k3
  <2>9. Sound(k3)
    <3>1. \A j \in Devices : k3.ref_count[j] > 0
      <4>1. \A j \in Devices : j \in Inode /\ kk.ref_count[j] > 0
        BY DEF Sound, Inode
      <4> QED
        BY <1>8, <2>1, <2>6, <4>1
    <3>2. \A j \in Sfs : j \in k3.cached <=> k3.ref_count[j] > 0
      BY <1>5, <1>8, <1>12, <2>6 DEF Sound, Inode
    <3>3. \A j \in Sfs : k3.reclaim_count[j] = IF j \in k3.cached THEN 1 ELSE 0
      <4>1. k1.reclaim_count \in [Inode -> Int] /\ Sfs \subseteq Inode
        BY <1>5, Fields DEF Inode
      <4> QED
        BY <1>5, <2>1, <2>6, <4>1 DEF Sound
    <3>4. \A j \in k3.dirty : j \in Regular /\ j \in k3.cached /\ k3.open_count[j] > 0
      BY <1>5, <2>2, <2>6 DEF Sound
    <3>5. \A j \in Inode : k3.open_count[j] <= k3.ref_count[j]
      BY <1>10, <2>6
    <3>6. \A j \in Regular : j \in k3.cached /\ j \notin k3.dirty => k3.size[j] = k3.disk[j]
      BY <1>5, <2>6 DEF Sound
    <3> QED
      BY <2>6, <3>1, <3>2, <3>3, <3>4, <3>5, <3>6 DEF Sound
  <2>10. Same(kk, k3)
    <3>1. i \in Regular => kk.size[i] = kk.disk[i]
      BY <2>1, <2>2 DEF Sound
    <3> QED
      BY <1>5, <2>6, <3>1 DEF Same, SameTables, SizeOf
  <2> QED
    BY <1>5, <1>9, <2>6, <2>8, <2>9, <2>10 DEF Moves
<1> QED
  BY <1>11, <1>12

\* vfs_lookup takes a reference, whether the inode is cached or not.
LEMMA LookupMoves ==
    ASSUME NEW kk, Sound(kk), NEW i \in Inode
    PROVE  Moves(kk, vfs_lookup(kk, i), i, 1, 0)
<1>1. kk.ref_count \in Counts /\ kk.open_count \in Counts /\ kk.cached \subseteq Sfs
  BY Fields DEF Sound
<1>2. CASE i \in Devices
  BY <1>2, RefIncMoves DEF vfs_lookup, InMemory
<1>3. CASE i \in kk.cached
  <2> DEFINE r == RefInc(kk, i)
  <2>1. i \in Sfs /\ i \notin Devices /\ InMemory(kk, i) /\ kk.ref_count[i] > 0
    BY <1>1, <1>3, FilesAssumption DEF Sound, InMemory, Sfs
  <2>2. Moves(kk, r, i, 1, 0)
    BY <2>1, RefIncMoves
  <2>3. kk.ref_count[i] \in Nat
    BY <1>1 DEF Counts
  <2> HIDE DEF r
  <2>4. r.ref_count[i] # 1
    BY <1>1, <2>1, <2>2, <2>3 DEF Moves, Counts
  <2>5. vfs_lookup(kk, i) = r
    BY <1>3, <2>1, <2>4 DEF vfs_lookup, sfs_load_inode, r
  <2> QED
    BY <2>2, <2>5
<1>4. CASE i \notin Devices /\ i \notin kk.cached
  <2> DEFINE sz == IF i \in Regular THEN [kk.size EXCEPT ![i] = kk.disk[i]] ELSE kk.size
             r == [kk EXCEPT !.cached = @ \cup {i}, !.ref_count[i] = 1, !.open_count[i] = 0,
                             !.reclaim_count[i] = 1, !.size = sz]
  <2>1. i \in Sfs /\ kk.ref_count[i] = 0 /\ kk.open_count[i] = 0 /\ i \notin kk.dirty
    <3>1. i \in Sfs
      BY <1>4 DEF Inode
    <3>2. kk.ref_count[i] \in Nat /\ kk.open_count[i] \in Nat
      BY <1>1 DEF Counts
    <3> QED
      BY <1>4, <3>1, <3>2 DEF Sound
  <2>2. vfs_lookup(kk, i) = r
    BY <1>4 DEF vfs_lookup, sfs_load_inode
  <2>3. [kk.ref_count EXCEPT ![i] = 1] = [kk.ref_count EXCEPT ![i] = @ + 1]
    BY <2>1
  <2>4. [kk.open_count EXCEPT ![i] = 0] = [kk.open_count EXCEPT ![i] = @ + 0]
    BY <2>1
  <2>5. sz \in [Regular -> {0, 1}] /\ \A j \in Regular : sz[j] = IF j = i THEN kk.disk[j] ELSE kk.size[j]
    <3>1. kk.size \in [Regular -> {0, 1}] /\ kk.disk \in [Regular -> {0, 1}]
      BY Fields DEF Sound
    <3> QED
      BY <3>1
  <2> HIDE DEF sz
  <2>6. /\ r \in Kernels /\ r.ok /\ r.ref_count = [kk.ref_count EXCEPT ![i] = @ + 1]
        /\ r.open_count = [kk.open_count EXCEPT ![i] = @ + 0]
        /\ r.reclaim_count = [kk.reclaim_count EXCEPT ![i] = 1]
        /\ r.cached = kk.cached \cup {i} /\ r.dirty = kk.dirty
        /\ r.size = sz /\ r.disk = kk.disk /\ r.pwd = kk.pwd /\ r.fds = kk.fds
    <3>1. /\ [kk.ref_count EXCEPT ![i] = 1] \in Counts /\ [kk.open_count EXCEPT ![i] = 0] \in Counts
          /\ kk.cached \cup {i} \subseteq Sfs
      BY <1>1, <2>1 DEF Counts
    <3>2. kk \in Kernels /\ kk.ok /\ [kk.reclaim_count EXCEPT ![i] = 1] \in [Inode -> Int]
      BY Fields DEF Sound
    <3>3. /\ r \in Kernels /\ r.ok /\ r.ref_count = [kk.ref_count EXCEPT ![i] = 1]
          /\ r.open_count = [kk.open_count EXCEPT ![i] = 0]
          /\ r.reclaim_count = [kk.reclaim_count EXCEPT ![i] = 1]
          /\ r.cached = kk.cached \cup {i} /\ r.dirty = kk.dirty
          /\ r.size = sz /\ r.disk = kk.disk /\ r.pwd = kk.pwd /\ r.fds = kk.fds
      BY <2>5, <3>1, <3>2 DEF Kernels
    <3> HIDE DEF r
    <3> QED
      BY <2>3, <2>4, <3>3
  <2> HIDE DEF r
  <2>7. \A j \in Inode : /\ r.ref_count[j] = IF j = i THEN 1 ELSE kk.ref_count[j]
                         /\ r.open_count[j] = kk.open_count[j]
                         /\ kk.ref_count[j] \in Nat /\ kk.open_count[j] \in Nat
    BY <1>1, <2>1, <2>6 DEF Counts
  <2>8. Sound(r)
    <3>1. \A j \in Devices : r.ref_count[j] > 0
      BY <1>4, <2>7 DEF Sound, Inode
    <3>2. \A j \in Sfs : j \in r.cached <=> r.ref_count[j] > 0
      BY <2>6, <2>7 DEF Sound, Inode
    <3>3. \A j \in Sfs : r.reclaim_count[j] = IF j \in r.cached THEN 1 ELSE 0
      <4>1. kk.reclaim_count \in [Inode -> Int] /\ Sfs \subseteq Inode
        BY Fields DEF Inode, Sound
      <4> QED
        BY <2>6, <4>1 DEF Sound
    <3>4. \A j \in r.dirty : j \in Regular /\ j \in r.cached /\ r.open_count[j] > 0
      BY <2>6, <2>7 DEF Sound, Inode, Sfs
    <3>5. \A j \in Inode : r.open_count[j] <= r.ref_count[j]
      BY <2>1, <2>7 DEF Sound
    <3>6. \A j \in Regular : j \in r.cached /\ j \notin r.dirty => r.size[j] = r.disk[j]
      BY <2>5, <2>6 DEF Sound
    <3> QED
      BY <2>6, <3>1, <3>2, <3>3, <3>4, <3>5, <3>6 DEF Sound
  <2>9. Same(kk, r)
    BY <1>4, <2>5, <2>6 DEF Same, SameTables, SizeOf
  <2> QED
    BY <2>2, <2>6, <2>8, <2>9 DEF Moves
<1> QED
  BY <1>2, <1>3, <1>4

\* A file that is open takes another size, in the cache.
LEMMA TruncSets ==
    ASSUME NEW kk, Sound(kk), NEW i \in Regular, kk.open_count[i] > 0, NEW len \in {0, 1}
    PROVE  LET r == sfs_truncfile(kk, i, len) IN
           /\ Sound(r) /\ SameTables(kk, r)
           /\ r.ref_count = kk.ref_count /\ r.open_count = kk.open_count
           /\ SizeOf(r) = [SizeOf(kk) EXCEPT ![i] = len]
<1> DEFINE r == [kk EXCEPT !.size[i] = len, !.dirty = @ \cup {i}]
<1>1. kk.ref_count \in Counts /\ kk.open_count \in Counts /\ kk.size \in [Regular -> {0, 1}]
      /\ i \in Inode /\ i \in Sfs
  BY Fields DEF Sound, Inode, Sfs
<1>2. i \in kk.cached
  <2>1. kk.ref_count[i] \in Nat /\ kk.open_count[i] \in Nat
    BY <1>1 DEF Counts
  <2> QED
    BY <1>1, <2>1 DEF Sound
<1>3. CASE kk.size[i] = len
  BY <1>2, <1>3 DEF sfs_truncfile, SameTables, SizeOf
<1>4. CASE kk.size[i] # len
  <2>1. sfs_truncfile(kk, i, len) = r
    BY <1>4 DEF sfs_truncfile
  <2>2. /\ r \in Kernels /\ r.ok /\ r.ref_count = kk.ref_count
        /\ r.open_count = kk.open_count /\ r.reclaim_count = kk.reclaim_count
        /\ r.cached = kk.cached /\ r.dirty = kk.dirty \cup {i}
        /\ r.size = [kk.size EXCEPT ![i] = len] /\ r.disk = kk.disk
        /\ r.pwd = kk.pwd /\ r.fds = kk.fds
    BY <1>1 DEF Sound, Kernels
  <2> HIDE DEF r
  <2>3. Sound(r)
    BY <1>1, <1>2, <2>2 DEF Sound
  <2>4. SizeOf(r) = [SizeOf(kk) EXCEPT ![i] = len]
    BY <1>1, <1>2, <2>2 DEF SizeOf
  <2> QED
    BY <2>1, <2>2, <2>3, <2>4 DEF SameTables
<1> QED
  BY <1>3, <1>4

-----------------------------------------------------------------------------

(***************************************************************************)
(* Counting holders.  f stands for the tables of descriptors, w for the    *)
(* working directories, r for the references that neither of them holds    *)
(* and o for the opens among those: in the middle of a call they are not   *)
(* yet, or no longer, those of the kernel's tables.                        *)
(***************************************************************************)
Entry(f, i) == {e \in Proc \X Fd : f[e[1]][e[2]] = i}
Cwd(w, i) == {p \in Proc : w[p] = i}

Others(r, o) ==
    /\ r \in Counts /\ o \in Counts
    /\ \A i \in Inode : o[i] <= r[i]
    /\ \A i \in Devices : r[i] > 0

Balanced(kk, f, w, r, o) ==
    /\ Sound(kk) /\ f \in Tables /\ w \in Pwds /\ Others(r, o)
    /\ \A i \in Inode :
        /\ kk.open_count[i] = Cardinality(Entry(f, i)) + o[i]
        /\ kk.ref_count[i] = Cardinality(Entry(f, i)) + Cardinality(Cwd(w, i)) + r[i]

Plus(c, i) == [c EXCEPT ![i] = @ + 1]
Less(c, i) == [c EXCEPT ![i] = @ + (-1)]

LEMMA HoldersFinite ==
    ASSUME NEW f, NEW w, NEW i
    PROVE  /\ IsFiniteSet(Entry(f, i)) /\ Cardinality(Entry(f, i)) \in Nat
           /\ IsFiniteSet(Cwd(w, i)) /\ Cardinality(Cwd(w, i)) \in Nat
<1>1. IsFiniteSet(Fd)
  BY FilesAssumption, FS_Interval DEF Fd
<1>2. IsFiniteSet(Proc)
  BY FilesAssumption
<1>3. IsFiniteSet(Proc \X Fd)
  BY <1>1, <1>2, FS_Product
<1>4. Entry(f, i) \in SUBSET (Proc \X Fd) /\ Cwd(w, i) \in SUBSET Proc
  BY DEF Entry, Cwd
<1>5. IsFiniteSet(Entry(f, i))
  BY <1>3, <1>4, FS_Subset
<1>6. IsFiniteSet(Cwd(w, i))
  BY <1>2, <1>4, FS_Subset
<1> QED
  BY <1>5, <1>6, FS_CardinalityType

\* A descriptor that is closed is given to i.
LEMMA EntryAdded ==
    ASSUME NEW f \in Tables, NEW p \in Proc, NEW fd \in Fd, f[p][fd] = NULL, NEW i \in Inode
    PROVE  LET g == [f EXCEPT ![p][fd] = i] IN
           /\ g \in Tables
           /\ \A j \in Inode : Cardinality(Entry(g, j)) = Cardinality(Entry(f, j)) + IF j = i THEN 1 ELSE 0
<1> DEFINE g == [f EXCEPT ![p][fd] = i]
<1>1. g \in Tables
  BY DEF Tables
<1>2. \A q \in Proc, d \in Fd : g[q][d] = IF q = p /\ d = fd THEN i ELSE f[q][d]
  BY DEF Tables
<1> HIDE DEF g
<1>3. ASSUME NEW j \in Inode
      PROVE  Cardinality(Entry(g, j)) = Cardinality(Entry(f, j)) + IF j = i THEN 1 ELSE 0
  <2>1. j # NULL
    BY FilesAssumption DEF Inode, Sfs
  <2>2. \A e \in Proc \X Fd : /\ e[1] \in Proc /\ e[2] \in Fd
                             /\ e[1] = p /\ e[2] = fd <=> e = <<p, fd>>
    OBVIOUS
  <2>3. \A e \in Proc \X Fd : g[e[1]][e[2]] = IF e = <<p, fd>> THEN i ELSE f[e[1]][e[2]]
    BY <1>2, <2>2
  <2>4. <<p, fd>> \in Proc \X Fd /\ f[<<p, fd>>[1]][<<p, fd>>[2]] = NULL
    OBVIOUS
  <2>5. <<p, fd>> \notin Entry(f, j)
    BY <2>1, <2>4 DEF Entry
  <2>6. IsFiniteSet(Entry(f, j)) /\ Cardinality(Entry(f, j)) \in Nat
    BY HoldersFinite
  <2>7. CASE j = i
    <3>1. Entry(g, j) = Entry(f, j) \cup {<<p, fd>>}
      BY <2>3, <2>4, <2>7 DEF Entry
    <3> QED
      BY <2>5, <2>6, <2>7, <3>1, FS_AddElement
  <2>8. CASE j # i
    <3>1. Entry(g, j) = Entry(f, j)
      BY <2>1, <2>3, <2>4, <2>8 DEF Entry
    <3> QED
      BY <2>6, <2>8, <3>1
  <2> QED
    BY <2>7, <2>8
<1> QED
  BY <1>1, <1>3 DEF g

\* And taken from it.
LEMMA EntryDropped ==
    ASSUME NEW f \in Tables, NEW p \in Proc, NEW fd \in Fd, f[p][fd] \in Inode
    PROVE  LET g == [f EXCEPT ![p][fd] = NULL] IN
           /\ g \in Tables
           /\ \A j \in Inode : Cardinality(Entry(f, j))
                               = Cardinality(Entry(g, j)) + IF j = f[p][fd] THEN 1 ELSE 0
<1> DEFINE g == [f EXCEPT ![p][fd] = NULL]
           i == f[p][fd]
<1>1. g \in Tables /\ g[p][fd] = NULL /\ i \in Inode
  BY DEF Tables
<1>2. [g EXCEPT ![p][fd] = i] = f
  BY DEF Tables
<1> HIDE DEF g, i
<1> QED
  BY <1>1, <1>2, EntryAdded DEF g, i

\* A working directory is set.
LEMMA CwdAdded ==
    ASSUME NEW w \in Pwds, NEW p \in Proc, w[p] = NULL, NEW d \in Dirs
    PROVE  LET v == [w EXCEPT ![p] = d] IN
           /\ v \in Pwds
           /\ \A j \in Inode : Cardinality(Cwd(v, j)) = Cardinality(Cwd(w, j)) + IF j = d THEN 1 ELSE 0
<1> DEFINE v == [w EXCEPT ![p] = d]
<1>1. v \in Pwds
  BY DEF Pwds
<1>2. \A q \in Proc : v[q] = IF q = p THEN d ELSE w[q]
  BY DEF Pwds
<1> HIDE DEF v
<1>3. ASSUME NEW j \in Inode
      PROVE  Cardinality(Cwd(v, j)) = Cardinality(Cwd(w, j)) + IF j = d THEN 1 ELSE 0
  <2>1. j # NULL
    BY FilesAssumption DEF Inode, Sfs
  <2>2. p \notin Cwd(w, j)
    BY <2>1 DEF Cwd
  <2>3. IsFiniteSet(Cwd(w, j)) /\ Cardinality(Cwd(w, j)) \in Nat
    BY HoldersFinite
  <2>4. CASE j = d
    <3>1. Cwd(v, j) = Cwd(w, j) \cup {p}
      BY <1>2, <2>4 DEF Cwd
    <3> QED
      BY <2>2, <2>3, <2>4, <3>1, FS_AddElement
  <2>5. CASE j # d
    <3>1. Cwd(v, j) = Cwd(w, j)
      BY <1>2, <2>1, <2>5 DEF Cwd
    <3> QED
      BY <2>3, <2>5, <3>1
  <2> QED
    BY <2>4, <2>5
<1> QED
  BY <1>1, <1>3 DEF v

LEMMA CwdDropped ==
    ASSUME NEW w \in Pwds, NEW p \in Proc, NEW d \in Dirs, w[p] = d
    PROVE  LET v == [w EXCEPT ![p] = NULL] IN
           /\ v \in Pwds
           /\ \A j \in Inode : Cardinality(Cwd(w, j)) = Cardinality(Cwd(v, j)) + IF j = d THEN 1 ELSE 0
<1> DEFINE v == [w EXCEPT ![p] = NULL]
<1>1. v \in Pwds /\ v[p] = NULL
  BY DEF Pwds
<1>2. [v EXCEPT ![p] = d] = w
  BY DEF Pwds
<1> HIDE DEF v
<1> QED
  BY <1>1, <1>2, CwdAdded DEF v

\* Counts that go up or down by one.
LEMMA PlusLess ==
    ASSUME NEW c \in Counts, NEW i \in Inode
    PROVE  /\ c[i] \in Nat
           /\ Plus(c, i) \in Counts
           /\ \A j \in Inode : c[j] \in Nat /\ Plus(c, i)[j] = c[j] + IF j = i THEN 1 ELSE 0
           /\ Less(Plus(c, i), i) = c
           /\ c[i] > 0 =>
                 /\ Less(c, i) \in Counts /\ Plus(Less(c, i), i) = c
                 /\ \A j \in Inode : Less(c, i)[j] = c[j] - IF j = i THEN 1 ELSE 0
<1>1. c[i] \in Nat
  BY DEF Counts
<1>2. /\ Plus(c, i) \in Counts
      /\ \A j \in Inode : c[j] \in Nat /\ Plus(c, i)[j] = c[j] + IF j = i THEN 1 ELSE 0
  BY DEF Plus, Counts
<1>3. Less(Plus(c, i), i) = c
  <2>1. c[i] + 1 + (-1) = c[i]
    BY <1>1
  <2> QED
    BY <2>1 DEF Plus, Less, Counts
<1>4. ASSUME c[i] > 0
      PROVE  /\ Less(c, i) \in Counts /\ Plus(Less(c, i), i) = c
             /\ \A j \in Inode : Less(c, i)[j] = c[j] - IF j = i THEN 1 ELSE 0
  <2>1. c[i] + (-1) \in Nat /\ c[i] + (-1) + 1 = c[i] /\ c[i] + (-1) = c[i] - 1
    BY <1>1, <1>4
  <2> QED
    <3>1. Less(c, i) \in Counts /\ \A j \in Inode : Less(c, i)[j] = IF j = i THEN c[j] - 1 ELSE c[j]
      BY <2>1 DEF Less, Counts
    <3>2. Plus(Less(c, i), i) = c
      BY <2>1 DEF Plus, Less, Counts
    <3>3. \A j \in Inode : Less(c, i)[j] = c[j] - IF j = i THEN 1 ELSE 0
      BY <1>2, <3>1
    <3> QED
      BY <3>1, <3>2, <3>3
<1> QED
  BY <1>1, <1>2, <1>3, <1>4

\* Those who hold an inode are less than its count, by what is not in a table.
LEMMA CountBounds ==
    ASSUME NEW kk, NEW f, NEW w, NEW r, NEW o, Balanced(kk, f, w, r, o), NEW i \in Inode
    PROVE  /\ kk.ref_count[i] \in Nat /\ kk.open_count[i] \in Nat
           /\ r[i] \in Nat /\ o[i] \in Nat
           /\ kk.open_count[i] >= o[i] /\ kk.ref_count[i] >= r[i]
           /\ kk.ref_count[i] - r[i] >= kk.open_count[i] - o[i]
<1>1. /\ kk.ref_count \in Counts /\ kk.open_count \in Counts
      /\ r \in Counts /\ o \in Counts
  BY Fields DEF Balanced, Sound, Others
<1>2. /\ kk.ref_count[i] \in Nat /\ kk.open_count[i] \in Nat
      /\ r[i] \in Nat /\ o[i] \in Nat
  BY <1>1 DEF Counts
<1>3. Cardinality(Entry(f, i)) \in Nat /\ Cardinality(Cwd(w, i)) \in Nat
  BY HoldersFinite
<1> QED
  BY <1>2, <1>3 DEF Balanced

Adds(c, c1, i, n) == c1 = [c EXCEPT ![i] = @ + n]

\* A call that only moves references keeps the balance, if the others have
\* got them or given them.
LEMMA MovesKeep ==
    ASSUME NEW kk, NEW f, NEW w, NEW r, NEW o, Balanced(kk, f, w, r, o),
           NEW i \in Inode, NEW k1, NEW refs \in Int, NEW opens \in Int,
           Moves(kk, k1, i, refs, opens),
           NEW r1, NEW o1, Others(r1, o1), Adds(r, r1, i, refs), Adds(o, o1, i, opens)
    PROVE  Balanced(k1, f, w, r1, o1)
<1>1. ASSUME NEW j \in Inode
      PROVE  /\ k1.open_count[j] = Cardinality(Entry(f, j)) + o1[j]
             /\ k1.ref_count[j] = Cardinality(Entry(f, j)) + Cardinality(Cwd(w, j)) + r1[j]
  <2>1. Cardinality(Entry(f, j)) \in Nat /\ Cardinality(Cwd(w, j)) \in Nat
    BY HoldersFinite
  <2>2. /\ kk.ref_count \in Counts /\ kk.open_count \in Counts
        /\ r \in Counts /\ o \in Counts
    BY Fields DEF Balanced, Sound, Others
  <2>3. /\ r1[j] = IF j = i THEN r[j] + refs ELSE r[j]
        /\ o1[j] = IF j = i THEN o[j] + opens ELSE o[j]
        /\ k1.ref_count[j] = IF j = i THEN kk.ref_count[j] + refs ELSE kk.ref_count[j]
        /\ k1.open_count[j] = IF j = i THEN kk.open_count[j] + opens ELSE kk.open_count[j]
        /\ r[j] \in Nat /\ o[j] \in Nat
    BY <2>2 DEF Moves, Counts, Adds
  <2>4. /\ kk.open_count[j] = Cardinality(Entry(f, j)) + o[j]
        /\ kk.ref_count[j] = Cardinality(Entry(f, j)) + Cardinality(Cwd(w, j)) + r[j]
    BY DEF Balanced
  <2> QED
    BY <2>1, <2>3, <2>4
<1> QED
  BY <1>1 DEF Balanced, Moves

\* Others may take a reference, open what they hold, and give back both.
LEMMA OthersMove ==
    ASSUME NEW r, NEW o, Others(r, o), NEW i \in Inode
    PROVE  /\ Others(Plus(r, i), o)
           /\ o[i] < r[i] => Others(r, Plus(o, i))
           /\ o[i] > 0 => Others(r, Less(o, i))
           /\ o[i] < r[i] /\ (i \in Devices => r[i] > 1) => Others(Less(r, i), o)
<1>1. r \in Counts /\ o \in Counts
  BY DEF Others
<1>2. \A j \in Inode : r[j] \in Nat /\ o[j] \in Nat
  BY <1>1 DEF Counts
<1>3. /\ Plus(r, i) \in Counts /\ Plus(o, i) \in Counts
      /\ \A j \in Inode : /\ Plus(r, i)[j] = r[j] + IF j = i THEN 1 ELSE 0
                         /\ Plus(o, i)[j] = o[j] + IF j = i THEN 1 ELSE 0
  BY <1>1, PlusLess
<1>4. o[i] > 0 => /\ Less(o, i) \in Counts
                  /\ \A j \in Inode : Less(o, i)[j] = o[j] - IF j = i THEN 1 ELSE 0
  BY <1>1, PlusLess
<1>5. r[i] > 0 => /\ Less(r, i) \in Counts
                  /\ \A j \in Inode : Less(r, i)[j] = r[j] - IF j = i THEN 1 ELSE 0
  BY <1>1, PlusLess
<1>6. \A j \in Devices : j \in Inode /\ r[j] > 0
  BY DEF Others, Inode
<1>7. \A j \in Inode : o[j] <= r[j]
  BY DEF Others
<1>8. Others(Plus(r, i), o)
  BY <1>1, <1>2, <1>3, <1>6, <1>7 DEF Others
<1>9. o[i] < r[i] => Others(r, Plus(o, i))
  BY <1>1, <1>2, <1>3, <1>6, <1>7 DEF Others
<1>10. o[i] > 0 => Others(r, Less(o, i))
  BY <1>1, <1>2, <1>4, <1>6, <1>7 DEF Others
<1>11. o[i] < r[i] /\ (i \in Devices => r[i] > 1) => Others(Less(r, i), o)
  BY <1>1, <1>2, <1>5, <1>6, <1>7 DEF Others
<1> QED
  BY <1>8, <1>9, <1>10, <1>11

\* r1 and o1 are held by others after a call that made kk into k1.
Keeps(kk, k1, f, w, r1, o1) == Balanced(k1, f, w, r1, o1) /\ Same(kk, k1)

\* RefInc on what is in memory, and vfs_lookup: the caller gets a reference.
LEMMA RefIncKeeps ==
    ASSUME NEW kk, NEW f, NEW w, NEW r, NEW o, Balanced(kk, f, w, r, o),
           NEW i \in Inode, kk.ref_count[i] > 0
    PROVE  Keeps(kk, RefInc(kk, i), f, w, Plus(r, i), o)
<1>1. Sound(kk) /\ Others(r, o) /\ o \in Counts
  BY DEF Balanced, Others
<1>2. Moves(kk, RefInc(kk, i), i, 1, 0)
  BY <1>1, HeldInMemory, RefIncMoves
<1>3. Others(Plus(r, i), o)
  BY <1>1, OthersMove
<1>4. Adds(r, Plus(r, i), i, 1) /\ Adds(o, o, i, 0)
  BY <1>1, CountTypes DEF Plus, Adds
<1>5. Balanced(RefInc(kk, i), f, w, Plus(r, i), o)
  BY <1>2, <1>3, <1>4, MovesKeep
<1> QED
  BY <1>2, <1>5 DEF Keeps, Moves

LEMMA LookupKeeps ==
    ASSUME NEW kk, NEW f, NEW w, NEW r, NEW o, Balanced(kk, f, w, r, o), NEW i \in Inode
    PROVE  Keeps(kk, vfs_lookup(kk, i), f, w, Plus(r, i), o)
<1>1. Sound(kk) /\ Others(r, o) /\ o \in Counts
  BY DEF Balanced, Others
<1>2. Moves(kk, vfs_lookup(kk, i), i, 1, 0)
  BY <1>1, LookupMoves
<1>3. Others(Plus(r, i), o)
  BY <1>1, OthersMove
<1>4. Adds(r, Plus(r, i), i, 1) /\ Adds(o, o, i, 0)
  BY <1>1, CountTypes DEF Plus, Adds
<1>5. Balanced(vfs_lookup(kk, i), f, w, Plus(r, i), o)
  BY <1>2, <1>3, <1>4, MovesKeep
<1> QED
  BY <1>2, <1>5 DEF Keeps, Moves

\* The caller opens what it holds.
LEMMA OpenIncKeeps ==
    ASSUME NEW kk, NEW f, NEW w, NEW r, NEW o, Balanced(kk, f, w, r, o),
           NEW i \in Inode, o[i] < r[i]
    PROVE  Keeps(kk, OpenInc(kk, i), f, w, r, Plus(o, i))
<1>1. Sound(kk) /\ Others(r, o) /\ r \in Counts
  BY DEF Balanced, Others
<1>2. kk.open_count[i] < kk.ref_count[i]
  BY CountBounds
<1>3. Moves(kk, OpenInc(kk, i), i, 0, 1)
  BY <1>1, <1>2, OpenIncMoves
<1>4. Others(r, Plus(o, i))
  BY <1>1, OthersMove
<1>5. Adds(o, Plus(o, i), i, 1) /\ Adds(r, r, i, 0)
  BY <1>1, CountTypes DEF Plus, Adds
<1>6. Balanced(OpenInc(kk, i), f, w, r, Plus(o, i))
  BY <1>3, <1>4, <1>5, MovesKeep
<1> QED
  BY <1>3, <1>6 DEF Keeps, Moves

\* The caller closes what it opened.
LEMMA OpenDecKeeps ==
    ASSUME NEW kk, NEW f, NEW w, NEW r, NEW o, Balanced(kk, f, w, r, o),
           NEW i \in Inode, o[i] > 0
    PROVE  Keeps(kk, OpenDec(kk, i), f, w, r, Less(o, i))
<1>1. Sound(kk) /\ Others(r, o) /\ r \in Counts
  BY DEF Balanced, Others
<1>2. kk.open_count[i] > 0
  BY CountBounds
<1>3. Moves(kk, OpenDec(kk, i), i, 0, -1)
  BY <1>1, <1>2, OpenDecMoves
<1>4. Others(r, Less(o, i))
  BY <1>1, OthersMove
<1>5. Adds(o, Less(o, i), i, -1) /\ Adds(r, r, i, 0)
  BY <1>1, CountTypes DEF Less, Adds
<1>6. Balanced(OpenDec(kk, i), f, w, r, Less(o, i))
  BY <1>3, <1>4, <1>5, MovesKeep
<1> QED
  BY <1>3, <1>6 DEF Keeps, Moves

\* The caller gives back a reference that no open of its needs.
LEMMA RefDecKeeps ==
    ASSUME NEW kk, NEW f, NEW w, NEW r, NEW o, Balanced(kk, f, w, r, o),
           NEW i \in Inode, o[i] < r[i], i \in Devices => r[i] > 1
    PROVE  Keeps(kk, RefDec(kk, i), f, w, Less(r, i), o)
<1>1. Sound(kk) /\ Others(r, o) /\ o \in Counts
  BY DEF Balanced, Others
<1>2. kk.open_count[i] < kk.ref_count[i] /\ (i \in Devices => kk.ref_count[i] > 1)
  BY CountBounds
<1>3. Moves(kk, RefDec(kk, i), i, -1, 0)
  BY <1>1, <1>2, RefDecMoves
<1>4. Others(Less(r, i), o)
  BY <1>1, OthersMove
<1>5. Adds(r, Less(r, i), i, -1) /\ Adds(o, o, i, 0)
  BY <1>1, CountTypes DEF Less, Adds
<1>6. Balanced(RefDec(kk, i), f, w, Less(r, i), o)
  BY <1>3, <1>4, <1>5, MovesKeep
<1> QED
  BY <1>3, <1>6 DEF Keeps, Moves

\* vfs_close gives back an open and its reference.
LEMMA CloseKeeps ==
    ASSUME NEW kk, NEW f, NEW w, NEW r, NEW o, Balanced(kk, f, w, r, o),
           NEW i \in Inode, o[i] > 0, i \in Devices => r[i] > 1
    PROVE  Keeps(kk, vfs_close(kk, i), f, w, Less(r, i), Less(o, i))
<1> DEFINE k1 == OpenDec(kk, i)
<1>1. Others(r, o) /\ r \in Counts /\ o \in Counts
  BY DEF Balanced, Others
<1>2. r[i] \in Nat /\ o[i] \in Nat /\ o[i] <= r[i] /\ Less(o, i)[i] = o[i] - 1
  BY <1>1, PlusLess DEF Others
<1>3. Keeps(kk, k1, f, w, r, Less(o, i))
  BY OpenDecKeeps
<1> HIDE DEF k1
<1>4. Balanced(k1, f, w, r, Less(o, i))
  BY <1>3 DEF Keeps
<1>5. Keeps(k1, RefDec(k1, i), f, w, Less(r, i), Less(o, i))
  BY <1>2, <1>4, RefDecKeeps
<1>6. vfs_close(kk, i) = RefDec(k1, i)
  BY DEF vfs_close, k1
<1> QED
  BY <1>3, <1>5, <1>6 DEF Keeps, Same, SameTables

\* An open with its reference moves from others into a descriptor.
LEMMA EntryTakes ==
    ASSUME NEW kk, NEW f, NEW w, NEW r, NEW o, Balanced(kk, f, w, r, o),
           NEW p \in Proc, NEW fd \in Fd, f[p][fd] = NULL,
           NEW i \in Inode, o[i] > 0, i \in Devices => r[i] > 1
    PROVE  Balanced(kk, [f EXCEPT ![p][fd] = i], w, Less(r, i), Less(o, i))
<1> DEFINE g == [f EXCEPT ![p][fd] = i]
<1>1. Others(r, o) /\ r \in Counts /\ o \in Counts /\ f \in Tables
  BY DEF Balanced, Others
<1>2. r[i] \in Nat /\ o[i] \in Nat /\ o[i] <= r[i] /\ Less(o, i)[i] = o[i] - 1
  BY <1>1, PlusLess DEF Others
<1>3. Others(r, Less(o, i))
  BY <1>1, OthersMove
<1>4. Others(Less(r, i), Less(o, i))
  BY <1>2, <1>3, OthersMove
<1>5. /\ g \in Tables
      /\ \A j \in Inode : Cardinality(Entry(g, j)) = Cardinality(Entry(f, j)) + IF j = i THEN 1 ELSE 0
  BY <1>1, EntryAdded, ZenonT(60)
<1> HIDE DEF g
<1>6. ASSUME NEW j \in Inode
      PROVE  /\ kk.open_count[j] = Cardinality(Entry(g, j)) + Less(o, i)[j]
             /\ kk.ref_count[j] = Cardinality(Entry(g, j)) + Cardinality(Cwd(w, j)) + Less(r, i)[j]
  <2>1. Cardinality(Entry(f, j)) \in Nat /\ Cardinality(Cwd(w, j)) \in Nat
    BY HoldersFinite
  <2>2. /\ r[j] \in Nat /\ o[j] \in Nat
        /\ Less(r, i)[j] = r[j] - IF j = i THEN 1 ELSE 0
        /\ Less(o, i)[j] = o[j] - IF j = i THEN 1 ELSE 0
    <3>1. r[i] > 0
      BY <1>2
    <3>2. r[j] \in Nat /\ Less(r, i)[j] = r[j] - IF j = i THEN 1 ELSE 0
      BY <1>1, <3>1, PlusLess
    <3>3. o[j] \in Nat /\ Less(o, i)[j] = o[j] - IF j = i THEN 1 ELSE 0
      BY <1>1, PlusLess
    <3> QED
      BY <3>2, <3>3
  <2>3. /\ kk.open_count[j] = Cardinality(Entry(f, j)) + o[j]
        /\ kk.ref_count[j] = Cardinality(Entry(f, j)) + Cardinality(Cwd(w, j)) + r[j]
    BY DEF Balanced
  <2>4. Cardinality(Entry(g, j)) = Cardinality(Entry(f, j)) + IF j = i THEN 1 ELSE 0
    BY <1>5
  <2> QED
    BY <2>1, <2>2, <2>3, <2>4
<1>7. Sound(kk) /\ w \in Pwds
  BY DEF Balanced
<1>8. Balanced(kk, g, w, Less(r, i), Less(o, i))
  BY <1>4, <1>5, <1>6, <1>7 DEF Balanced
<1> QED
  BY <1>8 DEF g

\* And back.
LEMMA EntryGives ==
    ASSUME NEW kk, NEW f, NEW w, NEW r, NEW o, Balanced(kk, f, w, r, o),
           NEW p \in Proc, NEW fd \in Fd, NEW i \in Inode, f[p][fd] = i
    PROVE  Balanced(kk, [f EXCEPT ![p][fd] = NULL], w, Plus(r, i), Plus(o, i))
<1> DEFINE g == [f EXCEPT ![p][fd] = NULL]
<1>1. Others(r, o) /\ r \in Counts /\ o \in Counts /\ f \in Tables
  BY DEF Balanced, Others
<1>2. r[i] \in Nat /\ o[i] \in Nat /\ o[i] <= r[i] /\ Plus(r, i)[i] = r[i] + 1
  BY <1>1, PlusLess DEF Others
<1>3. Others(Plus(r, i), o)
  BY <1>1, OthersMove
<1>4. Others(Plus(r, i), Plus(o, i))
  BY <1>2, <1>3, OthersMove
<1>5. /\ g \in Tables
      /\ \A j \in Inode : Cardinality(Entry(f, j)) = Cardinality(Entry(g, j)) + IF j = i THEN 1 ELSE 0
  <2>1. f[p][fd] \in Inode
    OBVIOUS
  <2>2. /\ g \in Tables
        /\ \A j \in Inode : Cardinality(Entry(f, j))
                            = Cardinality(Entry(g, j)) + IF j = f[p][fd] THEN 1 ELSE 0
    BY <1>1, <2>1, EntryDropped, ZenonT(60)
  <2> HIDE DEF g
  <2> QED
    BY <2>2
<1> HIDE DEF g
<1>6. ASSUME NEW j \in Inode
      PROVE  /\ kk.open_count[j] = Cardinality(Entry(g, j)) + Plus(o, i)[j]
             /\ kk.ref_count[j] = Cardinality(Entry(g, j)) + Cardinality(Cwd(w, j)) + Plus(r, i)[j]
  <2>1. Cardinality(Entry(g, j)) \in Nat /\ Cardinality(Cwd(w, j)) \in Nat
    BY HoldersFinite
  <2>2. /\ r[j] \in Nat /\ o[j] \in Nat
        /\ Plus(r, i)[j] = r[j] + IF j = i THEN 1 ELSE 0
        /\ Plus(o, i)[j] = o[j] + IF j = i THEN 1 ELSE 0
    BY <1>1, PlusLess
  <2>3. /\ kk.open_count[j] = Cardinality(Entry(f, j)) + o[j]
        /\ kk.ref_count[j] = Cardinality(Entry(f, j)) + Cardinality(Cwd(w, j)) + r[j]
    BY DEF Balanced
  <2>4. Cardinality(Entry(f, j)) = Cardinality(Entry(g, j)) + IF j = i THEN 1 ELSE 0
    BY <1>5
  <2> QED
    BY <2>1, <2>2, <2>3, <2>4
<1>7. Sound(kk) /\ w \in Pwds
  BY DEF Balanced
<1>8. Balanced(kk, g, w, Plus(r, i), Plus(o, i))
  BY <1>4, <1>5, <1>6, <1>7 DEF Balanced
<1> QED
  BY <1>8 DEF g

\* A reference that no open needs becomes that of a working directory.
LEMMA CwdTakes ==
    ASSUME NEW kk, NEW f, NEW w, NEW r, NEW o, Balanced(kk, f, w, r, o),
           NEW p \in Proc, w[p] = NULL, NEW d \in Dirs, o[d] < r[d]
    PROVE  Balanced(kk, f, [w EXCEPT ![p] = d], Less(r, d), o)
<1> DEFINE v == [w EXCEPT ![p] = d]
<1>1. Others(r, o) /\ r \in Counts /\ o \in Counts /\ w \in Pwds
  BY DEF Balanced, Others
<1>2. d \in Inode /\ d \notin Devices
  BY FilesAssumption DEF Inode, Sfs
<1>3. r[d] \in Nat /\ o[d] \in Nat
  BY <1>1, <1>2, PlusLess
<1>4. Others(Less(r, d), o)
  BY <1>1, <1>2, OthersMove
<1>5. /\ v \in Pwds
      /\ \A j \in Inode : Cardinality(Cwd(v, j)) = Cardinality(Cwd(w, j)) + IF j = d THEN 1 ELSE 0
  BY <1>1, CwdAdded
<1> HIDE DEF v
<1>6. ASSUME NEW j \in Inode
      PROVE  kk.ref_count[j] = Cardinality(Entry(f, j)) + Cardinality(Cwd(v, j)) + Less(r, d)[j]
  <2>1. Cardinality(Entry(f, j)) \in Nat /\ Cardinality(Cwd(w, j)) \in Nat
    BY HoldersFinite
  <2>2. r[j] \in Nat /\ Less(r, d)[j] = r[j] - IF j = d THEN 1 ELSE 0
    <3>1. r[d] > 0
      BY <1>3
    <3> QED
      BY <1>1, <1>2, <3>1, PlusLess
  <2>3. kk.ref_count[j] = Cardinality(Entry(f, j)) + Cardinality(Cwd(w, j)) + r[j]
    BY DEF Balanced
  <2>4. Cardinality(Cwd(v, j)) = Cardinality(Cwd(w, j)) + IF j = d THEN 1 ELSE 0
    BY <1>5
  <2> QED
    BY <2>1, <2>2, <2>3, <2>4
<1>7. Balanced(kk, f, v, Less(r, d), o)
  BY <1>4, <1>5, <1>6 DEF Balanced
<1> QED
  BY <1>7 DEF v

\* And back.
LEMMA CwdGives ==
    ASSUME NEW kk, NEW f, NEW w, NEW r, NEW o, Balanced(kk, f, w, r, o),
           NEW p \in Proc, NEW d \in Dirs, w[p] = d
    PROVE  Balanced(kk, f, [w EXCEPT ![p] = NULL], Plus(r, d), o)
<1> DEFINE v == [w EXCEPT ![p] = NULL]
<1>1. Others(r, o) /\ r \in Counts /\ o \in Counts /\ w \in Pwds
  BY DEF Balanced, Others
<1>2. d \in Inode
  BY DEF Inode, Sfs
<1>3. Others(Plus(r, d), o)
  BY <1>1, <1>2, OthersMove
<1>4. /\ v \in Pwds
      /\ \A j \in Inode : Cardinality(Cwd(w, j)) = Cardinality(Cwd(v, j)) + IF j = d THEN 1 ELSE 0
  <2>1. w[p] \in Dirs
    OBVIOUS
  <2>2. /\ v \in Pwds
        /\ \A j \in Inode : Cardinality(Cwd(w, j)) = Cardinality(Cwd(v, j)) + IF j = w[p] THEN 1 ELSE 0
    BY <1>1, <2>1, CwdDropped, ZenonT(60)
  <2> HIDE DEF v
  <2> QED
    BY <2>2
<1> HIDE DEF v
<1>5. ASSUME NEW j \in Inode
      PROVE  kk.ref_count[j] = Cardinality(Entry(f, j)) + Cardinality(Cwd(v, j)) + Plus(r, d)[j]
  <2>1. Cardinality(Entry(f, j)) \in Nat /\ Cardinality(Cwd(v, j)) \in Nat
    BY HoldersFinite
  <2>2. r[j] \in Nat /\ Plus(r, d)[j] = r[j] + IF j = d THEN 1 ELSE 0
    BY <1>1, <1>2, PlusLess
  <2>3. kk.ref_count[j] = Cardinality(Entry(f, j)) + Cardinality(Cwd(w, j)) + r[j]
    BY DEF Balanced
  <2>4. Cardinality(Cwd(w, j)) = Cardinality(Cwd(v, j)) + IF j = d THEN 1 ELSE 0
    BY <1>4
  <2> QED
    BY <2>1, <2>2, <2>3, <2>4
<1>6. Balanced(kk, f, v, Plus(r, d), o)
  BY <1>3, <1>4, <1>5 DEF Balanced
<1> QED
  BY <1>6 DEF v

\* The balance is one of the counts.
LEMMA SameCounts ==
    ASSUME NEW kk, NEW f, NEW w, NEW r, NEW o, Balanced(kk, f, w, r, o),
           NEW k1, Sound(k1), k1.ref_count = kk.ref_count, k1.open_count = kk.open_count
    PROVE  Balanced(k1, f, w, r, o)
BY DEF Balanced

\* The kernel's own tables are written.
LEMMA SetNodeKeeps ==
    ASSUME NEW kk, NEW f, NEW w, NEW r, NEW o, Balanced(kk, f, w, r, o),
           NEW p \in Proc, NEW fd \in Fd, NEW i \in Inode \cup {NULL}
    PROVE  LET k1 == SetNode(kk, p, fd, i) IN
           /\ Balanced(k1, f, w, r, o) /\ k1.pwd = kk.pwd /\ SizeOf(k1) = SizeOf(kk)
           /\ k1.fds = [kk.fds EXCEPT ![p][fd] = i]
<1> DEFINE k1 == SetNode(kk, p, fd, i)
<1>1. Sound(kk) /\ kk.fds \in Tables
  BY Fields DEF Balanced, Sound
<1>2. [kk.fds EXCEPT ![p][fd] = i] \in Tables
  BY <1>1 DEF Tables
<1>3. /\ k1 \in Kernels /\ k1.ref_count = kk.ref_count /\ k1.open_count = kk.open_count
      /\ k1.reclaim_count = kk.reclaim_count /\ k1.cached = kk.cached /\ k1.dirty = kk.dirty
      /\ k1.size = kk.size /\ k1.disk = kk.disk /\ k1.pwd = kk.pwd /\ k1.ok = kk.ok
      /\ k1.fds = [kk.fds EXCEPT ![p][fd] = i]
  BY <1>1, <1>2 DEF Sound, Kernels, SetNode
<1> HIDE DEF k1
<1>4. Sound(k1)
  BY <1>1, <1>3 DEF Sound
<1>5. SizeOf(k1) = SizeOf(kk)
  BY <1>3 DEF SizeOf
<1>6. Balanced(k1, f, w, r, o)
  BY <1>3, <1>4, SameCounts
<1> QED
  BY <1>3, <1>5, <1>6 DEF k1

LEMMA SetPwdKeeps ==
    ASSUME NEW kk, NEW f, NEW w, NEW r, NEW o, Balanced(kk, f, w, r, o),
           NEW p \in Proc, NEW d \in Dirs \cup {NULL}
    PROVE  LET k1 == [kk EXCEPT !.pwd[p] = d] IN
           /\ Balanced(k1, f, w, r, o) /\ k1.fds = kk.fds /\ SizeOf(k1) = SizeOf(kk)
           /\ k1.pwd = [kk.pwd EXCEPT ![p] = d]
           /\ k1.ref_count = kk.ref_count /\ k1.open_count = kk.open_count
<1> DEFINE k1 == [kk EXCEPT !.pwd[p] = d]
<1>1. Sound(kk) /\ kk.pwd \in Pwds
  BY Fields DEF Balanced, Sound
<1>2. [kk.pwd EXCEPT ![p] = d] \in Pwds
  BY <1>1 DEF Pwds
<1>3. /\ k1 \in Kernels /\ k1.ref_count = kk.ref_count /\ k1.open_count = kk.open_count
      /\ k1.reclaim_count = kk.reclaim_count /\ k1.cached = kk.cached /\ k1.dirty = kk.dirty
      /\ k1.size = kk.size /\ k1.disk = kk.disk /\ k1.fds = kk.fds /\ k1.ok = kk.ok
      /\ k1.pwd = [kk.pwd EXCEPT ![p] = d]
  BY <1>1, <1>2 DEF Sound, Kernels
<1> HIDE DEF k1
<1>4. Sound(k1)
  BY <1>1, <1>3 DEF Sound
<1>5. SizeOf(k1) = SizeOf(kk)
  BY <1>3 DEF SizeOf
<1>6. Balanced(k1, f, w, r, o)
  BY <1>3, <1>4, SameCounts
<1> QED
  BY <1>3, <1>5, <1>6 DEF k1

\* r1 is kk with the table of one process, or the working directory, written.
Result(kk, k1, f, v, w, r, o) ==
    /\ Balanced(k1, f, w, r, o) /\ k1.fds = f /\ k1.pwd = v /\ SizeOf(k1) = SizeOf(kk)

\* close of an open descriptor.
LEMMA FdCloseResult ==
    ASSUME NEW kk, NEW w, NEW r, NEW o, Balanced(kk, kk.fds, w, r, o),
           NEW p \in Proc, NEW fd \in Fd, kk.fds[p][fd] # NULL
    PROVE  Result(kk, fd_array_close(kk, p, fd),
                  [kk.fds EXCEPT ![p][fd] = NULL], kk.pwd, w, r, o)
<1> DEFINE i == kk.fds[p][fd]
           g == [kk.fds EXCEPT ![p][fd] = NULL]
           k1 == vfs_close(kk, i)
           k2 == SetNode(k1, p, fd, NULL)
<1>1. i \in Inode
  BY DEF Balanced, Tables
<1>2. fd_array_close(kk, p, fd) = k2
  BY DEF fd_array_close
<1>3. Others(r, o) /\ r \in Counts /\ o \in Counts
  BY DEF Balanced, Others
<1> HIDE DEF i
<1>4. Balanced(kk, g, w, Plus(r, i), Plus(o, i))
  BY <1>1, EntryGives DEF i
<1>5. /\ Plus(o, i)[i] > 0 /\ (i \in Devices => Plus(r, i)[i] > 1)
      /\ Less(Plus(r, i), i) = r /\ Less(Plus(o, i), i) = o
  BY <1>1, <1>3, PlusLess DEF Others
<1> HIDE DEF g
<1>6. Keeps(kk, k1, g, w, r, o)
  <2>1. Keeps(kk, k1, g, w, Less(Plus(r, i), i), Less(Plus(o, i), i))
    <3> HIDE DEF k1
    <3> QED
      BY <1>1, <1>4, <1>5, CloseKeeps DEF k1
  <2> QED
    BY <1>5, <2>1
<1> HIDE DEF k1
<1>7. Balanced(k1, g, w, r, o) /\ k1.fds = kk.fds /\ k1.pwd = kk.pwd /\ SizeOf(k1) = SizeOf(kk)
  BY <1>6 DEF Keeps, Same, SameTables
<1>8. /\ Balanced(k2, g, w, r, o) /\ k2.pwd = kk.pwd /\ SizeOf(k2) = SizeOf(kk)
      /\ k2.fds = [k1.fds EXCEPT ![p][fd] = NULL]
  BY <1>7, SetNodeKeeps
<1> HIDE DEF k2
<1>9. k2.fds = g
  BY <1>7, <1>8 DEF g
<1> QED
  BY <1>2, <1>8, <1>9 DEF Result, g

\* A descriptor that is closed is opened on what somebody else holds.
LEMMA FdDupResult ==
    ASSUME NEW kk, NEW w, NEW r, NEW o, Balanced(kk, kk.fds, w, r, o),
           NEW p \in Proc, NEW fd \in Fd, kk.fds[p][fd] = NULL,
           NEW i \in Inode, kk.ref_count[i] > 0
    PROVE  Result(kk, fd_array_dup(kk, p, fd, i),
                  [kk.fds EXCEPT ![p][fd] = i], kk.pwd, w, r, o)
<1> DEFINE g == [kk.fds EXCEPT ![p][fd] = i]
           k1 == RefInc(kk, i)
           k2 == OpenInc(k1, i)
           k3 == SetNode(k2, p, fd, i)
           f == kk.fds
<1>1. Others(r, o) /\ r \in Counts /\ o \in Counts
  BY DEF Balanced, Others
<1>2. /\ Plus(r, i) \in Counts /\ Plus(o, i)[i] > 0 /\ (i \in Devices => Plus(r, i)[i] > 1)
      /\ o[i] < Plus(r, i)[i]
      /\ Less(Plus(r, i), i) = r /\ Less(Plus(o, i), i) = o
  BY <1>1, PlusLess DEF Others
<1>3. fd_array_dup(kk, p, fd, i) = k3
  BY DEF fd_array_dup
<1>4. Balanced(kk, f, w, r, o) /\ f[p][fd] = NULL
  OBVIOUS
<1> HIDE DEF k3, k2, f, g
<1>5. Keeps(kk, k1, f, w, Plus(r, i), o)
  BY <1>4, RefIncKeeps
<1> HIDE DEF k1
<1>6. Keeps(k1, k2, f, w, Plus(r, i), Plus(o, i))
  BY <1>2, <1>5, OpenIncKeeps DEF Keeps, k2
<1>7. /\ Balanced(k2, f, w, Plus(r, i), Plus(o, i))
      /\ k2.fds = kk.fds /\ k2.pwd = kk.pwd /\ SizeOf(k2) = SizeOf(kk)
  BY <1>5, <1>6 DEF Keeps, Same, SameTables
<1>8. Balanced(k2, [f EXCEPT ![p][fd] = i], w, Less(Plus(r, i), i), Less(Plus(o, i), i))
  BY <1>2, <1>4, <1>7, EntryTakes
<1>9. Balanced(k2, g, w, r, o)
  BY <1>2, <1>8 DEF f, g
<1>10. /\ Balanced(k3, g, w, r, o) /\ k3.pwd = kk.pwd /\ SizeOf(k3) = SizeOf(kk)
       /\ k3.fds = [k2.fds EXCEPT ![p][fd] = i]
  BY <1>7, <1>9, SetNodeKeeps DEF k3
<1>11. k3.fds = g
  BY <1>7, <1>10 DEF g
<1> QED
  BY <1>3, <1>10, <1>11 DEF Result, g

-----------------------------------------------------------------------------

(***************************************************************************)
(* The loops over the descriptors of a table.                              *)
(***************************************************************************)
CloseOne(acc, p, first, fd) ==
    IF fd >= first /\ IsOpen(acc, p, fd) THEN fd_array_close(acc, p, fd) ELSE acc

DupOne(acc, kk, to, from, fd) ==
    IF IsOpen(kk, from, fd) THEN fd_array_dup(acc, to, fd, kk.fds[from][fd]) ELSE acc

DupStart(kk, to, from) == RefInc([kk EXCEPT !.pwd[to] = kk.pwd[from]], kk.pwd[from])

\* Round n of the loop looks at descriptor n - 1.
LEMMA CloseRounds ==
    ASSUME NEW kk, NEW p, NEW first
    PROVE  \E g : /\ g[0] = kk /\ CloseFrom(kk, p, first) = g[NFd]
                  /\ \A n \in 1 .. NFd : g[n] = CloseOne(g[n - 1], p, first, n - 1)
<1> DEFINE Eq(g, m) == g = [n \in 0 .. m |-> IF n = 0 THEN kk ELSE CloseOne(g[n - 1], p, first, n - 1)]
           bad == {m \in Nat : ~\E g : Eq(g, m)}
           after == CHOOSE g : Eq(g, NFd)
<1>1. ASSUME bad # {} PROVE FALSE
  <2> DEFINE m == Min(bad)
  <2>1. m \in bad /\ \A j \in bad : m <= j
    BY <1>1, LeastOfNat
  <2>2. m # 0
    <3>1. Eq([n \in 0 .. 0 |-> kk], 0)
      OBVIOUS
    <3> QED
      BY <2>1, <3>1
  <2> HIDE DEF m
  <2>3. m \in Nat /\ m - 1 \in Nat /\ m - 1 \notin bad
    <3> HIDE DEF Eq
    <3>1. m \in Nat
      BY <2>1
    <3> HIDE DEF bad
    <3> QED
      BY <2>1, <2>2, <3>1
  <2>4. PICK g : Eq(g, m - 1)
    BY <2>3
  <2> DEFINE h == [n \in 0 .. m |-> IF n = 0 THEN kk ELSE CloseOne(g[n - 1], p, first, n - 1)]
  <2>5. \A n \in 0 .. m - 1 : h[n] = g[n]
    BY <2>3, <2>4
  <2>6. \A n \in 0 .. m : n # 0 => n - 1 \in 0 .. m - 1
    BY <2>3
  <2>7. \A n \in 0 .. m : n # 0 => h[n - 1] = g[n - 1]
    <3> HIDE DEF h
    <3> QED
      BY <2>5, <2>6
  <2>8. Eq(h, m)
    BY <2>7
  <2> QED
    BY <2>1, <2>8
<1>2. NFd \in Nat
  BY FilesAssumption
<1>3. Eq(after, NFd)
  BY <1>1, <1>2
<1>4. CloseFrom(kk, p, first) = after[NFd]
  BY DEF CloseFrom, CloseOne
<1> HIDE DEF after, bad
<1>5. after[0] = kk
  <2>1. 0 \in 0 .. NFd
    BY <1>2
  <2> QED
    BY <1>3, <2>1
<1>6. ASSUME NEW n \in 1 .. NFd PROVE after[n] = CloseOne(after[n - 1], p, first, n - 1)
  <2>1. n \in 0 .. NFd /\ n # 0
    BY <1>2
  <2> QED
    BY <1>3, <2>1
<1> QED
  BY <1>4, <1>5, <1>6

\* The same for dup_files.
LEMMA DupRounds ==
    ASSUME NEW kk, NEW to, NEW from
    PROVE  \E g : /\ g[0] = DupStart(kk, to, from) /\ dup_files(kk, to, from) = g[NFd]
                  /\ \A n \in 1 .. NFd : g[n] = DupOne(g[n - 1], kk, to, from, n - 1)
<1> DEFINE Eq(g, m) == g = [n \in 0 .. m |-> IF n = 0 THEN DupStart(kk, to, from) ELSE DupOne(g[n - 1], kk, to, from, n - 1)]
           bad == {m \in Nat : ~\E g : Eq(g, m)}
           after == CHOOSE g : Eq(g, NFd)
<1>1. ASSUME bad # {} PROVE FALSE
  <2> DEFINE m == Min(bad)
  <2>1. m \in bad /\ \A j \in bad : m <= j
    BY <1>1, LeastOfNat
  <2>2. m # 0
    <3>1. Eq([n \in 0 .. 0 |-> DupStart(kk, to, from)], 0)
      OBVIOUS
    <3> QED
      BY <2>1, <3>1
  <2> HIDE DEF m
  <2>3. m \in Nat /\ m - 1 \in Nat /\ m - 1 \notin bad
    <3> HIDE DEF Eq
    <3>1. m \in Nat
      BY <2>1
    <3> HIDE DEF bad
    <3> QED
      BY <2>1, <2>2, <3>1
  <2>4. PICK g : Eq(g, m - 1)
    BY <2>3
  <2> DEFINE h == [n \in 0 .. m |-> IF n = 0 THEN DupStart(kk, to, from) ELSE DupOne(g[n - 1], kk, to, from, n - 1)]
  <2>5. \A n \in 0 .. m - 1 : h[n] = g[n]
    BY <2>3, <2>4
  <2>6. \A n \in 0 .. m : n # 0 => n - 1 \in 0 .. m - 1
    BY <2>3
  <2>7. \A n \in 0 .. m : n # 0 => h[n - 1] = g[n - 1]
    <3> HIDE DEF h
    <3> QED
      BY <2>5, <2>6
  <2>8. Eq(h, m)
    BY <2>7
  <2> QED
    BY <2>1, <2>8
<1>2. NFd \in Nat
  BY FilesAssumption
<1>3. Eq(after, NFd)
  BY <1>1, <1>2
<1>4. dup_files(kk, to, from) = after[NFd]
  BY DEF dup_files, DupOne, DupStart
<1> HIDE DEF after, bad
<1>5. after[0] = DupStart(kk, to, from)
  <2>1. 0 \in 0 .. NFd
    BY <1>2
  <2> QED
    BY <1>3, <2>1
<1>6. ASSUME NEW n \in 1 .. NFd PROVE after[n] = DupOne(after[n - 1], kk, to, from, n - 1)
  <2>1. n \in 0 .. NFd /\ n # 0
    BY <1>2
  <2> QED
    BY <1>3, <2>1
<1> QED
  BY <1>4, <1>5, <1>6

\* What is in a table is held.
LEMMA EntryHeld ==
    ASSUME NEW kk, NEW f, NEW w, NEW r, NEW o, Balanced(kk, f, w, r, o),
           NEW p \in Proc, NEW fd \in Fd, NEW i \in Inode, f[p][fd] = i
    PROVE  kk.open_count[i] > 0 /\ kk.ref_count[i] > 0
<1> DEFINE g == [f EXCEPT ![p][fd] = NULL]
<1>1. Balanced(kk, g, w, Plus(r, i), Plus(o, i))
  BY EntryGives
<1> HIDE DEF g
<1>2. kk.open_count[i] >= Plus(o, i)[i] /\ kk.ref_count[i] >= Plus(r, i)[i]
  BY <1>1, CountBounds
<1>3. r \in Counts /\ o \in Counts /\ kk.ref_count[i] \in Nat /\ kk.open_count[i] \in Nat
  BY CountBounds DEF Balanced, Others
<1>4. Plus(o, i)[i] = o[i] + 1 /\ Plus(r, i)[i] = r[i] + 1 /\ o[i] \in Nat /\ r[i] \in Nat
  BY <1>3, PlusLess
<1> QED
  BY <1>2, <1>3, <1>4

LEMMA CwdHeld ==
    ASSUME NEW kk, NEW f, NEW w, NEW r, NEW o, Balanced(kk, f, w, r, o),
           NEW p \in Proc, NEW d \in Dirs, w[p] = d
    PROVE  kk.ref_count[d] > 0
<1> DEFINE v == [w EXCEPT ![p] = NULL]
<1>1. Balanced(kk, f, v, Plus(r, d), o) /\ d \in Inode
  BY CwdGives DEF Inode, Sfs
<1> HIDE DEF v
<1>2. kk.ref_count[d] >= Plus(r, d)[d]
  BY <1>1, CountBounds
<1>3. r \in Counts /\ kk.ref_count[d] \in Nat
  BY <1>1, CountBounds DEF Balanced, Others
<1>4. Plus(r, d)[d] = r[d] + 1 /\ r[d] \in Nat
  BY <1>1, <1>3, PlusLess
<1> QED
  BY <1>2, <1>3, <1>4

\* A table of which the descriptors `first' and up are closed.
Closed(t, first) == [fd \in Fd |-> IF fd >= first THEN NULL ELSE t[fd]]

LEMMA CloseFromResult ==
    ASSUME NEW kk, NEW w, NEW r, NEW o, Balanced(kk, kk.fds, w, r, o),
           NEW p \in Proc, NEW first \in Nat
    PROVE  Result(kk, CloseFrom(kk, p, first),
                  [kk.fds EXCEPT ![p] = Closed(kk.fds[p], first)], kk.pwd, w, r, o)
<1> DEFINE UpTo(n) == [fd \in Fd |-> IF fd >= first /\ fd < n THEN NULL ELSE kk.fds[p][fd]]
           F(n) == [kk.fds EXCEPT ![p] = UpTo(n)]
           Good(a, n) == Result(kk, a, F(n), kk.pwd, w, r, o)
<1>1. NFd \in Nat /\ Fd = 0 .. NFd - 1
  BY FilesAssumption DEF Fd
<1>2. kk.fds \in Tables
  BY DEF Balanced
<1>3. PICK g : /\ g[0] = kk /\ CloseFrom(kk, p, first) = g[NFd]
               /\ \A n \in 1 .. NFd : g[n] = CloseOne(g[n - 1], p, first, n - 1)
  BY CloseRounds
<1>4. Good(kk, 0)
  <2>1. UpTo(0) = kk.fds[p]
    BY <1>1, <1>2 DEF Tables
  <2> HIDE DEF UpTo
  <2>2. F(0) = kk.fds
    BY <1>2, <2>1 DEF Tables
  <2> QED
    BY <2>2 DEF Result
<1>5. ASSUME NEW n \in 1 .. NFd, NEW a, Good(a, n - 1)
      PROVE  Good(CloseOne(a, p, first, n - 1), n)
  <2> DEFINE fd == n - 1
             b == CloseOne(a, p, first, fd)
  <2>1. fd \in Fd /\ fd \in Nat /\ n = fd + 1
    BY <1>1
  <2>2. /\ Balanced(a, a.fds, w, r, o) /\ a.fds = F(fd)
        /\ a.pwd = kk.pwd /\ SizeOf(a) = SizeOf(kk)
    BY <1>5 DEF Result
  <2>3. a.fds[p] = UpTo(fd)
    BY <1>2, <2>2 DEF Tables
  <2> HIDE DEF fd
  <2>4. CASE fd >= first /\ IsOpen(a, p, fd)
    <3>1. b = fd_array_close(a, p, fd)
      BY <2>4 DEF CloseOne
    <3>2. Result(a, b, [a.fds EXCEPT ![p][fd] = NULL], a.pwd, w, r, o)
      <4> HIDE DEF F, b
      <4> QED
        BY <2>1, <2>2, <2>4, <3>1, FdCloseResult DEF IsOpen
    <3>3. [UpTo(fd) EXCEPT ![fd] = NULL] = UpTo(n)
      <4>1. \A x \in Fd : x < n <=> x < fd \/ x = fd
        BY <1>1, <2>1
      <4> QED
        BY <2>1, <2>4, <4>1
    <3> HIDE DEF UpTo
    <3>4. [a.fds EXCEPT ![p][fd] = NULL] = F(n)
      BY <1>2, <2>2, <2>3, <3>3 DEF Tables
    <3> HIDE DEF F, b
    <3> QED
      BY <2>2, <3>2, <3>4 DEF Result, b, fd
  <2>5. CASE ~(fd >= first /\ IsOpen(a, p, fd))
    <3>1. b = a
      BY <2>5 DEF CloseOne
    <3>2. UpTo(fd) = UpTo(n)
      <4>1. fd >= first => UpTo(fd)[fd] = NULL
        BY <2>3, <2>5 DEF IsOpen
      <4>2. fd >= first => kk.fds[p][fd] = NULL
        BY <2>1, <4>1
      <4> QED
        BY <1>1, <2>1, <4>2
    <3> HIDE DEF UpTo
    <3>3. F(n) = F(fd)
      BY <3>2
    <3> HIDE DEF F, b
    <3> QED
      BY <2>2, <3>1, <3>3 DEF Result, b, fd
  <2> QED
    BY <2>4, <2>5
<1>6. UpTo(NFd) = Closed(kk.fds[p], first)
  BY <1>1 DEF Closed
<1> HIDE DEF Good, UpTo
<1>7. Good(g[NFd], NFd)
  <2> DEFINE bad == {n \in 0 .. NFd : ~Good(g[n], n)}
  <2>1. ASSUME bad # {} PROVE FALSE
    <3>1. PICK n \in bad : \A m \in bad : n <= m
      <4>1. bad \subseteq Nat
        BY <1>1
      <4> HIDE DEF bad
      <4> QED
        BY <2>1, <4>1, LeastOfNat
    <3>2. n \in 0 .. NFd /\ ~Good(g[n], n)
      BY <3>1
    <3>3. n # 0
      BY <1>3, <1>4, <3>2
    <3>4. n \in 1 .. NFd /\ n - 1 \in 0 .. NFd /\ n - 1 \notin bad
      BY <1>1, <3>1, <3>2, <3>3
    <3>5. Good(g[n - 1], n - 1)
      BY <3>4
    <3> QED
      BY <1>3, <1>5, <3>2, <3>4, <3>5
  <2> QED
    BY <1>1, <2>1
<1> QED
  BY <1>3, <1>6, <1>7 DEF Good

\* A fork shares the working directory and everything that is open.
LEMMA DupResult ==
    ASSUME NEW kk, NEW r, NEW o, Balanced(kk, kk.fds, kk.pwd, r, o),
           NEW to \in Proc, NEW from \in Proc, kk.pwd[from] \in Dirs,
           kk.pwd[to] = NULL, kk.fds[to] = NoFiles
    PROVE  LET v == [kk.pwd EXCEPT ![to] = kk.pwd[from]] IN
           Result(kk, dup_files(kk, to, from), [kk.fds EXCEPT ![to] = kk.fds[from]], v, v, r, o)
<1> DEFINE d == kk.pwd[from]
           v == [kk.pwd EXCEPT ![to] = d]
           UpTo(n) == [fd \in Fd |-> IF fd < n THEN kk.fds[from][fd] ELSE NULL]
           F(n) == [kk.fds EXCEPT ![to] = UpTo(n)]
           Good(a, n) == Result(kk, a, F(n), v, v, r, o)
           k1 == [kk EXCEPT !.pwd[to] = d]
           k2 == RefInc(k1, d)
<1>1. NFd \in Nat /\ Fd = 0 .. NFd - 1
  BY FilesAssumption DEF Fd
<1>2. kk.fds \in Tables /\ kk.pwd \in Pwds /\ Others(r, o) /\ r \in Counts /\ o \in Counts
  BY DEF Balanced, Others
<1>3. PICK g : /\ g[0] = DupStart(kk, to, from) /\ dup_files(kk, to, from) = g[NFd]
               /\ \A n \in 1 .. NFd : g[n] = DupOne(g[n - 1], kk, to, from, n - 1)
  BY DupRounds
<1>4. to # from /\ d \in Inode
  BY FilesAssumption DEF Inode, Sfs
<1>5. DupStart(kk, to, from) = k2
  BY DEF DupStart
<1>6. Good(k2, 0)
  <2>1. d \in Dirs
    OBVIOUS
  <2>2. kk.ref_count[d] > 0
    BY <1>2, CwdHeld
  <2> HIDE DEF d
  <2>3. /\ Balanced(k1, kk.fds, kk.pwd, r, o) /\ k1.fds = kk.fds /\ SizeOf(k1) = SizeOf(kk)
        /\ k1.pwd = v /\ k1.ref_count = kk.ref_count
    BY <2>1, SetPwdKeeps
  <2> HIDE DEF k1
  <2>4. Keeps(k1, k2, kk.fds, kk.pwd, Plus(r, d), o)
    BY <1>4, <2>2, <2>3, RefIncKeeps
  <2>5. Plus(r, d)[d] > o[d] /\ Less(Plus(r, d), d) = r
    BY <1>2, <1>4, PlusLess DEF Others
  <2> HIDE DEF k2
  <2>6. /\ Balanced(k2, kk.fds, kk.pwd, Plus(r, d), o)
        /\ k2.fds = kk.fds /\ k2.pwd = v /\ SizeOf(k2) = SizeOf(kk)
    BY <2>3, <2>4 DEF Keeps, Same, SameTables
  <2>7. Balanced(k2, kk.fds, v, Less(Plus(r, d), d), o)
    BY <2>1, <2>5, <2>6, CwdTakes
  <2>8. UpTo(0) = kk.fds[to]
    BY <1>1 DEF NoFiles
  <2> HIDE DEF UpTo
  <2>9. F(0) = kk.fds
    BY <1>2, <2>8 DEF Tables
  <2> QED
    BY <2>5, <2>6, <2>7, <2>9 DEF Result
<1> HIDE DEF k1, k2
<1>7. ASSUME NEW n \in 1 .. NFd, NEW a, Good(a, n - 1)
      PROVE  Good(DupOne(a, kk, to, from, n - 1), n)
  <2> DEFINE fd == n - 1
             b == DupOne(a, kk, to, from, fd)
             i == kk.fds[from][fd]
  <2>1. fd \in Fd /\ fd \in Nat /\ n = fd + 1
    BY <1>1
  <2> HIDE DEF v
  <2>2. /\ Balanced(a, a.fds, v, r, o) /\ a.fds = F(fd)
        /\ a.pwd = v /\ SizeOf(a) = SizeOf(kk)
    BY <1>7 DEF Result
  <2>3. a.fds[to] = UpTo(fd) /\ a.fds[from] = kk.fds[from]
    BY <1>2, <1>4, <2>2 DEF Tables
  <2> HIDE DEF fd
  <2>4. CASE IsOpen(kk, from, fd)
    <3>1. b = fd_array_dup(a, to, fd, i)
      BY <2>4 DEF DupOne
    <3>2. i \in Inode /\ a.fds[from][fd] = i /\ a.fds[to][fd] = NULL
      BY <1>2, <2>1, <2>3, <2>4 DEF IsOpen, Tables
    <3>3. a.ref_count[i] > 0
      BY <2>1, <2>2, <3>2, EntryHeld, ZenonT(60)
    <3> HIDE DEF i
    <3>4. Result(a, b, [a.fds EXCEPT ![to][fd] = i], a.pwd, v, r, o)
      <4> HIDE DEF F, b
      <4> QED
        BY <2>1, <2>2, <3>1, <3>2, <3>3, FdDupResult
    <3>5. [UpTo(fd) EXCEPT ![fd] = i] = UpTo(n)
      <4>1. \A x \in Fd : x < n <=> x < fd \/ x = fd
        BY <1>1, <2>1
      <4> QED
        BY <2>1, <4>1 DEF i
    <3> HIDE DEF UpTo
    <3>6. [a.fds EXCEPT ![to][fd] = i] = F(n)
      BY <1>2, <2>2, <2>3, <3>5 DEF Tables
    <3> HIDE DEF F, b
    <3> QED
      BY <2>2, <3>4, <3>6 DEF Result, b, fd
  <2>5. CASE ~IsOpen(kk, from, fd)
    <3>1. b = a
      BY <2>5 DEF DupOne
    <3>2. UpTo(fd) = UpTo(n)
      BY <1>1, <2>1, <2>5 DEF IsOpen
    <3> HIDE DEF UpTo
    <3>3. F(n) = F(fd)
      BY <3>2
    <3> HIDE DEF F, b
    <3> QED
      BY <2>2, <3>1, <3>3 DEF Result, b, fd
  <2> QED
    BY <2>4, <2>5
<1>8. UpTo(NFd) = kk.fds[from]
  BY <1>1, <1>2 DEF Tables
<1> HIDE DEF Good, UpTo
<1>9. Good(g[NFd], NFd)
  <2> DEFINE bad == {n \in 0 .. NFd : ~Good(g[n], n)}
  <2>1. ASSUME bad # {} PROVE FALSE
    <3>1. PICK n \in bad : \A m \in bad : n <= m
      <4>1. bad \subseteq Nat
        BY <1>1
      <4> HIDE DEF bad
      <4> QED
        BY <2>1, <4>1, LeastOfNat
    <3>2. n \in 0 .. NFd /\ ~Good(g[n], n)
      BY <3>1
    <3>3. n # 0
      BY <1>3, <1>5, <1>6, <3>2
    <3>4. n \in 1 .. NFd /\ n - 1 \in 0 .. NFd /\ n - 1 \notin bad
      BY <1>1, <3>1, <3>2, <3>3
    <3>5. Good(g[n - 1], n - 1)
      BY <3>4
    <3> QED
      BY <1>3, <1>7, <3>2, <3>4, <3>5
  <2> QED
    BY <1>1, <2>1
<1> QED
  BY <1>3, <1>8, <1>9 DEF Good

-----------------------------------------------------------------------------

(***************************************************************************)
(* The calls of fs.c, vfspath.c and file.c.                                *)
(***************************************************************************)

\* A process that ends gives back its directory and all that it has open.
LEMMA DestroyResult ==
    ASSUME NEW kk, NEW r, NEW o, Balanced(kk, kk.fds, kk.pwd, r, o),
           NEW p \in Proc, kk.pwd[p] # NULL
    PROVE  LET v == [kk.pwd EXCEPT ![p] = NULL] IN
           Result(kk, files_destroy(kk, p), [kk.fds EXCEPT ![p] = NoFiles], v, v, r, o)
<1> DEFINE d == kk.pwd[p]
           v == [kk.pwd EXCEPT ![p] = NULL]
           f == kk.fds
           g == [kk.fds EXCEPT ![p] = NoFiles]
           k0 == RefDec(kk, d)
           k1 == CloseFrom(k0, p, 0)
           k2 == [k1 EXCEPT !.pwd[p] = NULL]
<1>1. kk.fds \in Tables /\ kk.pwd \in Pwds /\ Others(r, o) /\ r \in Counts /\ o \in Counts
  BY DEF Balanced, Others
<1>2. d \in Dirs /\ d \in Inode
  BY <1>1 DEF Pwds, Inode, Sfs
<1>3. Balanced(kk, f, v, Plus(r, d), o)
  <2>1. kk.pwd[p] = d
    OBVIOUS
  <2> HIDE DEF d
  <2> QED
    BY <1>2, <2>1, CwdGives
<1>4. /\ Plus(r, d)[d] > o[d] /\ Less(Plus(r, d), d) = r /\ (d \in Devices => Plus(r, d)[d] > 1)
  <2> HIDE DEF d
  <2> QED
    BY <1>1, <1>2, PlusLess DEF Others
<1> HIDE DEF d, v
<1>5. Keeps(kk, k0, f, v, Less(Plus(r, d), d), o)
  BY <1>2, <1>3, <1>4, RefDecKeeps
<1> HIDE DEF k0
<1>6. Balanced(k0, k0.fds, v, r, o) /\ k0.fds = f /\ k0.pwd = kk.pwd /\ SizeOf(k0) = SizeOf(kk)
  BY <1>4, <1>5 DEF Keeps, Same, SameTables
<1>7. Result(k0, k1, [k0.fds EXCEPT ![p] = Closed(k0.fds[p], 0)], k0.pwd, v, r, o)
  <2> HIDE DEF k1
  <2> QED
    BY <1>6, CloseFromResult DEF k1
<1>8. Closed(k0.fds[p], 0) = NoFiles
  <2>1. \A fd \in Fd : fd >= 0
    BY FilesAssumption DEF Fd
  <2> QED
    BY <2>1 DEF Closed, NoFiles
<1> HIDE DEF k1
<1>9. Balanced(k1, g, v, r, o) /\ k1.fds = g /\ k1.pwd = kk.pwd /\ SizeOf(k1) = SizeOf(kk)
  BY <1>6, <1>7, <1>8 DEF Result
<1>10. k1.fds[p] = NoFiles
  BY <1>1, <1>9 DEF Tables
<1>11. /\ Balanced(k2, g, v, r, o) /\ k2.fds = k1.fds /\ SizeOf(k2) = SizeOf(k1)
       /\ k2.pwd = [k1.pwd EXCEPT ![p] = NULL]
  <2> HIDE DEF g, k2
  <2> QED
    BY <1>9, SetPwdKeeps DEF k2
<1>12. files_destroy(kk, p) = Check(k2, k1.fds[p] = NoFiles)
  BY DEF files_destroy, k1, k0, d
<1> HIDE DEF k2
<1>13. Check(k2, k1.fds[p] = NoFiles) = k2
  BY <1>10, <1>11, CheckHolds DEF Balanced, Sound
<1> HIDE DEF g
<1>14. Result(kk, k2, g, v, v, r, o)
  BY <1>9, <1>11 DEF Result, v
<1> QED
  BY <1>12, <1>13, <1>14 DEF g, v

LEMMA PlusOrder ==
    ASSUME NEW c \in Counts, NEW i \in Inode, NEW j \in Inode, i # j
    PROVE  Less(Plus(Plus(c, i), j), i) = Plus(c, j)
<1>1. c[i] \in Nat /\ c[i] + 1 + (-1) = c[i]
  BY PlusLess
<1> QED
  BY <1>1 DEF Plus, Less, Counts

\* chdir, for a caller that holds the directory: the old one is given back.
LEMMA CurdirResult ==
    ASSUME NEW kk, NEW r, NEW o, Balanced(kk, kk.fds, kk.pwd, r, o),
           NEW p \in Proc, kk.pwd[p] # NULL, NEW dir \in Dirs, kk.ref_count[dir] > 0
    PROVE  LET v == [kk.pwd EXCEPT ![p] = dir] IN
           Result(kk, vfs_set_curdir(kk, p, dir), kk.fds, v, v, r, o)
<1> DEFINE old == kk.pwd[p]
           f == kk.fds
           v0 == [kk.pwd EXCEPT ![p] = NULL]
           v == [kk.pwd EXCEPT ![p] = dir]
           k0 == RefInc(kk, dir)
           k1 == [k0 EXCEPT !.pwd[p] = dir]
           k2 == RefDec(k1, old)
           r0 == Plus(r, dir)
<1>1. kk.pwd \in Pwds /\ Others(r, o) /\ r \in Counts /\ o \in Counts
  BY DEF Balanced, Others
<1>2. old \in Dirs /\ old \in Inode /\ dir \in Inode /\ old \notin Devices /\ dir \notin Devices
  BY <1>1, FilesAssumption DEF Pwds, Inode, Sfs
<1>3. CASE old = dir
  <2>1. vfs_set_curdir(kk, p, dir) = kk
    BY <1>3 DEF vfs_set_curdir
  <2>2. v = kk.pwd
    BY <1>1, <1>3 DEF Pwds
  <2> HIDE DEF v
  <2> QED
    BY <2>1, <2>2 DEF Result, v
<1>4. CASE old # dir
  <2>1. vfs_set_curdir(kk, p, dir) = k2
    BY <1>4 DEF vfs_set_curdir
  <2>2. Keeps(kk, k0, f, kk.pwd, r0, o)
    BY <1>2, RefIncKeeps
  <2> HIDE DEF k0
  <2>3. /\ Balanced(k0, f, kk.pwd, r0, o)
        /\ k0.fds = f /\ k0.pwd = kk.pwd /\ SizeOf(k0) = SizeOf(kk)
    BY <2>2 DEF Keeps, Same, SameTables
  <2>4. /\ Balanced(k1, f, kk.pwd, r0, o) /\ k1.fds = f /\ SizeOf(k1) = SizeOf(kk)
        /\ k1.pwd = v
    <3> HIDE DEF k1, r0, f
    <3> QED
      BY <2>3, SetPwdKeeps DEF k1
  <2> HIDE DEF k1
  <2>5. r0 \in Counts /\ Plus(r0, old) \in Counts /\ Plus(r0, old)[dir] = r[dir] + 1
        /\ r[dir] \in Nat /\ o[dir] \in Nat /\ o[dir] <= r[dir]
    <3>1. r0 \in Counts /\ r0[dir] = r[dir] + 1 /\ r[dir] \in Nat /\ o[dir] \in Nat
      BY <1>1, <1>2, PlusLess
    <3> HIDE DEF r0
    <3>2. Plus(r0, old) \in Counts /\ Plus(r0, old)[dir] = r0[dir]
      <4>1. Plus(r0, old)[dir] = r0[dir] + IF dir = old THEN 1 ELSE 0
        BY <1>2, <3>1, PlusLess
      <4> HIDE DEF old
      <4> QED
        BY <1>2, <1>4, <3>1, <4>1, PlusLess
    <3> QED
      BY <1>1, <1>2, <3>1, <3>2 DEF Others
  <2>6. Less(Plus(r0, old), dir) = Plus(r, old)
    BY <1>1, <1>2, <1>4, PlusOrder
  <2> HIDE DEF r0
  <2>7. Balanced(k1, f, v0, Plus(r0, old), o)
    <3>1. kk.pwd[p] = old
      OBVIOUS
    <3> HIDE DEF old, f
    <3> QED
      BY <1>2, <2>4, <3>1, CwdGives
  <2>8. v0[p] = NULL /\ [v0 EXCEPT ![p] = dir] = v
    BY <1>1 DEF Pwds
  <2> HIDE DEF v0, v, f, old
  <2>9. Balanced(k1, f, v, Plus(r, old), o)
    <3>1. o[dir] < Plus(r0, old)[dir]
      BY <2>5
    <3>2. Balanced(k1, f, [v0 EXCEPT ![p] = dir], Less(Plus(r0, old), dir), o)
      BY <2>7, <2>8, <3>1, CwdTakes
    <3> QED
      BY <2>6, <2>8, <3>2
  <2>10. o[old] < Plus(r, old)[old] /\ Less(Plus(r, old), old) = r
    <3>1. old \in Inode /\ r \in Counts /\ o \in Counts /\ Others(r, o)
      BY <1>1, <1>2
    <3>2. /\ Plus(r, old)[old] = r[old] + 1 /\ r[old] \in Nat /\ o[old] \in Nat
          /\ Less(Plus(r, old), old) = r
      BY <3>1, PlusLess
    <3>3. o[old] <= r[old]
      BY <3>1 DEF Others
    <3> QED
      BY <3>2, <3>3
  <2>11. Keeps(k1, k2, f, v, r, o)
    <3>1. Keeps(k1, k2, f, v, Less(Plus(r, old), old), o)
      BY <1>2, <2>9, <2>10, RefDecKeeps
    <3> QED
      BY <2>10, <3>1
  <2> HIDE DEF k2
  <2>12. Result(kk, k2, f, v, v, r, o)
    BY <2>4, <2>11 DEF Result, Keeps, Same, SameTables
  <2> QED
    BY <2>1, <2>12 DEF f, v
<1> QED
  BY <1>3, <1>4

\* The lowest descriptor that is closed.
LowestFree(kk, p) == CHOOSE m \in FreeFds(kk, p) : \A n \in FreeFds(kk, p) : m <= n

LEMMA LowestIsFree ==
    ASSUME NEW kk, NEW p, FreeFds(kk, p) # {}
    PROVE  LowestFree(kk, p) \in Fd /\ kk.fds[p][LowestFree(kk, p)] = NULL
<1>1. FreeFds(kk, p) \subseteq Nat
  BY FilesAssumption DEF FreeFds, Fd
<1>2. LowestFree(kk, p) = Min(FreeFds(kk, p))
  BY DEF LowestFree, Min
<1>3. LowestFree(kk, p) \in FreeFds(kk, p)
  BY <1>1, <1>2, LeastOfNat
<1> QED
  BY <1>3 DEF FreeFds, IsOpen

\* k1 is kk after an open, which may change a size.
OpenResult(kk, k1, f, size, r, o) ==
    Balanced(k1, f, kk.pwd, r, o) /\ k1.fds = f /\ k1.pwd = kk.pwd /\ SizeOf(k1) = size

\* open: the reference of the lookup and the open stay with the descriptor.
LEMMA OpenedResult ==
    ASSUME NEW kk, NEW r, NEW o, Balanced(kk, kk.fds, kk.pwd, r, o),
           NEW p \in Proc, FreeFds(kk, p) # {},
           NEW i \in Inode, NEW trunc \in BOOLEAN, trunc => i \in Regular
    PROVE  OpenResult(kk, Opened(kk, p, i, trunc), [kk.fds EXCEPT ![p][LowestFree(kk, p)] = i],
                      IF trunc THEN [SizeOf(kk) EXCEPT ![i] = 0] ELSE SizeOf(kk), r, o)
<1> DEFINE fd == LowestFree(kk, p)
           f == kk.fds
           w == kk.pwd
           g == [f EXCEPT ![p][fd] = i]
           ka == vfs_lookup(kk, i)
           kb == OpenInc(ka, i)
           kc == IF trunc THEN sfs_truncfile(inode_check(kb, i), i, 0) ELSE kb
           kd == SetNode(kc, p, fd, i)
           size == IF trunc THEN [SizeOf(kk) EXCEPT ![i] = 0] ELSE SizeOf(kk)
<1>1. Others(r, o) /\ r \in Counts /\ o \in Counts
  BY DEF Balanced, Others
<1>2. /\ Plus(r, i) \in Counts /\ Plus(o, i)[i] > 0 /\ (i \in Devices => Plus(r, i)[i] > 1)
      /\ o[i] < Plus(r, i)[i]
      /\ Less(Plus(r, i), i) = r /\ Less(Plus(o, i), i) = o
  BY <1>1, PlusLess DEF Others
<1>3. Opened(kk, p, i, trunc) = kd
  BY DEF Opened, LowestFree
<1>4. fd \in Fd /\ f[p][fd] = NULL
  BY LowestIsFree
<1> HIDE DEF fd, kd, kc
<1>5. Keeps(kk, ka, f, w, Plus(r, i), o)
  BY LookupKeeps
<1> HIDE DEF ka
<1>6. Keeps(ka, kb, f, w, Plus(r, i), Plus(o, i))
  BY <1>2, <1>5, OpenIncKeeps DEF Keeps
<1> HIDE DEF kb
<1>7. /\ Balanced(kb, f, w, Plus(r, i), Plus(o, i))
      /\ kb.fds = kk.fds /\ kb.pwd = kk.pwd /\ SizeOf(kb) = SizeOf(kk)
  BY <1>5, <1>6 DEF Keeps, Same, SameTables
<1>8. /\ Balanced(kc, f, w, Plus(r, i), Plus(o, i))
      /\ kc.fds = kk.fds /\ kc.pwd = kk.pwd /\ SizeOf(kc) = size
  <2>1. CASE ~trunc
    BY <1>7, <2>1 DEF kc
  <2>2. CASE trunc
    <3>1. Sound(kb) /\ i \in Regular
      BY <1>7, <2>2 DEF Balanced
    <3>2. kb.open_count[i] > 0 /\ kb.ref_count[i] > 0
      <4> HIDE DEF f, w
      <4>1. /\ kb.open_count[i] >= Plus(o, i)[i] /\ kb.ref_count[i] >= Plus(r, i)[i]
            /\ Plus(r, i)[i] \in Nat /\ Plus(o, i)[i] \in Nat
            /\ kb.open_count[i] \in Nat /\ kb.ref_count[i] \in Nat
        BY <1>7, CountBounds
      <4>2. o[i] \in Nat
        BY <1>1, PlusLess
      <4> QED
        BY <1>2, <4>1, <4>2
    <3>3. inode_check(kb, i) = kb
      BY <3>1, <3>2, InodeCheckHolds
    <3>4. kc = sfs_truncfile(kb, i, 0)
      BY <2>2, <3>3 DEF kc
    <3>5. /\ Sound(kc) /\ SameTables(kb, kc)
          /\ kc.ref_count = kb.ref_count /\ kc.open_count = kb.open_count
          /\ SizeOf(kc) = [SizeOf(kb) EXCEPT ![i] = 0]
      BY <3>1, <3>2, <3>4, TruncSets
    <3>6. Balanced(kc, f, w, Plus(r, i), Plus(o, i))
      <4> HIDE DEF f, w
      <4> QED
        BY <1>7, <3>5, SameCounts
    <3> QED
      BY <1>7, <2>2, <3>5, <3>6 DEF SameTables
  <2> QED
    BY <2>1, <2>2
<1>9. Balanced(kc, g, w, r, o)
  <2> HIDE DEF f, w
  <2>1. Balanced(kc, [f EXCEPT ![p][fd] = i], w, Less(Plus(r, i), i), Less(Plus(o, i), i))
    BY <1>2, <1>4, <1>8, EntryTakes
  <2> QED
    BY <1>2, <2>1
<1> HIDE DEF g, w, size
<1>10. /\ Balanced(kd, g, w, r, o) /\ kd.pwd = kc.pwd /\ SizeOf(kd) = SizeOf(kc)
       /\ kd.fds = [kc.fds EXCEPT ![p][fd] = i]
  BY <1>4, <1>9, SetNodeKeeps DEF kd
<1>11. kd.fds = g
  BY <1>8, <1>10 DEF g
<1>12. OpenResult(kk, kd, g, size, r, o)
  BY <1>8, <1>10, <1>11 DEF OpenResult, w
<1> QED
  BY <1>3, <1>12 DEF g, size, fd

-----------------------------------------------------------------------------

(***************************************************************************)
(* The inductive invariant: the balance of the kernel's own tables, with   *)
(* what the kernel holds and what was lost; the dead have nothing.         *)
(***************************************************************************)
Held == [i \in Inode |-> Kernel(i) + lost.ref_count[i]]

LostTypes == lost \in [ref_count : Counts, open_count : Counts, leaks : Nat]

DeadHaveNothing == \A p \in Proc : k.pwd[p] = NULL => k.fds[p] = NoFiles

IInv ==
    /\ LostTypes /\ DeadHaveNothing
    /\ Balanced(k, k.fds, k.pwd, Held, lost.open_count)

AbstractStep == [Abstract!Next]_(Abstract!vars)

LEMMA InvariantFacts ==
    ASSUME IInv
    PROVE  /\ Sound(k) /\ k.fds \in Tables /\ k.pwd \in Pwds
           /\ Others(Held, lost.open_count) /\ Held \in Counts /\ lost.open_count \in Counts
           /\ \A p \in Alive : /\ p \in Proc /\ k.pwd[p] \in Dirs /\ k.pwd[p] \in Inode
                              /\ k.pwd[p] # NULL /\ k.fds[p] \in [Fd -> Inode \cup {NULL}]
<1>1. /\ Sound(k) /\ k.fds \in Tables /\ k.pwd \in Pwds
      /\ Others(Held, lost.open_count) /\ Held \in Counts /\ lost.open_count \in Counts
  BY DEF IInv, Balanced, Others
<1>2. ASSUME NEW p \in Alive
      PROVE  /\ p \in Proc /\ k.pwd[p] \in Dirs /\ k.pwd[p] \in Inode
             /\ k.pwd[p] # NULL /\ k.fds[p] \in [Fd -> Inode \cup {NULL}]
  BY <1>1 DEF Alive, Tables, Pwds, Inode, Sfs
<1> QED
  BY <1>1, <1>2

\* What is to be shown of a step that loses nothing.
LEMMA BalancedStep ==
    ASSUME IInv, UNCHANGED lost, Balanced(k', k'.fds, k'.pwd, Held, lost.open_count),
           \A p \in Proc : k'.pwd[p] = NULL => k'.fds[p] = NoFiles
    PROVE  IInv'
<1>1. Held' = Held
  BY DEF Held, Kernel
<1> QED
  BY <1>1 DEF IInv, LostTypes, DeadHaveNothing

\* A step that shows in no table and no size.
LEMMA SilentStep ==
    ASSUME IInv, Same(k, k')
    PROVE  AbstractStep
BY DEF AbstractStep, Abstract!vars, Same, SameTables, SizeOf

LEMMA AliveTablesKept ==
    ASSUME IInv, k'.fds = k.fds, k'.pwd = k.pwd
    PROVE  \A p \in Proc : k'.pwd[p] = NULL => k'.fds[p] = NoFiles
BY DEF IInv, DeadHaveNothing

\* fsync writes what is held.
LEMMA FsyncStep ==
    ASSUME IInv, NEW p \in Alive, NEW fd \in Fd, Fsync(p, fd)
    PROVE  IInv' /\ AbstractStep
<1> DEFINE i == k.fds[p][fd]
<1>1. i \in Inode /\ k' = sfs_fsync(inode_check(k, i), i) /\ UNCHANGED lost /\ p \in Proc
  BY InvariantFacts DEF Fsync, Inode
<1>2. k.fds[p][fd] = i
  OBVIOUS
<1>3. Balanced(k, k.fds, k.pwd, Held, lost.open_count)
  BY DEF IInv
<1> HIDE DEF i
<1>4. k.ref_count[i] > 0 /\ Sound(k)
  BY <1>1, <1>2, <1>3, EntryHeld DEF Balanced
<1>5. k' = sfs_fsync(k, i)
  BY <1>1, <1>4, InodeCheckHolds
<1>6. Sound(k') /\ Same(k, k') /\ k'.ref_count = k.ref_count /\ k'.open_count = k.open_count
  BY <1>1, <1>4, <1>5, FsyncKeeps
<1>7. Balanced(k', k'.fds, k'.pwd, Held, lost.open_count)
  BY <1>3, <1>6, SameCounts DEF Same, SameTables
<1> QED
  BY <1>1, <1>6, <1>7, BalancedStep, SilentStep, AliveTablesKept DEF Same, SameTables

\* A seek beyond the end of an open file makes it longer for everybody.
LEMMA SeekStep ==
    ASSUME IInv, NEW p \in Alive, NEW fd \in Fd, SeekPastEnd(p, fd)
    PROVE  IInv' /\ AbstractStep
<1> DEFINE i == k.fds[p][fd]
<1>1. /\ i \in Regular /\ i \in Inode /\ p \in Proc
      /\ k' = sfs_truncfile(inode_check(k, i), i, 1) /\ UNCHANGED lost
  BY InvariantFacts DEF SeekPastEnd, Inode, Sfs
<1>2. k.fds[p][fd] = i
  OBVIOUS
<1>3. Balanced(k, k.fds, k.pwd, Held, lost.open_count)
  BY DEF IInv
<1> HIDE DEF i
<1>4. k.open_count[i] > 0 /\ k.ref_count[i] > 0 /\ Sound(k)
  BY <1>1, <1>2, <1>3, EntryHeld DEF Balanced
<1>5. k' = sfs_truncfile(k, i, 1)
  BY <1>1, <1>4, InodeCheckHolds
<1>6. /\ Sound(k') /\ SameTables(k, k')
      /\ k'.ref_count = k.ref_count /\ k'.open_count = k.open_count
      /\ SizeOf(k') = [SizeOf(k) EXCEPT ![i] = 1]
  BY <1>1, <1>4, <1>5, TruncSets
<1>7. Balanced(k', k'.fds, k'.pwd, Held, lost.open_count)
  BY <1>3, <1>6, SameCounts DEF SameTables
<1>8. Abstract!SeekPastEnd(p, fd)
  BY <1>1, <1>2, <1>6 DEF Abstract!SeekPastEnd, SizeOf, SameTables
<1>9. AbstractStep
  BY <1>8 DEF AbstractStep, Abstract!Next, Abstract!Fd, Fd, Alive
<1> QED
  BY <1>1, <1>6, <1>7, <1>9, BalancedStep, AliveTablesKept DEF SameTables

\* open.
LEMMA OpenStep ==
    ASSUME IInv, NEW p \in Alive, NEW i \in Inode, NEW trunc \in BOOLEAN, Open(p, i, trunc)
    PROVE  IInv' /\ AbstractStep
<1> DEFINE fd == LowestFree(k, p)
           g == [k.fds EXCEPT ![p][fd] = i]
<1>1. /\ FreeFds(k, p) # {} /\ k' = Opened(k, p, i, trunc) /\ UNCHANGED lost /\ p \in Proc
      /\ k.pwd[p] # NULL /\ k.fds \in Tables
  BY InvariantFacts DEF Open, MayOpen
<1>2. trunc => i \in Regular
  <2> SUFFICES ASSUME trunc PROVE i \in Regular
    OBVIOUS
  <2>1. PICK flags \in OpenFlags : ~vop_open_fails(i, flags) /\ Truncates(flags) = trunc
    BY DEF Open
  <2>2. flags # {}
    BY <2>1 DEF Truncates
  <2>3. i \notin Devices /\ i \notin Dirs
    BY <2>1, <2>2 DEF vop_open_fails, Open
  <2> QED
    BY <2>3 DEF Inode, Sfs
<1>3. Balanced(k, k.fds, k.pwd, Held, lost.open_count)
  BY DEF IInv
<1>4. /\ Balanced(k', g, k.pwd, Held, lost.open_count) /\ k'.fds = g /\ k'.pwd = k.pwd
      /\ SizeOf(k') = IF trunc THEN [SizeOf(k) EXCEPT ![i] = 0] ELSE SizeOf(k)
  BY <1>1, <1>2, <1>3, OpenedResult DEF OpenResult
<1>5. \A q \in Proc : k'.pwd[q] = NULL => k'.fds[q] = NoFiles
  BY <1>1, <1>4 DEF IInv, DeadHaveNothing, Tables
<1>6. IInv'
  BY <1>1, <1>4, <1>5, BalancedStep
<1>7. Abstract!FreeFds(k.fds[p]) = FreeFds(k, p)
  BY DEF Abstract!FreeFds, Abstract!Fd, FreeFds, Fd, IsOpen
<1>8. Abstract!Opened(k.fds[p], i) = [k.fds[p] EXCEPT ![fd] = i]
  BY <1>7 DEF Abstract!Opened, LowestFree
<1> HIDE DEF fd
<1>9. Abstract!Open(p, i)
  <2>1. Abstract!FreeFds(k.fds[p]) # {}
    BY <1>1, <1>7
  <2>2. k'.fds = [k.fds EXCEPT ![p] = Abstract!Opened(k.fds[p], i)]
    BY <1>1, <1>4, <1>8 DEF Tables
  <2>3. \/ SizeOf(k') = SizeOf(k)
        \/ i \in Regular /\ SizeOf(k') = [SizeOf(k) EXCEPT ![i] = 0]
    BY <1>2, <1>4, Zenon
  <2> QED
    BY <1>4, <2>1, <2>2, <2>3 DEF Abstract!Open, SizeOf
<1>10. AbstractStep
  BY <1>9 DEF AbstractStep, Abstract!Next, Abstract!Inode, Inode, Sfs, Alive
<1> QED
  BY <1>6, <1>10

\* close.
LEMMA CloseStep ==
    ASSUME IInv, NEW p \in Alive, NEW fd \in Fd, Close(p, fd)
    PROVE  IInv' /\ AbstractStep
<1>1. /\ k.fds[p][fd] # NULL /\ k' = fd_array_close(k, p, fd) /\ UNCHANGED lost
      /\ p \in Proc /\ k.pwd[p] # NULL /\ k.fds \in Tables
  BY InvariantFacts DEF Close, IsOpen
<1>2. Balanced(k, k.fds, k.pwd, Held, lost.open_count)
  BY DEF IInv
<1>3. Result(k, k', [k.fds EXCEPT ![p][fd] = NULL], k.pwd, k.pwd, Held, lost.open_count)
  BY <1>1, <1>2, FdCloseResult
<1>4. /\ Balanced(k', k'.fds, k'.pwd, Held, lost.open_count)
      /\ k'.fds = [k.fds EXCEPT ![p][fd] = NULL] /\ k'.pwd = k.pwd /\ SizeOf(k') = SizeOf(k)
  BY <1>3 DEF Result
<1>5. \A q \in Proc : k'.pwd[q] = NULL => k'.fds[q] = NoFiles
  BY <1>1, <1>4 DEF IInv, DeadHaveNothing, Tables
<1>6. IInv'
  BY <1>1, <1>4, <1>5, BalancedStep
<1>7. Abstract!Close(p, fd)
  BY <1>4 DEF Abstract!Close, SizeOf
<1>8. AbstractStep
  BY <1>7 DEF AbstractStep, Abstract!Next, Abstract!Fd, Fd, Alive
<1> QED
  BY <1>6, <1>8

\* dup and dup2.
LEMMA DupStep ==
    ASSUME IInv, NEW p \in Alive, NEW fd1 \in Fd, NEW fd2 \in Fd, Dup(p, fd1, fd2)
    PROVE  IInv' /\ AbstractStep
<1> DEFINE i == k.fds[p][fd1]
<1>1. /\ i # NULL /\ k.fds[p][fd2] = NULL /\ k' = fd_array_dup(k, p, fd2, i) /\ UNCHANGED lost
      /\ p \in Proc /\ k.pwd[p] # NULL /\ k.fds \in Tables /\ i \in Inode
  BY InvariantFacts DEF Dup, IsOpen, FreeFds, Tables
<1>2. Balanced(k, k.fds, k.pwd, Held, lost.open_count)
  BY DEF IInv
<1>3. k.fds[p][fd1] = i
  OBVIOUS
<1> HIDE DEF i
<1>4. k.ref_count[i] > 0
  BY <1>1, <1>2, <1>3, EntryHeld
<1>5. Result(k, k', [k.fds EXCEPT ![p][fd2] = i], k.pwd, k.pwd, Held, lost.open_count)
  BY <1>1, <1>2, <1>4, FdDupResult
<1>6. /\ Balanced(k', k'.fds, k'.pwd, Held, lost.open_count)
      /\ k'.fds = [k.fds EXCEPT ![p][fd2] = i] /\ k'.pwd = k.pwd /\ SizeOf(k') = SizeOf(k)
  BY <1>5 DEF Result
<1>7. \A q \in Proc : k'.pwd[q] = NULL => k'.fds[q] = NoFiles
  BY <1>1, <1>6 DEF IInv, DeadHaveNothing, Tables
<1>8. IInv'
  BY <1>1, <1>6, <1>7, BalancedStep
<1>9. Abstract!Dup(p, fd1, fd2)
  BY <1>1, <1>3, <1>6 DEF Abstract!Dup, SizeOf
<1>10. AbstractStep
  BY <1>9 DEF AbstractStep, Abstract!Next, Abstract!Fd, Fd, Alive
<1> QED
  BY <1>8, <1>10

\* An open that is refused leaves the counts as they were.
LEMMA RefusedStep ==
    ASSUME IInv, NEW p \in Alive, NEW i \in Inode, OpenRefused(p, i)
    PROVE  IInv' /\ AbstractStep
<1> DEFINE k1 == vfs_lookup(k, i)
           r == Plus(Held, i)
           o == lost.open_count
<1>1. k' = RefDec(inode_check(k1, i), i) /\ UNCHANGED lost /\ Others(Held, o) /\ Held \in Counts /\ o \in Counts
  BY InvariantFacts DEF OpenRefused
<1>2. Balanced(k, k.fds, k.pwd, Held, o)
  BY DEF IInv
<1>3. r[i] > o[i] /\ r[i] > 0 /\ r[i] \in Nat /\ (i \in Devices => r[i] > 1) /\ Less(r, i) = Held
  BY <1>1, PlusLess DEF Others
<1>4. Keeps(k, k1, k.fds, k.pwd, r, o)
  BY <1>2, LookupKeeps
<1> HIDE DEF k1, r, o
<1>5. Balanced(k1, k.fds, k.pwd, r, o) /\ Same(k, k1) /\ Sound(k1)
  BY <1>4 DEF Keeps, Balanced
<1>6. k1.ref_count[i] >= r[i] /\ k1.ref_count[i] \in Nat
  BY <1>5, CountBounds
<1>7. k1.ref_count[i] > 0
  BY <1>3, <1>6
<1>8. k' = RefDec(k1, i)
  BY <1>1, <1>5, <1>7, InodeCheckHolds
<1>9. Keeps(k1, k', k.fds, k.pwd, Held, o)
  <2>1. Keeps(k1, RefDec(k1, i), k.fds, k.pwd, Less(r, i), o)
    BY <1>3, <1>5, RefDecKeeps
  <2> QED
    BY <1>3, <1>8, <2>1
<1>10. Balanced(k', k'.fds, k'.pwd, Held, o) /\ Same(k, k')
  BY <1>5, <1>9 DEF Keeps, Same, SameTables
<1>11. IInv'
  BY <1>1, <1>10, BalancedStep, AliveTablesKept DEF Same, SameTables, o
<1> QED
  BY <1>10, <1>11, SilentStep

\* An exclusive open of a file that exists keeps a reference for good.
LEMMA ExistsStep ==
    ASSUME IInv, NEW p \in Alive, NEW i \in Inode, OpenExists(p, i)
    PROVE  IInv' /\ AbstractStep
<1> DEFINE o == lost.open_count
<1>1. k' = vfs_lookup(k, i) /\ lost' = [lost EXCEPT !.ref_count[i] = @ + 1, !.leaks = @ + 1]
  BY DEF OpenExists
<1>2. lost.ref_count \in Counts /\ lost.open_count \in Counts /\ lost.leaks \in Nat
  BY DEF IInv, LostTypes
<1>3. LostTypes' /\ lost'.open_count = lost.open_count /\ lost'.ref_count = Plus(lost.ref_count, i)
  <2>1. Plus(lost.ref_count, i) \in Counts
    BY <1>2, PlusLess
  <2>2. lost \in [ref_count : Counts, open_count : Counts, leaks : Nat]
    BY DEF IInv, LostTypes
  <2>3. lost' = [ref_count |-> Plus(lost.ref_count, i), open_count |-> lost.open_count,
                 leaks |-> lost.leaks + 1]
    <3> HIDE DEF o
    <3> QED
      BY <1>1, <2>2 DEF Plus
  <2> QED
    BY <1>2, <2>1, <2>3 DEF LostTypes
<1>4. Held' = Plus(Held, i)
  <2>1. \A j \in Inode : Kernel(j) \in Nat /\ lost.ref_count[j] \in Nat
    BY <1>2 DEF Kernel, Counts
  <2>2. Held' = [j \in Inode |-> Kernel(j) + Plus(lost.ref_count, i)[j]]
    BY <1>3 DEF Held, Kernel
  <2>3. \A j \in Inode : Plus(lost.ref_count, i)[j] = lost.ref_count[j] + IF j = i THEN 1 ELSE 0
    BY <1>2, PlusLess
  <2>4. \A j \in Inode : Held[j] = Kernel(j) + lost.ref_count[j]
    BY DEF Held
  <2>5. Plus(Held, i) = [j \in Inode |-> IF j = i THEN Held[j] + 1 ELSE Held[j]]
    BY DEF Plus, Held
  <2>6. \A j \in Inode : Kernel(j) + Plus(lost.ref_count, i)[j] = IF j = i THEN Held[j] + 1 ELSE Held[j]
    <3> HIDE DEF Kernel
    <3> QED
      BY <2>1, <2>3, <2>4
  <2> QED
    BY <2>2, <2>5, <2>6
<1>5. Balanced(k, k.fds, k.pwd, Held, o)
  BY DEF IInv
<1>6. Keeps(k, k', k.fds, k.pwd, Plus(Held, i), o)
  BY <1>1, <1>5, LookupKeeps
<1>7. Balanced(k', k'.fds, k'.pwd, Held', lost'.open_count) /\ Same(k, k')
  BY <1>3, <1>4, <1>6 DEF Keeps, Same, SameTables
<1>8. IInv'
  BY <1>3, <1>7, AliveTablesKept DEF IInv, DeadHaveNothing, Same, SameTables
<1> QED
  BY <1>7, <1>8, SilentStep

\* chdir, also of what is no directory.
LEMMA ChdirStep ==
    ASSUME IInv, NEW p \in Alive, NEW i \in Inode, Chdir(p, i)
    PROVE  IInv' /\ AbstractStep
<1> DEFINE k1 == vfs_lookup(k, i)
           k2 == IF i \in Dirs THEN vfs_set_curdir(k1, p, i) ELSE k1
           r == Plus(Held, i)
           o == lost.open_count
           v == IF i \in Dirs THEN [k.pwd EXCEPT ![p] = i] ELSE k.pwd
<1>1. /\ k' = RefDec(k2, i) /\ UNCHANGED lost /\ Others(Held, o) /\ Held \in Counts /\ o \in Counts
      /\ p \in Proc /\ k.pwd[p] # NULL /\ k.pwd \in Pwds
  BY InvariantFacts DEF Chdir
<1>2. Balanced(k, k.fds, k.pwd, Held, o)
  BY DEF IInv
<1>3. r[i] > o[i] /\ r[i] > 0 /\ r[i] \in Nat /\ (i \in Devices => r[i] > 1) /\ Less(r, i) = Held
  BY <1>1, PlusLess DEF Others
<1>4. Keeps(k, k1, k.fds, k.pwd, r, o)
  BY <1>2, LookupKeeps
<1> HIDE DEF k1, r, o, k2
<1>5. Balanced(k1, k1.fds, k1.pwd, r, o) /\ k1.fds = k.fds /\ k1.pwd = k.pwd /\ SizeOf(k1) = SizeOf(k)
  BY <1>4 DEF Keeps, Same, SameTables
<1>6. k1.ref_count[i] > 0
  <2>1. k1.ref_count[i] >= r[i] /\ k1.ref_count[i] \in Nat
    BY <1>5, CountBounds
  <2> QED
    BY <1>3, <2>1
<1>7. Balanced(k2, k.fds, v, r, o) /\ k2.fds = k.fds /\ k2.pwd = v /\ SizeOf(k2) = SizeOf(k)
  <2>1. CASE i \in Dirs
    <3>1. Result(k1, vfs_set_curdir(k1, p, i), k1.fds, [k1.pwd EXCEPT ![p] = i], [k1.pwd EXCEPT ![p] = i], r, o)
      BY <1>1, <1>5, <1>6, <2>1, CurdirResult
    <3>2. k2 = vfs_set_curdir(k1, p, i)
      BY <2>1 DEF k2
    <3> QED
      BY <1>5, <2>1, <3>1, <3>2 DEF Result
  <2>2. CASE i \notin Dirs
    BY <1>5, <2>2 DEF k2
  <2> QED
    BY <2>1, <2>2
<1> HIDE DEF v
<1>8. Keeps(k2, k', k.fds, v, Held, o)
  <2>1. Keeps(k2, RefDec(k2, i), k.fds, v, Less(r, i), o)
    BY <1>3, <1>7, RefDecKeeps
  <2> QED
    BY <1>1, <1>3, <2>1
<1>9. /\ Balanced(k', k'.fds, k'.pwd, Held, o) /\ k'.fds = k.fds /\ k'.pwd = v
      /\ SizeOf(k') = SizeOf(k)
  BY <1>7, <1>8 DEF Keeps, Same, SameTables
<1>10. \A q \in Proc : k'.pwd[q] = NULL => k'.fds[q] = NoFiles
  <2>1. i \in Dirs => i # NULL
    BY FilesAssumption
  <2> QED
    BY <1>1, <1>9, <2>1 DEF IInv, DeadHaveNothing, v, Pwds
<1>11. IInv'
  BY <1>1, <1>9, <1>10, BalancedStep DEF o
<1>12. CASE i \in Dirs
  <2>1. Abstract!Chdir(p, i)
    BY <1>9, <1>12 DEF Abstract!Chdir, SizeOf, v
  <2>2. AbstractStep
    BY <1>12, <2>1 DEF AbstractStep, Abstract!Next, Alive
  <2> QED
    BY <1>11, <2>2
<1>13. CASE i \notin Dirs
  BY <1>9, <1>11, <1>13, SilentStep DEF Same, SameTables, v
<1> QED
  BY <1>12, <1>13

\* fork; and a fork that fails, which gives back what it took.
LEMMA ForkStep ==
    ASSUME IInv, NEW p \in Alive, NEW q \in Proc, Fork(p, q)
    PROVE  IInv' /\ AbstractStep
<1> DEFINE o == lost.open_count
           k1 == dup_files(k, q, p)
           g == [k.fds EXCEPT ![q] = k.fds[p]]
           v == [k.pwd EXCEPT ![q] = k.pwd[p]]
<1>1. /\ k.pwd[q] = NULL /\ (k' = k1 \/ k' = files_destroy(k1, q)) /\ UNCHANGED lost
      /\ p \in Proc /\ k.pwd[p] \in Dirs /\ k.pwd[p] # NULL
      /\ k.fds \in Tables /\ k.pwd \in Pwds
  BY InvariantFacts DEF Fork
<1>2. k.fds[q] = NoFiles
  BY <1>1 DEF IInv, DeadHaveNothing
<1>3. Balanced(k, k.fds, k.pwd, Held, o)
  BY DEF IInv
<1> HIDE DEF k1, o, g, v
<1>4. Result(k, k1, g, v, v, Held, o)
  <2>1. Result(k, dup_files(k, q, p), [k.fds EXCEPT ![q] = k.fds[p]],
               [k.pwd EXCEPT ![q] = k.pwd[p]], [k.pwd EXCEPT ![q] = k.pwd[p]], Held, o)
    BY <1>1, <1>2, <1>3, DupResult
  <2> QED
    BY <2>1 DEF k1, g, v
<1>5. /\ Balanced(k1, k1.fds, k1.pwd, Held, o) /\ k1.fds = g /\ k1.pwd = v
      /\ SizeOf(k1) = SizeOf(k)
  BY <1>4 DEF Result
<1>6. CASE k' = k1
  <2>1. \A a \in Proc : k'.pwd[a] = NULL => k'.fds[a] = NoFiles
    BY <1>1, <1>5, <1>6 DEF IInv, DeadHaveNothing, Tables, Pwds, g, v
  <2>2. IInv'
    BY <1>1, <1>5, <1>6, <2>1, BalancedStep DEF o
  <2>3. Abstract!Fork(p, q)
    BY <1>1, <1>5, <1>6 DEF Abstract!Fork, SizeOf, g, v
  <2>4. AbstractStep
    BY <2>3 DEF AbstractStep, Abstract!Next, Alive
  <2> QED
    BY <2>2, <2>4
<1>7. CASE k' = files_destroy(k1, q)
  <2>1. k1.pwd[q] # NULL
    BY <1>1, <1>5 DEF v, Pwds
  <2>2. Result(k1, k', [k1.fds EXCEPT ![q] = NoFiles], [k1.pwd EXCEPT ![q] = NULL],
               [k1.pwd EXCEPT ![q] = NULL], Held, o)
    BY <1>5, <1>7, <2>1, DestroyResult
  <2>3. [k1.fds EXCEPT ![q] = NoFiles] = k.fds
    BY <1>1, <1>2, <1>5 DEF g, Tables
  <2>4. [k1.pwd EXCEPT ![q] = NULL] = k.pwd
    BY <1>1, <1>5 DEF v, Pwds
  <2>5. Balanced(k', k'.fds, k'.pwd, Held, o) /\ Same(k, k')
    BY <1>5, <2>2, <2>3, <2>4 DEF Result, Same, SameTables
  <2>6. IInv'
    BY <1>1, <2>5, BalancedStep, AliveTablesKept DEF Same, SameTables, o
  <2> QED
    BY <2>5, <2>6, SilentStep
<1> QED
  BY <1>1, <1>6, <1>7

\* The end of a process, whatever of its table was closed before.
LEMMA EndStep ==
    ASSUME IInv, NEW p \in Alive, UNCHANGED lost,
           k'.fds = [k.fds EXCEPT ![p] = NoFiles], k'.pwd = [k.pwd EXCEPT ![p] = NULL],
           SizeOf(k') = SizeOf(k), Balanced(k', k'.fds, k'.pwd, Held, lost.open_count)
    PROVE  IInv' /\ AbstractStep
<1>1. p \in Proc /\ k.pwd[p] # NULL /\ k.fds \in Tables /\ k.pwd \in Pwds
  BY InvariantFacts
<1>2. \A q \in Proc : k'.pwd[q] = NULL => k'.fds[q] = NoFiles
  BY <1>1 DEF IInv, DeadHaveNothing, Tables, Pwds
<1>3. IInv'
  BY <1>2, BalancedStep
<1>4. Abstract!NoFiles = NoFiles
  BY DEF Abstract!NoFiles, Abstract!Fd, NoFiles, Fd
<1>5. Abstract!Exit(p)
  BY <1>4 DEF Abstract!Exit, SizeOf
<1>6. AbstractStep
  BY <1>1, <1>5 DEF AbstractStep, Abstract!Next, Alive
<1> QED
  BY <1>3, <1>6

\* exit.
LEMMA ExitStep ==
    ASSUME IInv, NEW p \in Alive, Exit(p)
    PROVE  IInv' /\ AbstractStep
<1>1. k' = files_destroy(k, p) /\ UNCHANGED lost /\ p \in Proc /\ k.pwd[p] # NULL
  BY InvariantFacts DEF Exit
<1>2. Balanced(k, k.fds, k.pwd, Held, lost.open_count)
  BY DEF IInv
<1>3. Result(k, k', [k.fds EXCEPT ![p] = NoFiles], [k.pwd EXCEPT ![p] = NULL],
             [k.pwd EXCEPT ![p] = NULL], Held, lost.open_count)
  BY <1>1, <1>2, DestroyResult
<1> QED
  BY <1>1, <1>3, EndStep DEF Result

\* What exec leaves of the table.
LEMMA CloseAllResult ==
    ASSUME IInv, NEW p \in Alive
    PROVE  LET k1 == files_closeall(k, p)
               g == [k.fds EXCEPT ![p] = Closed(k.fds[p], NStd)]
           IN /\ Balanced(k1, k1.fds, k1.pwd, Held, lost.open_count)
              /\ k1.fds = g /\ g \in Tables /\ k1.pwd = k.pwd /\ SizeOf(k1) = SizeOf(k)
              /\ FreeFds(k1, p) # {}
<1> DEFINE k1 == files_closeall(k, p)
           g == [k.fds EXCEPT ![p] = Closed(k.fds[p], NStd)]
<1>1. p \in Proc /\ k.fds \in Tables /\ NStd \in Nat /\ NStd \in Fd
  BY InvariantFacts, FilesAssumption DEF Fd
<1>2. Balanced(k, k.fds, k.pwd, Held, lost.open_count)
  BY DEF IInv
<1>3. Result(k, k1, g, k.pwd, k.pwd, Held, lost.open_count)
  BY <1>1, <1>2, CloseFromResult DEF files_closeall
<1> HIDE DEF k1
<1>4. /\ Balanced(k1, k1.fds, k1.pwd, Held, lost.open_count)
      /\ k1.fds = g /\ k1.pwd = k.pwd /\ SizeOf(k1) = SizeOf(k)
  BY <1>3 DEF Result
<1>5. g \in Tables
  BY <1>3 DEF Result, Balanced
<1>6. k1.fds[p][NStd] = NULL
  BY <1>1, <1>4 DEF Tables, Closed
<1>7. FreeFds(k1, p) # {}
  BY <1>1, <1>6 DEF FreeFds, IsOpen
<1> QED
  BY <1>4, <1>5, <1>7 DEF k1

\* exec of a program that does not exist ends the process.
LEMMA ExecNotFoundStep ==
    ASSUME IInv, NEW p \in Alive, ExecNotFound(p)
    PROVE  IInv' /\ AbstractStep
<1> DEFINE k1 == files_closeall(k, p)
           g == [k.fds EXCEPT ![p] = Closed(k.fds[p], NStd)]
<1>1. /\ k' = files_destroy(k1, p) /\ UNCHANGED lost /\ p \in Proc /\ k.pwd[p] # NULL
      /\ k.fds \in Tables
  BY InvariantFacts DEF ExecNotFound
<1>2. /\ Balanced(k1, k1.fds, k1.pwd, Held, lost.open_count)
      /\ k1.fds = g /\ k1.pwd = k.pwd /\ SizeOf(k1) = SizeOf(k)
  BY CloseAllResult
<1> HIDE DEF k1
<1>3. Result(k1, k', [k1.fds EXCEPT ![p] = NoFiles], [k1.pwd EXCEPT ![p] = NULL],
             [k1.pwd EXCEPT ![p] = NULL], Held, lost.open_count)
  BY <1>1, <1>2, DestroyResult
<1>4. [k1.fds EXCEPT ![p] = NoFiles] = [k.fds EXCEPT ![p] = NoFiles]
  BY <1>1, <1>2 DEF Tables
<1> QED
  BY <1>1, <1>2, <1>3, <1>4, EndStep DEF Result

\* exec: the standard descriptors are kept, the program is on the lowest free one.
LEMMA ExecOpens ==
    ASSUME IInv, NEW p \in Alive, NEW i \in Regular
    PROVE  LET k1 == Opened(files_closeall(k, p), p, i, FALSE) IN
           /\ Balanced(k1, k1.fds, k1.pwd, Held, lost.open_count)
           /\ k1.fds = [k.fds EXCEPT ![p] = Abstract!Opened(Closed(k.fds[p], NStd), i)]
           /\ k1.pwd = k.pwd /\ SizeOf(k1) = SizeOf(k)
<1> DEFINE k1 == files_closeall(k, p)
           t == Closed(k.fds[p], NStd)
           k2 == Opened(k1, p, i, FALSE)
           fd == LowestFree(k1, p)
<1>1. p \in Proc /\ k.fds \in Tables /\ i \in Inode
  BY InvariantFacts DEF Inode, Sfs
<1>2. /\ Balanced(k1, k1.fds, k1.pwd, Held, lost.open_count)
      /\ k1.fds = [k.fds EXCEPT ![p] = t] /\ k1.pwd = k.pwd /\ SizeOf(k1) = SizeOf(k)
      /\ k1.fds \in Tables /\ FreeFds(k1, p) # {}
  BY CloseAllResult
<1> HIDE DEF k1, t, k2
<1>3. OpenResult(k1, k2, [k1.fds EXCEPT ![p][fd] = i], SizeOf(k1), Held, lost.open_count)
  <2> DEFINE no == FALSE
             size == IF no THEN [SizeOf(k1) EXCEPT ![i] = 0] ELSE SizeOf(k1)
  <2>1. no \in BOOLEAN /\ ~no /\ k2 = Opened(k1, p, i, no) /\ size = SizeOf(k1)
    BY DEF k2
  <2>2. Balanced(k1, k1.fds, k1.pwd, Held, lost.open_count) /\ FreeFds(k1, p) # {}
    BY <1>2
  <2> HIDE DEF no
  <2>3. OpenResult(k1, Opened(k1, p, i, no), [k1.fds EXCEPT ![p][fd] = i], size, Held, lost.open_count)
    BY <1>1, <2>1, <2>2, OpenedResult
  <2> HIDE DEF fd, size
  <2> QED
    BY <2>1, <2>3
<1>4. k1.fds[p] = t
  BY <1>1, <1>2 DEF Tables
<1>5. Abstract!FreeFds(t) = FreeFds(k1, p)
  BY <1>4 DEF Abstract!FreeFds, Abstract!Fd, FreeFds, Fd, IsOpen
<1>6. Abstract!Opened(t, i) = [t EXCEPT ![fd] = i]
  BY <1>5 DEF Abstract!Opened, LowestFree
<1> HIDE DEF fd
<1>7. [k1.fds EXCEPT ![p][fd] = i] = [k.fds EXCEPT ![p] = Abstract!Opened(t, i)]
  <2> DEFINE u == Abstract!Opened(t, i)
  <2>1. [k1.fds EXCEPT ![p][fd] = i] = [k1.fds EXCEPT ![p] = u]
    BY <1>1, <1>2, <1>4, <1>6 DEF Tables
  <2> HIDE DEF u
  <2>2. [k1.fds EXCEPT ![p] = u] = [k.fds EXCEPT ![p] = u]
    BY <1>1, <1>2 DEF Tables
  <2> QED
    BY <2>1, <2>2 DEF u
<1> QED
  BY <1>2, <1>3, <1>7 DEF OpenResult, k1, k2, t

LEMMA ExecStep ==
    ASSUME IInv, NEW p \in Alive, NEW i \in Inode, Exec(p, i)
    PROVE  IInv' /\ AbstractStep
<1> DEFINE t == Abstract!Opened(Closed(k.fds[p], NStd), i)
<1>1. /\ i \in Regular /\ k' = Opened(files_closeall(k, p), p, i, FALSE) /\ UNCHANGED lost
      /\ p \in Proc /\ k.pwd[p] # NULL /\ k.fds \in Tables
  BY InvariantFacts DEF Exec
<1>2. /\ Balanced(k', k'.fds, k'.pwd, Held, lost.open_count)
      /\ k'.fds = [k.fds EXCEPT ![p] = t]
      /\ k'.pwd = k.pwd /\ SizeOf(k') = SizeOf(k)
  BY <1>1, ExecOpens
<1> HIDE DEF t
<1>3. \A q \in Proc : k'.pwd[q] = NULL => k'.fds[q] = NoFiles
  BY <1>1, <1>2 DEF IInv, DeadHaveNothing, Tables
<1>4. IInv'
  BY <1>1, <1>2, <1>3, BalancedStep
<1>5. Closed(k.fds[p], NStd) = [fd \in Abstract!Fd |-> IF fd < NStd THEN k.fds[p][fd] ELSE NULL]
  <2>1. \A fd \in Fd : fd >= NStd <=> ~(fd < NStd)
    BY FilesAssumption DEF Fd
  <2> QED
    BY <2>1 DEF Closed, Abstract!Fd, Fd
<1>6. Abstract!Exec(p, i)
  BY <1>1, <1>2, <1>5 DEF Abstract!Exec, SizeOf, t
<1>7. AbstractStep
  BY <1>1, <1>6 DEF AbstractStep, Abstract!Next, Abstract!Inode, Inode, Sfs, Alive
<1> QED
  BY <1>4, <1>7

\* A table that goes, with all its entries.
LEMMA TableDropped ==
    ASSUME NEW f \in Tables, NEW p \in Proc, NEW j \in Inode
    PROVE  LET g == [f EXCEPT ![p] = NoFiles]
               mine == Cardinality({fd \in Fd : f[p][fd] = j})
           IN /\ g \in Tables /\ mine \in Nat
              /\ Cardinality(Entry(f, j)) = Cardinality(Entry(g, j)) + mine
<1> DEFINE g == [f EXCEPT ![p] = NoFiles]
           S == {fd \in Fd : f[p][fd] = j}
           P == {p} \X S
<1>1. NoFiles \in [Fd -> Inode \cup {NULL}]
  BY DEF NoFiles
<1>2. g \in Tables
  BY <1>1 DEF Tables
<1>3. \A q \in Proc, fd \in Fd : g[q][fd] = IF q = p THEN NULL ELSE f[q][fd]
  BY DEF Tables, NoFiles
<1> HIDE DEF g
<1>4. j # NULL
  BY FilesAssumption DEF Inode, Sfs
<1>5. IsFiniteSet(S)
  <2>1. IsFiniteSet(Fd)
    BY FilesAssumption, FS_Interval DEF Fd
  <2> QED
    BY <2>1, FS_Subset
<1>6. IsFiniteSet(P) /\ Cardinality(P) = Cardinality(S) /\ Cardinality(S) \in Nat
  <2>1. IsFiniteSet({p}) /\ Cardinality({p}) = 1
    BY FS_Singleton
  <2>2. Cardinality(S) \in Nat
    BY <1>5, FS_CardinalityType
  <2>3. IsFiniteSet(P) /\ Cardinality(P) = Cardinality({p}) * Cardinality(S)
    BY <1>5, <2>1, FS_Product
  <2> QED
    BY <2>1, <2>2, <2>3
<1>7. \A e \in Proc \X Fd : e[1] \in Proc /\ e[2] \in Fd
  OBVIOUS
<1>8. \A e \in Proc \X Fd : e \in P <=> e[1] = p /\ f[p][e[2]] = j
  OBVIOUS
<1>9. P \subseteq Proc \X Fd
  OBVIOUS
<1> HIDE DEF P
<1>10. Entry(f, j) = Entry(g, j) \cup P
  BY <1>3, <1>4, <1>7, <1>8, <1>9 DEF Entry
<1>11. Entry(g, j) \cap P = {}
  BY <1>3, <1>4, <1>7, <1>8, <1>9 DEF Entry
<1>12. IsFiniteSet(Entry(g, j)) /\ Cardinality(Entry(g, j)) \in Nat
  BY HoldersFinite
<1>13. Cardinality({}) = 0
  BY FS_EmptySet
<1>14. Cardinality(Entry(g, j) \cup P)
       = Cardinality(Entry(g, j)) + Cardinality(P) - Cardinality(Entry(g, j) \cap P)
  BY <1>6, <1>12, FS_Union
<1>15. Cardinality(Entry(f, j)) = Cardinality(Entry(g, j)) + Cardinality(S)
  <2> HIDE DEF S
  <2>1. Cardinality(Entry(g, j) \cap P) = 0
    BY <1>11, <1>13, Zenon
  <2>2. Cardinality(Entry(f, j)) = Cardinality(Entry(g, j) \cup P)
    BY <1>10, Zenon
  <2> DEFINE all == Cardinality(Entry(g, j) \cup P)
             common == Cardinality(Entry(g, j) \cap P)
  <2>3. all = Cardinality(Entry(g, j)) + Cardinality(P) - common /\ common = 0
    BY <1>14, <2>1
  <2> HIDE DEF all, common
  <2>4. all = Cardinality(Entry(g, j)) + Cardinality(S)
    BY <1>6, <1>12, <2>3
  <2> QED
    BY <2>2, <2>4 DEF all
<1> QED
  BY <1>2, <1>6, <1>15 DEF g

\* The writes of both tables.
LEMMA TablesWritten ==
    ASSUME NEW kk, Sound(kk), NEW p \in Proc
    PROVE  LET r == [kk EXCEPT !.pwd[p] = NULL, !.fds[p] = NoFiles] IN
           /\ Sound(r) /\ SizeOf(r) = SizeOf(kk)
           /\ r.ref_count = kk.ref_count /\ r.open_count = kk.open_count
           /\ r.pwd = [kk.pwd EXCEPT ![p] = NULL] /\ r.fds = [kk.fds EXCEPT ![p] = NoFiles]
<1> DEFINE r == [kk EXCEPT !.pwd[p] = NULL, !.fds[p] = NoFiles]
<1>1. kk \in Kernels /\ kk.pwd \in Pwds /\ kk.fds \in Tables
  BY Fields DEF Sound
<1>2. [kk.pwd EXCEPT ![p] = NULL] \in Pwds /\ [kk.fds EXCEPT ![p] = NoFiles] \in Tables
  BY <1>1 DEF Pwds, Tables, NoFiles
<1>3. /\ r \in Kernels /\ r.ref_count = kk.ref_count /\ r.open_count = kk.open_count
      /\ r.reclaim_count = kk.reclaim_count /\ r.cached = kk.cached /\ r.dirty = kk.dirty
      /\ r.size = kk.size /\ r.disk = kk.disk /\ r.ok = kk.ok
      /\ r.pwd = [kk.pwd EXCEPT ![p] = NULL] /\ r.fds = [kk.fds EXCEPT ![p] = NoFiles]
  BY <1>1, <1>2 DEF Kernels
<1> HIDE DEF r
<1>4. Sound(r)
  BY <1>3 DEF Sound
<1>5. SizeOf(r) = SizeOf(kk)
  BY <1>3 DEF SizeOf
<1> QED
  BY <1>3, <1>4, <1>5 DEF r

\* A program that cannot be loaded: the process ends and its table is never given back.
LEMMA ExecNotLoadedStep ==
    ASSUME IInv, NEW p \in Alive, NEW i \in Inode, ExecNotLoaded(p, i)
    PROVE  IInv' /\ AbstractStep
<1> DEFINE k1 == Opened(files_closeall(k, p), p, i, FALSE)
           d == k.pwd[p]
           o == lost.open_count
           entries(n) == Cardinality({fd \in Fd : k1.fds[p][fd] = n})
           pwd(n) == IF k1.pwd[p] = n THEN 1 ELSE 0
           g == [k1.fds EXCEPT ![p] = NoFiles]
           v == [k1.pwd EXCEPT ![p] = NULL]
<1>1. /\ i \in Regular /\ p \in Proc /\ d \in Dirs /\ d # NULL /\ k.fds \in Tables /\ k.pwd \in Pwds
      /\ Held \in Counts /\ o \in Counts /\ Others(Held, o)
      /\ lost.ref_count \in Counts /\ lost.leaks \in Nat
  BY InvariantFacts DEF ExecNotLoaded, IInv, LostTypes
<1>2. /\ k' = [k1 EXCEPT !.pwd[p] = NULL, !.fds[p] = NoFiles]
      /\ lost' = [ref_count  |-> [n \in Inode |-> lost.ref_count[n] + entries(n) + pwd(n)],
                  open_count |-> [n \in Inode |-> o[n] + entries(n)],
                  leaks      |-> lost.leaks + 1]
  BY DEF ExecNotLoaded
<1>3. /\ Balanced(k1, k1.fds, k1.pwd, Held, o)
      /\ k1.fds = [k.fds EXCEPT ![p] = Abstract!Opened(Closed(k.fds[p], NStd), i)]
      /\ k1.pwd = k.pwd /\ SizeOf(k1) = SizeOf(k)
  BY <1>1, ExecOpens
<1> HIDE DEF k1
<1>4. k1.fds \in Tables /\ k1.pwd \in Pwds /\ k1.pwd[p] = d /\ Sound(k1)
  BY <1>3 DEF Balanced
<1> HIDE DEF d
<1>5. /\ g \in Tables
      /\ \A j \in Inode : /\ entries(j) \in Nat
                          /\ Cardinality(Entry(k1.fds, j)) = Cardinality(Entry(g, j)) + entries(j)
  BY <1>1, <1>4, TableDropped
<1>6. /\ v \in Pwds
      /\ \A j \in Inode : Cardinality(Cwd(k1.pwd, j)) = Cardinality(Cwd(v, j)) + IF j = d THEN 1 ELSE 0
  BY <1>1, <1>4, CwdDropped
<1>7. \A j \in Inode : pwd(j) = IF j = d THEN 1 ELSE 0
  BY <1>4
<1>8. \A j \in Inode : pwd(j) \in Nat
  OBVIOUS
<1> HIDE DEF entries, pwd
<1>9. \A j \in Inode : /\ Kernel(j) \in Nat /\ lost.ref_count[j] \in Nat /\ o[j] \in Nat
                       /\ Held[j] \in Nat /\ Held[j] = Kernel(j) + lost.ref_count[j]
  BY <1>1 DEF Kernel, Held, Counts
<1>10. LostTypes'
  <2>1. [n \in Inode |-> lost.ref_count[n] + entries(n) + pwd(n)] \in Counts
    BY <1>5, <1>8, <1>9 DEF Counts
  <2>2. [n \in Inode |-> o[n] + entries(n)] \in Counts
    BY <1>5, <1>9 DEF Counts
  <2>3. lost.leaks + 1 \in Nat
    BY <1>1
  <2> QED
    BY <1>2, <2>1, <2>2, <2>3 DEF LostTypes
<1>11. lost'.open_count = [n \in Inode |-> o[n] + entries(n)]
  BY <1>2
<1>12. Held' = [n \in Inode |-> Held[n] + entries(n) + pwd(n)]
  <2>1. lost'.ref_count = [n \in Inode |-> lost.ref_count[n] + entries(n) + pwd(n)]
    BY <1>2
  <2>2. Held' = [n \in Inode |-> Kernel(n) + (lost.ref_count[n] + entries(n) + pwd(n))]
    BY <2>1 DEF Held, Kernel
  <2>3. \A n \in Inode : Kernel(n) + (lost.ref_count[n] + entries(n) + pwd(n))
                         = Held[n] + entries(n) + pwd(n)
    BY <1>5, <1>8, <1>9
  <2> QED
    BY <2>2, <2>3
<1>13. /\ Sound(k') /\ SizeOf(k') = SizeOf(k1)
       /\ k'.ref_count = k1.ref_count /\ k'.open_count = k1.open_count
       /\ k'.pwd = v /\ k'.fds = g
  BY <1>1, <1>2, <1>4, TablesWritten
<1>14. Others(Held', lost'.open_count)
  <2>1. \A n \in Inode : Held[n] + entries(n) + pwd(n) \in Nat /\ o[n] + entries(n) \in Nat
    BY <1>5, <1>8, <1>9
  <2>2. \A n \in Inode : o[n] + entries(n) <= Held[n] + entries(n) + pwd(n)
    <3> HIDE DEF Held, o
    <3> QED
      BY <1>1, <1>5, <1>8, <1>9 DEF Others
  <2>3. \A n \in Devices : Held[n] + entries(n) + pwd(n) > 0 /\ n \in Inode
    <3> HIDE DEF Held, o
    <3> QED
      BY <1>1, <1>5, <1>8, <1>9 DEF Others, Inode
  <2> HIDE DEF Held, o
  <2> QED
    BY <1>11, <1>12, <2>1, <2>2, <2>3 DEF Others, Counts
<1>15. Balanced(k', g, v, Held', lost'.open_count)
  <2>1. ASSUME NEW j \in Inode
        PROVE  /\ k'.open_count[j] = Cardinality(Entry(g, j)) + lost'.open_count[j]
               /\ k'.ref_count[j] = Cardinality(Entry(g, j)) + Cardinality(Cwd(v, j)) + Held'[j]
    <3>1. /\ k1.open_count[j] = Cardinality(Entry(k1.fds, j)) + o[j]
          /\ k1.ref_count[j] = Cardinality(Entry(k1.fds, j)) + Cardinality(Cwd(k1.pwd, j)) + Held[j]
      BY <1>3 DEF Balanced
    <3>2. /\ Cardinality(Entry(k1.fds, j)) = Cardinality(Entry(g, j)) + entries(j)
          /\ Cardinality(Cwd(k1.pwd, j)) = Cardinality(Cwd(v, j)) + pwd(j)
          /\ entries(j) \in Nat /\ pwd(j) \in Nat /\ Held[j] \in Nat /\ o[j] \in Nat
      BY <1>5, <1>6, <1>7, <1>8, <1>9
    <3>3. Cardinality(Entry(g, j)) \in Nat /\ Cardinality(Cwd(v, j)) \in Nat
      BY HoldersFinite
    <3>4. lost'.open_count[j] = o[j] + entries(j) /\ Held'[j] = Held[j] + entries(j) + pwd(j)
      BY <1>11, <1>12
    <3> HIDE DEF Held, o, g, v
    <3> QED
      BY <1>13, <3>1, <3>2, <3>3, <3>4
  <2> QED
    BY <1>5, <1>6, <1>13, <1>14, <2>1 DEF Balanced
<1>16. g = [k.fds EXCEPT ![p] = NoFiles]
  BY <1>1, <1>3 DEF Tables
<1>17. v = [k.pwd EXCEPT ![p] = NULL]
  BY <1>3
<1> HIDE DEF g, v
<1>18. \A q \in Proc : k'.pwd[q] = NULL => k'.fds[q] = NoFiles
  BY <1>1, <1>13, <1>16, <1>17 DEF IInv, DeadHaveNothing, Tables, Pwds
<1>19. IInv'
  BY <1>10, <1>13, <1>15, <1>18 DEF IInv, DeadHaveNothing
<1>20. Abstract!NoFiles = NoFiles
  BY DEF Abstract!NoFiles, Abstract!Fd, NoFiles, Fd
<1>21. Abstract!Exit(p)
  BY <1>3, <1>13, <1>16, <1>17, <1>20 DEF Abstract!Exit, SizeOf
<1>22. AbstractStep
  BY <1>1, <1>21 DEF AbstractStep, Abstract!Next, Alive
<1> QED
  BY <1>19, <1>22

-----------------------------------------------------------------------------

\* The kernel as it starts.
LEMMA InitHolds ==
    ASSUME Init
    PROVE  IInv /\ Abstract!Init
<1> PICK p \in Proc, size \in [Regular -> {0, 1}] :
        k = [ref_count     |-> [i \in Inode |-> Kernel(i) + IF i = Root THEN 1 ELSE 0],
             open_count    |-> NoCounts,
             reclaim_count |-> [i \in Inode |-> IF i = Root THEN 1 ELSE 0],
             cached        |-> {Root},
             dirty         |-> {},
             size          |-> size,
             disk          |-> size,
             pwd           |-> [q \in Proc |-> IF q = p THEN Root ELSE NULL],
             fds           |-> [q \in Proc |-> NoFiles],
             ok            |-> TRUE]
  BY DEF Init
<1> DEFINE refs == [i \in Inode |-> Kernel(i) + IF i = Root THEN 1 ELSE 0]
           reclaims == [i \in Inode |-> IF i = Root THEN 1 ELSE 0]
           w == [q \in Proc |-> IF q = p THEN Root ELSE NULL]
           f == [q \in Proc |-> NoFiles]
<1>1. /\ k.ref_count = refs /\ k.open_count = NoCounts /\ k.reclaim_count = reclaims
      /\ k.cached = {Root} /\ k.dirty = {} /\ k.size = size /\ k.disk = size
      /\ k.pwd = w /\ k.fds = f /\ k.ok
      /\ lost = [ref_count |-> NoCounts, open_count |-> NoCounts, leaks |-> 0]
  BY DEF Init
<1>2. /\ Root \in Dirs /\ Root \in Sfs /\ Root \in Inode /\ Root \notin Devices /\ Root # NULL
      /\ Root \notin Regular /\ NULL \notin Inode
      /\ \A i \in Inode : i \in Sfs <=> i \notin Devices
      /\ \A i \in Regular : i \in Sfs /\ i \in Inode
      /\ \A i \in Devices : i \in Inode /\ i # Root
      /\ \A i \in Sfs : i \in Inode
  BY FilesAssumption DEF Inode, Sfs
<1>3. \A i \in Inode : /\ Kernel(i) \in Nat /\ (Kernel(i) > 0 <=> i = Root \/ i \in Devices)
                       /\ NoCounts[i] = 0
                       /\ refs[i] = Kernel(i) + IF i = Root THEN 1 ELSE 0
  BY DEF Kernel, NoCounts
<1>4. NoCounts \in Counts /\ refs \in Counts /\ reclaims \in [Inode -> Int]
  BY <1>3 DEF NoCounts, Counts
<1>5. w \in Pwds /\ f \in Tables
  BY <1>2 DEF Pwds, Tables, NoFiles
<1>6. k \in Kernels
  BY <1>1, <1>2, <1>4, <1>5 DEF Kernels
<1>7. /\ \A i \in Inode : NoCounts[i] <= refs[i]
      /\ \A i \in Devices : refs[i] > 0
      /\ \A i \in Sfs : i \in {Root} <=> refs[i] > 0
      /\ \A i \in Sfs : reclaims[i] = IF i \in {Root} THEN 1 ELSE 0
  <2> HIDE DEF refs, NoCounts
  <2>1. \A i \in Inode : refs[i] \in Nat /\ (refs[i] > 0 <=> i = Root \/ i \in Devices)
    BY <1>3
  <2> QED
    BY <1>2, <1>3, <2>1
<1>8. Sound(k)
  <2> HIDE DEF refs, reclaims, w, f
  <2> QED
    BY <1>1, <1>6, <1>7 DEF Sound
<1>9. LostTypes /\ lost.open_count = NoCounts /\ lost.ref_count = NoCounts
  BY <1>1, <1>4 DEF LostTypes
<1>10. \A i \in Inode : Held[i] = Kernel(i)
  BY <1>3, <1>9 DEF Held
<1>11. Others(Held, lost.open_count)
  <2>1. Held \in Counts
    BY <1>3, <1>9 DEF Held, Counts
  <2>2. \A i \in Devices : Held[i] > 0
    BY <1>2, <1>3, <1>10
  <2>3. \A i \in Inode : lost.open_count[i] <= Held[i]
    BY <1>3, <1>9, <1>10
  <2> QED
    BY <1>4, <1>9, <2>1, <2>2, <2>3 DEF Others
<1>12. ASSUME NEW i \in Inode
       PROVE  Cardinality(Entry(f, i)) = 0 /\ Cardinality(Cwd(w, i)) = IF i = Root THEN 1 ELSE 0
  <2>1. Entry(f, i) = {}
    <3>1. \A e \in Proc \X Fd : f[e[1]][e[2]] = NULL
      BY DEF NoFiles
    <3> HIDE DEF f
    <3> QED
      BY <1>2, <3>1 DEF Entry
  <2>2. Cwd(w, i) = IF i = Root THEN {p} ELSE {}
    BY <1>2 DEF Cwd
  <2>3. Cardinality({}) = 0 /\ Cardinality({p}) = 1
    BY FS_EmptySet, FS_Singleton
  <2> QED
    BY <2>1, <2>2, <2>3
<1>13. Balanced(k, f, w, Held, lost.open_count)
  <2>1. ASSUME NEW i \in Inode
        PROVE  /\ k.open_count[i] = Cardinality(Entry(f, i)) + lost.open_count[i]
               /\ k.ref_count[i] = Cardinality(Entry(f, i)) + Cardinality(Cwd(w, i)) + Held[i]
    <3> HIDE DEF f, w, refs
    <3> QED
      BY <1>1, <1>3, <1>9, <1>10, <1>12
  <2> QED
    BY <1>5, <1>8, <1>11, <2>1 DEF Balanced
<1>14. DeadHaveNothing
  BY <1>1 DEF DeadHaveNothing
<1>15. IInv
  BY <1>1, <1>9, <1>13, <1>14 DEF IInv
<1>16. Abstract!NoFiles = NoFiles
  BY DEF Abstract!NoFiles, Abstract!Fd, NoFiles, Fd
<1>17. [i \in Regular |-> IF i \in k.cached THEN k.size[i] ELSE k.disk[i]] \in [Regular -> {0, 1}]
  BY <1>1
<1>18. Abstract!Init
  BY <1>1, <1>16, <1>17 DEF Abstract!Init
<1> QED
  BY <1>15, <1>18

\* One step for each action.
LEMMA NextStep ==
    ASSUME IInv, [Next]_vars
    PROVE  IInv' /\ AbstractStep
<1>1. CASE Next
  <2>1. PICK p \in Alive :
            \/ \E i \in Inode : OpenRefused(p, i) \/ OpenExists(p, i)
            \/ \E i \in Inode, trunc \in BOOLEAN : Open(p, i, trunc)
            \/ \E fd \in Fd : Close(p, fd) \/ SeekPastEnd(p, fd) \/ Fsync(p, fd)
            \/ \E fd1, fd2 \in Fd : Dup(p, fd1, fd2)
            \/ \E i \in Inode : Chdir(p, i) \/ Exec(p, i) \/ ExecNotLoaded(p, i)
            \/ \E q \in Proc : Fork(p, q)
            \/ ExecNotFound(p) \/ Exit(p)
    BY <1>1 DEF Next
  <2>2. ASSUME NEW i \in Inode, OpenRefused(p, i) \/ OpenExists(p, i)
        PROVE  IInv' /\ AbstractStep
    BY <2>2, RefusedStep, ExistsStep
  <2>3. ASSUME NEW i \in Inode, NEW trunc \in BOOLEAN, Open(p, i, trunc)
        PROVE  IInv' /\ AbstractStep
    BY <2>3, OpenStep
  <2>4. ASSUME NEW fd \in Fd, Close(p, fd) \/ SeekPastEnd(p, fd) \/ Fsync(p, fd)
        PROVE  IInv' /\ AbstractStep
    BY <2>4, CloseStep, SeekStep, FsyncStep
  <2>5. ASSUME NEW fd1 \in Fd, NEW fd2 \in Fd, Dup(p, fd1, fd2)
        PROVE  IInv' /\ AbstractStep
    BY <2>5, DupStep
  <2>6. ASSUME NEW i \in Inode, Chdir(p, i) \/ Exec(p, i) \/ ExecNotLoaded(p, i)
        PROVE  IInv' /\ AbstractStep
    BY <2>6, ChdirStep, ExecStep, ExecNotLoadedStep
  <2>7. ASSUME NEW q \in Proc, Fork(p, q)
        PROVE  IInv' /\ AbstractStep
    BY <2>7, ForkStep
  <2>8. CASE ExecNotFound(p) \/ Exit(p)
    BY <2>8, ExecNotFoundStep, ExitStep
  <2> QED
    BY <2>1, <2>2, <2>3, <2>4, <2>5, <2>6, <2>7, <2>8
<1>2. CASE UNCHANGED vars
  <2>1. k' = k /\ lost' = lost
    BY <1>2 DEF vars
  <2>2. Balanced(k', k'.fds, k'.pwd, Held, lost.open_count)
    BY <2>1 DEF IInv
  <2>3. IInv'
    BY <2>1, <2>2, BalancedStep, AliveTablesKept
  <2>4. Same(k, k')
    BY <2>1 DEF Same, SameTables
  <2> QED
    BY <2>3, <2>4, SilentStep
<1> QED
  BY <1>1, <1>2

-----------------------------------------------------------------------------

\* The counts, the tables and the cache agree, and no assertion of the file calls fails.
THEOREM FilesInvariant == Spec => []IInv
<1>1. Init => IInv
  BY InitHolds
<1>2. IInv /\ [Next]_vars => IInv'
  BY NextStep
<1> QED
  BY <1>1, <1>2, PTL DEF Spec

\* The counts of an inode are those of its holders, and what was lost: nobody's
\* reference is dropped twice or forgotten by fork, dup, exec, exit, chdir or an open
\* that fails, and an inode is in the cache as long as somebody holds it.
THEOREM CountsStayExact == Spec => []CountsExact
<1>1. IInv => CountsExact
  <2> SUFFICES ASSUME IInv PROVE CountsExact
    OBVIOUS
  <2>1. Balanced(k, k.fds, k.pwd, Held, lost.open_count) /\ Sound(k) /\ NULL \notin Inode
    BY FilesAssumption DEF IInv, Balanced, Inode, Sfs
  <2>2. AssertionsHold
    BY <2>1 DEF AssertionsHold, Sound
  <2>3. ASSUME NEW i \in Inode
        PROVE  Entries(i) = Entry(k.fds, i) /\ WorkingIn(i) = Cwd(k.pwd, i)
    <3>1. \A p \in Proc, fd \in Fd : k.pwd[p] = NULL => k.fds[p][fd] = NULL
      BY DEF IInv, DeadHaveNothing, NoFiles
    <3>2. \A e \in Proc \X Fd : e[1] \in Proc /\ e[2] \in Fd
      OBVIOUS
    <3>3. \A e \in Alive \X Fd : e \in Proc \X Fd /\ e[1] \in Alive
      BY DEF Alive
    <3>4. \A e \in Proc \X Fd : e[1] \in Alive => e \in Alive \X Fd
      OBVIOUS
    <3>5. \A e \in Proc \X Fd : k.fds[e[1]][e[2]] = i => e[1] \in Alive
      BY <2>1, <3>1, <3>2 DEF Alive
    <3>6. Entries(i) = Entry(k.fds, i)
      BY <3>3, <3>4, <3>5 DEF Entries, Entry
    <3>7. WorkingIn(i) = Cwd(k.pwd, i)
      BY <2>1 DEF WorkingIn, Cwd, Alive
    <3> QED
      BY <3>6, <3>7
  <2>4. ASSUME NEW i \in Inode
        PROVE  /\ k.open_count[i] = IF InMemory(k, i) THEN Cardinality(Entries(i)) + lost.open_count[i] ELSE 0
               /\ k.ref_count[i] = Cardinality(Entries(i)) + Cardinality(WorkingIn(i)) + Kernel(i)
                                   + lost.ref_count[i]
    <3>1. /\ k.open_count[i] = Cardinality(Entry(k.fds, i)) + lost.open_count[i]
          /\ k.ref_count[i] = Cardinality(Entry(k.fds, i)) + Cardinality(Cwd(k.pwd, i)) + Held[i]
      BY <2>1 DEF Balanced
    <3>2. k.ref_count[i] \in Nat /\ k.open_count[i] \in Nat /\ k.open_count[i] <= k.ref_count[i]
      BY <2>1, Fields DEF Sound, Counts
    <3>3. ~InMemory(k, i) => k.open_count[i] = 0
      BY <2>1, <3>2, HeldInMemory
    <3>4. Cardinality(Entry(k.fds, i)) \in Nat /\ Cardinality(Cwd(k.pwd, i)) \in Nat
      BY HoldersFinite
    <3>5. Held[i] = Kernel(i) + lost.ref_count[i] /\ Kernel(i) \in Nat /\ lost.ref_count[i] \in Nat
      BY DEF IInv, LostTypes, Counts, Held, Kernel
    <3> QED
      BY <2>3, <3>1, <3>3, <3>4, <3>5
  <2>5. \A i \in Sfs : (i \in k.cached) <=> (k.ref_count[i] > 0)
    BY <2>1 DEF Sound
  <2> QED
    BY <2>2, <2>4, <2>5 DEF CountsExact
<1> QED
  BY <1>1, FilesInvariant, PTL

\* An inode that nobody has open is as it is on the disk, also when the last close was
\* that of an exit or an exec: sfs_close writes it before the cache lets it go.
THEOREM FilesSyncedWhenClosed == Spec => []SyncedWhenClosed
<1>1. IInv => SyncedWhenClosed
  <2> SUFFICES ASSUME IInv, NEW i \in Regular, k.open_count[i] = 0
               PROVE  i \notin k.dirty /\ (i \in k.cached => k.size[i] = k.disk[i])
    BY DEF SyncedWhenClosed
  <2>1. Sound(k)
    BY InvariantFacts
  <2>2. i \notin k.dirty
    BY <2>1 DEF Sound
  <2> QED
    BY <2>1, <2>2 DEF Sound
<1> QED
  BY <1>1, FilesInvariant, PTL

\* A process sees descriptors of its own, copied at fork and kept at exec as OpenFiles
\* says, and sizes that are everybody's: sharing, counts and cache do not show.
THEOREM FilesImplementOpenFiles == Spec => ImplementsOpenFiles
<1>1. Init => Abstract!Init
  BY InitHolds
<1>2. IInv /\ [Next]_vars => [Abstract!Next]_(Abstract!vars)
  BY NextStep DEF AbstractStep
<1> QED
  BY <1>1, <1>2, FilesInvariant, PTL DEF Spec, ImplementsOpenFiles, Abstract!Spec
=============================================================================
