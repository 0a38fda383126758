----------------------------- MODULE StdinProof ------------------------------
(***************************************************************************)
(* Proofs about Stdin: for any set of readers and any size of the buffer,  *)
(* no wakeup is lost and no wait_t is left behind in the wait queue.       *)
(***************************************************************************)
EXTENDS Stdin, ListLemmas

\* What the invariants need to know of the variables.
Types ==
    /\ state \in [Readers -> {"runnable", "sleeping", "zombie"}]
    /\ left \in [Readers -> Nat]
    /\ wait_queue \in Seq(Readers)
    /\ p_rpos \in Nat /\ p_wpos \in Nat /\ p_rpos <= p_wpos

\* NoLostReader needs NoDanglingWait: a key wakes the sleepers that are queued.
\* NoDanglingWait needs nothing else but the types.
IInv == Types /\ NoLostReader /\ NoDanglingWait

-----------------------------------------------------------------------------

\* The loop of dev_stdin_read takes what it wants or all there is.
LEMMA TakenLength ==
    ASSUME p_rpos \in Nat, p_wpos \in Nat, p_rpos <= p_wpos, NEW n \in Nat
    PROVE  LET taken == SubSeq(Buffered, 1, Min({n, Len(Buffered)})) IN
           Len(taken) = IF n <= p_wpos - p_rpos THEN n ELSE p_wpos - p_rpos
<1> DEFINE S == {Buffered[i] : i \in 1 .. p_wpos - p_rpos}
           m == IF n <= p_wpos - p_rpos THEN n ELSE p_wpos - p_rpos
<1>1. Buffered \in Seq(S) /\ Len(Buffered) = p_wpos - p_rpos
  <2> DEFINE k == p_wpos - p_rpos
  <2>1. k \in Nat
    OBVIOUS
  <2>2. Buffered \in [1 .. k -> S]
    BY DEF Buffered
  <2> HIDE DEF k, S
  <2>3. Buffered \in Seq(S) /\ Len(Buffered) = k
    BY <2>1, <2>2
  <2> QED
    BY <2>3 DEF k
<1>2. Min({n, Len(Buffered)}) = m
  BY <1>1 DEF Min
<1>3. Len(SubSeq(Buffered, 1, m)) = m
  BY <1>1, SubSeqProperties
<1> QED
  BY <1>2, <1>3

-----------------------------------------------------------------------------

(***************************************************************************)
(* The steps.                                                              *)
(***************************************************************************)

\* A pass of the loop of dev_stdin_read, with or without a sleep at its end.
LEMMA ReadLoopKeeps ==
    ASSUME IInv, NEW p \in Readers, NEW n \in Nat \ {0}, NEW q \in Seq(Readers),
           state[p] = "runnable", IsInjective(q), ToSet(q) = ToSet(wait_queue) \ {p},
           ReadLoop(p, n, q)
    PROVE  IInv'
<1> DEFINE taken == SubSeq(Buffered, 1, Min({n, Len(Buffered)}))
           len == Len(taken)
<1>1. len = IF n <= p_wpos - p_rpos THEN n ELSE p_wpos - p_rpos
  BY TakenLength DEF IInv, Types
<1>2. /\ p_rpos' = p_rpos + len /\ p_wpos' = p_wpos
      /\ left' = [left EXCEPT ![p] = n - len]
  BY DEF ReadLoop
<1> HIDE DEF taken, len
<1>3. p_rpos' \in Nat /\ p_wpos' \in Nat /\ p_rpos' <= p_wpos' /\ n - len \in Nat
  BY <1>1, <1>2 DEF IInv, Types
<1>4. left' \in [Readers -> Nat] /\ left'[p] = n - len
  BY <1>2, <1>3 DEF IInv, Types
<1>5. ASSUME NEW r \in Readers, r # p, state[r] = "sleeping"
      PROVE  p_rpos' = p_wpos'
  <2>1. p_rpos = p_wpos /\ p_rpos \in Nat
    BY <1>5 DEF IInv, Types, NoLostReader
  <2>2. len = 0
    BY <1>1, <2>1
  <2> QED
    BY <1>2, <2>1, <2>2
<1>6. CASE n - len = 0
  <2>1. /\ wait_queue' = q
        /\ state' = [state EXCEPT ![p] = IF p \in exiting THEN "zombie" ELSE "runnable"]
    BY <1>4, <1>6 DEF ReadLoop, TrapEnd
  <2>2. Types'
    BY <1>3, <1>4, <2>1 DEF IInv, Types
  <2>3. NoLostReader'
    BY <1>5, <2>1 DEF IInv, Types, NoLostReader
  <2>4. NoDanglingWait'
    BY <1>2, <2>1 DEF IInv, Types, NoDanglingWait
  <2> QED
    BY <2>2, <2>3, <2>4 DEF IInv
<1>7. CASE n - len # 0
  <2>1. /\ wait_queue' = Append(q, p)
        /\ state' = [state EXCEPT ![p] = "sleeping"]
    BY <1>4, <1>7 DEF ReadLoop
  <2>2. /\ wait_queue' \in Seq(Readers) /\ IsInjective(wait_queue')
        /\ ToSet(wait_queue') = ToSet(wait_queue) \cup {p}
    BY <2>1, AppendNew
  <2>3. Types'
    BY <1>3, <1>4, <2>1, <2>2 DEF IInv, Types
  <2>4. p_rpos' = p_wpos'
    BY <1>1, <1>2, <1>7 DEF IInv, Types
  <2>5. NoDanglingWait'
    <3>1. /\ left'[p] > 0 /\ state'[p] = "sleeping"
          /\ \A r \in Readers : r # p => left'[r] = left[r] /\ state'[r] = state[r]
      BY <1>2, <1>3, <1>4, <1>7, <2>1 DEF IInv, Types
    <3>2. ToSet(wait_queue) \subseteq Readers
      BY DEF IInv, Types, ToSet
    <3>3. \A r \in ToSet(wait_queue') : left'[r] > 0 /\ state'[r] # "zombie"
      BY <2>2, <3>1, <3>2 DEF IInv, NoDanglingWait
    <3>4. \A r \in Readers : state'[r] = "sleeping" => r \in ToSet(wait_queue')
      BY <2>2, <3>1 DEF IInv, NoDanglingWait
    <3> QED
      BY <2>2, <3>3, <3>4 DEF NoDanglingWait
  <2> QED
    BY <2>3, <2>4, <2>5 DEF IInv, NoLostReader
<1> QED
  BY <1>6, <1>7

\* The start: nobody sleeps and the queue is empty.
LEMMA InitIInv == Init => IInv
<1> SUFFICES ASSUME Init PROVE IInv
  OBVIOUS
<1>1. wait_queue \in Seq(Readers) /\ ToSet(wait_queue) = {} /\ IsInjective(wait_queue)
  BY DEF Init, ToSet, IsInjective
<1> QED
  BY <1>1 DEF Init, IInv, Types, NoLostReader, NoDanglingWait

\* Each step keeps the invariant.
LEMMA NextIInv == IInv /\ [Next]_vars => IInv'
<1> SUFFICES ASSUME IInv, [Next]_vars PROVE IInv'
  OBVIOUS
<1>1. CASE Key
  <2>1. /\ wait_queue' = <<>> /\ left' = left /\ p_rpos' = p_rpos
        /\ p_wpos' \in {p_wpos, p_wpos + 1}
        /\ state' = [r \in Readers |-> IF r \in ToSet(wait_queue) THEN "runnable" ELSE state[r]]
    BY <1>1 DEF Key, Advance, WakeupQueue
  <2>2. \A r \in Readers : state'[r] # "sleeping"
    BY <2>1 DEF IInv, NoDanglingWait
  <2>3. wait_queue' \in Seq(Readers) /\ ToSet(wait_queue') = {} /\ IsInjective(wait_queue')
    BY <2>1 DEF ToSet, IsInjective
  <2>4. Types'
    BY <2>1, <2>3 DEF IInv, Types
  <2> QED
    BY <2>2, <2>3, <2>4 DEF IInv, NoLostReader, NoDanglingWait
<1>2. ASSUME NEW p \in Readers, NEW n \in 1 .. MaxRead, Read(p, n)
      PROVE  IInv'
  <2>1. p \notin ToSet(wait_queue) /\ state[p] = "runnable"
    BY <1>2 DEF Read, InUserMode, IInv, NoDanglingWait
  <2>2. wait_queue \in Seq(Readers) /\ IsInjective(wait_queue)
    BY DEF IInv, Types, NoDanglingWait
  <2>3. n \in Nat \ {0} /\ ReadLoop(p, n, wait_queue)
    BY <1>2, StdinAssumption DEF Read
  <2> QED
    BY <2>1, <2>2, <2>3, ReadLoopKeeps
<1>3. ASSUME NEW p \in Readers, Resume(p)
      PROVE  IInv'
  <2> DEFINE q == WaitCurrentDel(p)
  <2>1. /\ q \in Seq(Readers) /\ IsInjective(q)
        /\ ToSet(q) = ToSet(wait_queue) \ {p}
    BY RemoveOne DEF WaitCurrentDel, IInv, Types, NoDanglingWait
  <2>2. state[p] = "runnable" /\ left[p] \in Nat \ {0}
    BY <1>3 DEF Resume, IInv, Types
  <2>3. CASE wakeup_flags[p] = "WT_KBD"
    <3>1. ReadLoop(p, left[p], q)
      BY <1>3, <2>3 DEF Resume
    <3> QED
      BY <2>1, <2>2, <3>1, ReadLoopKeeps
  <2>4. CASE wakeup_flags[p] # "WT_KBD"
    <3>1. /\ wait_queue' = q /\ left' = [left EXCEPT ![p] = 0]
          /\ state' = [state EXCEPT ![p] = IF p \in exiting THEN "zombie" ELSE "runnable"]
          /\ p_rpos' = p_rpos /\ p_wpos' = p_wpos
      BY <1>3, <2>4 DEF Resume, TrapEnd
    <3>2. Types' /\ NoLostReader'
      BY <2>1, <3>1 DEF IInv, Types, NoLostReader
    <3>3. NoDanglingWait'
      BY <2>1, <3>1 DEF IInv, Types, NoDanglingWait
    <3> QED
      BY <3>2, <3>3 DEF IInv
  <2> QED
    BY <2>3, <2>4
<1>4. ASSUME NEW p \in Readers, Kill(p)
      PROVE  IInv'
  BY <1>4 DEF Kill, IInv, Types, NoLostReader, NoDanglingWait
<1>5. ASSUME NEW p \in Readers, Exit(p)
      PROVE  IInv'
  BY <1>5 DEF Exit, InUserMode, IInv, Types, NoLostReader, NoDanglingWait
<1>6. CASE UNCHANGED vars
  BY <1>6 DEF vars, IInv, Types, NoLostReader, NoDanglingWait
<1> QED
  BY <1>1, <1>2, <1>3, <1>4, <1>5, <1>6 DEF Next

\* dev_stdin.c and wait.c keep the invariant in every run.
THEOREM StdinInvariant == Spec => []IInv
<1> QED
  BY InitIInv, NextIInv, PTL DEF Spec

\* No reader sleeps in dev_stdin_read while there are characters in the buffer.
THEOREM NoReaderIsLost == Spec => []NoLostReader
<1>1. IInv => NoLostReader
  BY DEF IInv
<1> QED
  BY <1>1, StdinInvariant, PTL

\* The wait queue holds the waits of readers inside dev_stdin_read, and of every sleeper.
THEOREM NoWaitDangles == Spec => []NoDanglingWait
<1>1. IInv => NoDanglingWait
  BY DEF IInv
<1> QED
  BY <1>1, StdinInvariant, PTL

-----------------------------------------------------------------------------

(***************************************************************************)
(* The refinement: the ring buffer is a queue.                             *)
(***************************************************************************)

\* The variables of KeyBuffer, and that the ring does not run over.
RingInv ==
    /\ stdin_buffer \in [0 .. STDIN_BUFSIZE - 1 -> Nat]
    /\ received \in [Readers -> Seq(Nat)]
    /\ typed \in Nat
    /\ p_wpos - p_rpos <= STDIN_BUFSIZE

\* Two positions that are less than the size of the buffer apart have cells of their own.
LEMMA CellsDiffer ==
    ASSUME NEW B \in Nat \ {0}, NEW a \in Nat, NEW b \in Nat, a <= b, b < a + B,
           a % B = b % B
    PROVE  a = b
<1> DEFINE i == a \div B
           j == b \div B
<1>1. i \in Int /\ j \in Int /\ a = B * i + (a % B) /\ b = B * j + (b % B)
  OBVIOUS
<1>2. b - a = B * (j - i)
  BY <1>1
<1>3. ~(j - i >= 1)
  BY <1>1, <1>2
<1>4. ~(j - i <= -1)
  BY <1>1, <1>2
<1> QED
  BY <1>1, <1>2, <1>3, <1>4

\* A round of the buffer ends where it began.
LEMMA CellAgain ==
    ASSUME NEW B \in Nat \ {0}, NEW a \in Nat
    PROVE  (a + B) % B = a % B
<1> DEFINE i == a \div B
           j == (a + B) \div B
<1>1. /\ i \in Int /\ j \in Int /\ a = B * i + (a % B) /\ a + B = B * j + ((a + B) % B)
      /\ a % B \in 0 .. B - 1 /\ (a + B) % B \in 0 .. B - 1
  OBVIOUS
<1>2. (a % B) - ((a + B) % B) = B * (j - i - 1)
  BY <1>1
<1>3. ~(j - i - 1 >= 1)
  BY <1>1, <1>2
<1>4. ~(j - i - 1 <= -1)
  BY <1>1, <1>2
<1> QED
  BY <1>1, <1>2, <1>3, <1>4

\* A position has a cell.
LEMMA CellExists ==
    ASSUME NEW B \in Nat \ {0}, NEW a \in Nat
    PROVE  a % B \in 0 .. B - 1
OBVIOUS

\* The buffer as a sequence.
LEMMA BufferedIsSeq ==
    ASSUME IInv, RingInv
    PROVE  /\ Buffered \in Seq(Nat)
           /\ Len(Buffered) = p_wpos - p_rpos
           /\ \A i \in 1 .. p_wpos - p_rpos :
                Buffered[i] = stdin_buffer[(p_rpos + i - 1) % STDIN_BUFSIZE]
<1>1. p_wpos - p_rpos \in Nat
  BY DEF IInv, Types
<1>2. \A i \in 1 .. p_wpos - p_rpos :
        (p_rpos + i - 1) % STDIN_BUFSIZE \in 0 .. STDIN_BUFSIZE - 1
  BY CellExists, StdinAssumption DEF IInv, Types
<1>3. Buffered \in [1 .. p_wpos - p_rpos -> Nat]
  BY <1>2 DEF Buffered, RingInv
<1> QED
  BY <1>1, <1>3 DEF Buffered

\* dev_stdin_write puts the key behind the others, or in the place of the oldest.
LEMMA KeyIsPromised ==
    ASSUME IInv, RingInv, Key
    PROVE  Promise!Key /\ RingInv'
<1> DEFINE n == p_wpos - p_rpos
           B == STDIN_BUFSIZE
           cell == p_wpos % B
<1>1. /\ n \in 0 .. B /\ B \in Nat \ {0} /\ p_rpos \in Nat /\ p_wpos \in Nat
      /\ p_wpos = p_rpos + n
  BY StdinAssumption DEF IInv, Types, RingInv
<1>2. /\ typed' = typed + 1 /\ typed < MaxTyped
      /\ stdin_buffer' = [stdin_buffer EXCEPT ![cell] = typed']
      /\ p_wpos' = IF n < B THEN p_wpos + 1 ELSE p_wpos
      /\ p_rpos' = p_rpos /\ received' = received
  BY DEF Key, Advance
<1>3. cell \in 0 .. B - 1
  BY <1>1, CellExists
<1>4. RingInv'
  <2>1. typed' \in Nat
    BY <1>2 DEF RingInv
  <2>2. stdin_buffer' \in [0 .. B - 1 -> Nat]
    BY <1>2, <2>1 DEF RingInv
  <2>3. p_wpos' - p_rpos' <= B
    BY <1>1, <1>2
  <2> QED
    BY <1>2, <2>1, <2>2, <2>3 DEF RingInv
<1>5. /\ Buffered \in Seq(Nat) /\ Len(Buffered) = n
      /\ \A i \in 1 .. n : Buffered[i] = stdin_buffer[(p_rpos + i - 1) % B]
  BY BufferedIsSeq
<1>6. p_wpos' - p_rpos' \in 0 .. B
  BY <1>1, <1>2
<1>7. /\ Buffered' \in Seq(Nat) /\ Len(Buffered') = p_wpos' - p_rpos'
      /\ \A i \in 1 .. p_wpos' - p_rpos' :
            Buffered'[i] = stdin_buffer'[(p_rpos + i - 1) % B]
  <2>1. \A i \in 1 .. p_wpos' - p_rpos' : (p_rpos' + i - 1) % B \in 0 .. B - 1
    BY <1>1, <1>2, <1>6, CellExists
  <2>2. Buffered' \in [1 .. p_wpos' - p_rpos' -> Nat]
    BY <1>4, <2>1 DEF Buffered, RingInv
  <2>3. Buffered' \in Seq(Nat) /\ Len(Buffered') = p_wpos' - p_rpos'
    <3> DEFINE k == p_wpos' - p_rpos'
    <3>1. k \in Nat /\ Buffered' \in [1 .. k -> Nat]
      BY <1>6, <2>2, <1>1
    <3> HIDE DEF k
    <3>2. Buffered' \in Seq(Nat) /\ Len(Buffered') = k
      BY <3>1
    <3> QED
      BY <3>2 DEF k
  <2>4. p_rpos' = p_rpos
    BY <1>2
  <2> QED
    BY <2>3, <2>4 DEF Buffered
<1>8. \A i \in 1 .. B : (p_rpos + i - 1) % B \in 0 .. B - 1
  BY <1>1, CellExists
<1> HIDE DEF n, B, cell
<1>9. CASE n < B
  <2>1. \A i \in 1 .. n : (p_rpos + i - 1) % B # cell
    <3> SUFFICES ASSUME NEW i \in 1 .. n, (p_rpos + i - 1) % B = p_wpos % B PROVE FALSE
      BY DEF cell
    <3>1. /\ p_rpos + i - 1 \in Nat /\ p_rpos + i - 1 <= p_wpos
          /\ p_wpos < p_rpos + i - 1 + B
      BY <1>1, <1>9
    <3>2. p_rpos + i - 1 = p_wpos
      BY <1>1, <3>1, CellsDiffer
    <3> QED
      BY <1>1, <3>2
  <2>2. p_wpos' - p_rpos' = n + 1
    BY <1>1, <1>2, <1>9
  <2>3. \A i \in 1 .. n : Buffered'[i] = Buffered[i]
    <3> TAKE i \in 1 .. n
    <3>1. i \in 1 .. n + 1 /\ i \in 1 .. B
      BY <1>1, <1>9
    <3>2. Buffered'[i] = stdin_buffer'[(p_rpos + i - 1) % B]
      BY <1>7, <2>2, <3>1
    <3>3. stdin_buffer'[(p_rpos + i - 1) % B] = stdin_buffer[(p_rpos + i - 1) % B]
      BY <1>2, <1>8, <2>1, <3>1 DEF RingInv, B
    <3> QED
      BY <1>5, <3>2, <3>3
  <2>4. Buffered'[n + 1] = typed'
    <3>1. p_rpos + (n + 1) - 1 = p_wpos
      BY <1>1
    <3> QED
      BY <1>1, <1>2, <1>3, <1>7, <2>2, <3>1 DEF RingInv, B, cell
  <2>5. Buffered' = Append(Buffered, typed')
    BY <1>1, <1>5, <1>7, <2>2, <2>3, <2>4
  <2> QED
    BY <1>2, <1>4, <1>5, <1>9, <2>5 DEF Promise!Key, B
<1>10. CASE n = B
  <2>1. p_wpos' - p_rpos' = n
    BY <1>1, <1>2, <1>10
  <2>2. cell = p_rpos % B
    <3>1. p_wpos = p_rpos + B
      BY <1>1, <1>10
    <3> QED
      BY <1>1, <3>1, CellAgain DEF cell
  <2>3. \A i \in 2 .. n : (p_rpos + i - 1) % B # cell
    <3> SUFFICES ASSUME NEW i \in 2 .. n, p_rpos % B = (p_rpos + i - 1) % B PROVE FALSE
      BY <2>2
    <3>1. /\ p_rpos + i - 1 \in Nat /\ p_rpos <= p_rpos + i - 1
          /\ p_rpos + i - 1 < p_rpos + B
      BY <1>1, <1>10
    <3>2. p_rpos = p_rpos + i - 1
      BY <1>1, <3>1, CellsDiffer
    <3> QED
      BY <1>1, <3>2
  <2>4. \A i \in 2 .. n : Buffered'[i] = Buffered[i]
    BY <1>1, <1>2, <1>5, <1>7, <1>8, <1>10, <2>1, <2>3 DEF RingInv, B
  <2>5. Buffered'[1] = typed'
    <3>1. p_rpos + 1 - 1 = p_rpos
      BY <1>1
    <3> QED
      BY <1>1, <1>2, <1>3, <1>7, <1>10, <2>1, <2>2, <3>1 DEF RingInv, B
  <2>6. Buffered' = [Buffered EXCEPT ![1] = typed']
    <3>1. \A i \in 1 .. n : Buffered'[i] = IF i = 1 THEN typed' ELSE Buffered[i]
      BY <1>1, <2>4, <2>5
    <3>2. DOMAIN Buffered = 1 .. n /\ DOMAIN Buffered' = 1 .. n
      BY <1>5, <1>7, <2>1
    <3>3. /\ Buffered = [i \in 1 .. n |-> Buffered[i]]
          /\ Buffered' = [i \in 1 .. n |-> Buffered'[i]]
      BY <1>5, <1>7, <3>2
    <3> QED
      BY <3>1, <3>2, <3>3
  <2> QED
    BY <1>2, <1>4, <1>5, <1>10, <2>6 DEF Promise!Key, B
<1> QED
  BY <1>1, <1>9, <1>10

\* A pass of the loop of dev_stdin_read takes characters from the front of the buffer.
LEMMA ReadLoopIsPromised ==
    ASSUME IInv, RingInv, NEW p \in Readers, NEW n \in Nat \ {0}, NEW q, ReadLoop(p, n, q)
    PROVE  /\ Promise!Next \/ UNCHANGED <<typed, Buffered, received>>
           /\ RingInv'
<1> DEFINE all == p_wpos - p_rpos
           m == IF n <= all THEN n ELSE all
           taken == SubSeq(Buffered, 1, m)
<1>1. all \in Nat /\ m \in 0 .. all /\ p_rpos \in Nat /\ p_wpos \in Nat
  BY DEF IInv, Types
<1>2. /\ Buffered \in Seq(Nat) /\ Len(Buffered) = all
      /\ \A i \in 1 .. all : Buffered[i] = stdin_buffer[(p_rpos + i - 1) % STDIN_BUFSIZE]
  BY BufferedIsSeq
<1>3. Min({n, Len(Buffered)}) = m
  BY <1>1, <1>2 DEF Min
<1>4. taken \in Seq(Nat) /\ Len(taken) = m
  BY <1>1, <1>2, SubSeqProperties
<1>5. /\ p_rpos' = p_rpos + m /\ p_wpos' = p_wpos /\ typed' = typed
      /\ stdin_buffer' = stdin_buffer
      /\ received' = [received EXCEPT ![p] = @ \o taken]
  BY <1>3, <1>4 DEF ReadLoop
<1>6. RingInv'
  <2>1. received[p] \o taken \in Seq(Nat)
    BY <1>4, ConcatProperties DEF RingInv
  <2>2. received' \in [Readers -> Seq(Nat)]
    BY <1>5, <2>1 DEF RingInv
  <2>3. p_wpos' - p_rpos' <= STDIN_BUFSIZE
    BY <1>1, <1>5, StdinAssumption DEF RingInv
  <2> QED
    BY <1>5, <2>2, <2>3 DEF RingInv
<1> HIDE DEF all, m, taken
<1>7. /\ p_wpos' - p_rpos' = all - m
      /\ \A i \in 1 .. all - m : p_rpos' + i - 1 = p_rpos + (m + i) - 1
  BY <1>1, <1>5 DEF all
<1>8. Buffered' = SubSeq(Buffered, m + 1, Len(Buffered))
  <2> DEFINE rest == SubSeq(Buffered, m + 1, all)
  <2>1. /\ rest \in Seq(Nat) /\ Len(rest) = all - m
        /\ \A i \in 1 .. all - m : rest[i] = Buffered[m + i]
    <3>1. m + 1 \in 1 .. all + 1 /\ all \in m .. Len(Buffered)
      BY <1>1, <1>2
    <3>2. rest \in Seq(Nat)
      BY <1>1, <1>2, <3>1, SubSeqProperties
    <3>3. Len(rest) = all - m
      BY <1>1, <1>2, <3>1, SubSeqProperties
    <3>4. \A i \in 1 .. all - m : rest[i] = Buffered[m + i]
      BY <1>1, <1>2, <3>1, SubSeqProperties
    <3> QED
      BY <3>2, <3>3, <3>4
  <2> HIDE DEF rest
  <2>2. Buffered' = [i \in 1 .. all - m |-> stdin_buffer[(p_rpos + (m + i) - 1) % STDIN_BUFSIZE]]
    BY <1>5, <1>7 DEF Buffered
  <2>3. \A i \in 1 .. all - m : rest[i] = stdin_buffer[(p_rpos + (m + i) - 1) % STDIN_BUFSIZE]
    <3> TAKE i \in 1 .. all - m
    <3>1. m + i \in 1 .. all
      BY <1>1
    <3>2. rest[i] = Buffered[m + i]
      BY <2>1
    <3> QED
      BY <1>2, <3>1, <3>2
  <2>4. rest = [i \in 1 .. all - m |-> rest[i]]
    BY <1>1, <2>1
  <2>5. rest = Buffered'
    BY <2>2, <2>3, <2>4
  <2> QED
    BY <1>2, <2>5 DEF rest
<1>9. CASE m = 0
  <2>1. Buffered' = Buffered
    BY <1>1, <1>2, <1>8, <1>9, SubSeqFull
  <2>2. received' = received
    <3>1. taken = <<>>
      BY <1>4, <1>9, EmptySeq
    <3>2. received[p] \o taken = received[p]
      BY <3>1, ConcatEmptySeq DEF RingInv
    <3> QED
      BY <1>5, <3>2 DEF RingInv
  <2> QED
    BY <1>5, <1>6, <2>1, <2>2
<1>10. CASE m # 0
  <2>1. m \in 1 .. Len(Buffered)
    BY <1>1, <1>2, <1>10
  <2>2. Promise!Take(p, m)
    BY <1>5, <1>8 DEF Promise!Take, taken
  <2> QED
    BY <1>6, <2>1, <2>2 DEF Promise!Next
<1> QED
  BY <1>9, <1>10

\* The kernel starts with an empty buffer.
LEMMA InitRing == Init => RingInv /\ Promise!Init
<1> SUFFICES ASSUME Init PROVE RingInv /\ Promise!Init
  OBVIOUS
<1>1. RingInv
  BY StdinAssumption, EmptySeq DEF Init, RingInv
<1>2. Buffered = <<>>
  BY DEF Init, Buffered
<1> QED
  BY <1>1, <1>2 DEF Init, Promise!Init

\* Every step is one of KeyBuffer, or none.
LEMMA NextIsPromised ==
    ASSUME IInv, RingInv, [Next]_vars
    PROVE  /\ Promise!Next \/ UNCHANGED <<typed, Buffered, received>>
           /\ RingInv'
<1>1. CASE Key
  BY <1>1, KeyIsPromised DEF Promise!Next
<1>2. ASSUME NEW p \in Readers, NEW n \in 1 .. MaxRead, Read(p, n)
      PROVE  /\ Promise!Next \/ UNCHANGED <<typed, Buffered, received>>
             /\ RingInv'
  <2>1. n \in Nat \ {0} /\ ReadLoop(p, n, wait_queue)
    BY <1>2, StdinAssumption DEF Read
  <2> QED
    BY <2>1, ReadLoopIsPromised
<1>3. ASSUME NEW p \in Readers, Resume(p)
      PROVE  /\ Promise!Next \/ UNCHANGED <<typed, Buffered, received>>
             /\ RingInv'
  <2>1. CASE wakeup_flags[p] = "WT_KBD"
    <3>1. left[p] \in Nat \ {0} /\ ReadLoop(p, left[p], WaitCurrentDel(p))
      BY <1>3, <2>1 DEF Resume, IInv, Types
    <3> QED
      BY <3>1, ReadLoopIsPromised
  <2>2. CASE wakeup_flags[p] # "WT_KBD"
    BY <1>3, <2>2 DEF Resume, RingInv, Buffered
  <2> QED
    BY <2>1, <2>2
<1>4. ASSUME NEW p \in Readers, Kill(p) \/ Exit(p)
      PROVE  /\ Promise!Next \/ UNCHANGED <<typed, Buffered, received>>
             /\ RingInv'
  BY <1>4 DEF Kill, Exit, RingInv, Buffered
<1>5. CASE UNCHANGED vars
  BY <1>5 DEF vars, RingInv, Buffered
<1> QED
  BY <1>1, <1>2, <1>3, <1>4, <1>5 DEF Next

\* The ring buffer of dev_stdin.c is the queue of KeyBuffer: each character is handed out
\* once, in order, to the reader that takes it.
THEOREM StdinImplementsKeyBuffer == Spec => ImplementsKeyBuffer
<1>1. Init => RingInv /\ Promise!Init
  BY InitRing
<1>2. IInv /\ RingInv /\ [Next]_vars
        => RingInv' /\ [Promise!Next]_<<typed, Buffered, received>>
  BY NextIsPromised
<1> QED
  BY <1>1, <1>2, StdinInvariant, PTL DEF Spec, ImplementsKeyBuffer, Promise!Spec
=============================================================================
