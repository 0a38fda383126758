--------------------------- MODULE PidAllocProof ---------------------------
(***************************************************************************)
(* For every MAX_PROCESS and MAX_PID: get_pid never hands out a pid in     *)
(* use, and picks the first free one after the last (PidNextFit).          *)
(***************************************************************************)
EXTENDS PidAlloc, TLAPS

\* The boot state, with an empty proc_list and last_pid = MAX_PID, satisfies
\* the invariant.
LEMMA InitEstablishes == Init => IInv
  BY PidAssumption
     DEF Init, IInv, TypeOK, FreeGap, ScanPrefix, PidUnique, Skipped, Settled, Pids

\* Entering get_pid: either the incremented pid is in the gap known to be
\* free, or a scan starts with nothing visited.
LEMMA EnterPreserves == IInv /\ Enter => IInv'
  <1> SUFFICES ASSUME IInv, Enter PROVE IInv'
    OBVIOUS
  <1> USE PidAssumption
  <1>4. last_pid \in Nat /\ next_safe \in Nat /\ MAX_PID \in Nat
    BY DEF IInv, TypeOK
  <1>1. CASE last_pid + 1 >= MAX_PID
    BY <1>1 DEF IInv, TypeOK, FreeGap, ScanPrefix, PidUnique, Skipped, Settled, Pids, Enter
  <1>2. CASE last_pid + 1 < MAX_PID /\ last_pid + 1 >= next_safe
    BY <1>2 DEF IInv, TypeOK, FreeGap, ScanPrefix, PidUnique, Skipped, Settled, Pids, Enter
  <1>3. CASE last_pid + 1 < MAX_PID /\ last_pid + 1 < next_safe
    <2>1. /\ pc = "out" /\ pc' = "ret" /\ last_pid' = last_pid + 1
          /\ UNCHANGED <<live, next_safe, todo, prev>>
      BY <1>3, <1>4 DEF Enter
    <2>2. TypeOK' /\ ScanPrefix' /\ Settled'
      BY <1>3, <1>4, <2>1 DEF IInv, TypeOK, ScanPrefix, Settled, Pids
    <2>3. FreeGap' /\ PidUnique'
      BY <1>3, <1>4, <2>1 DEF IInv, TypeOK, FreeGap, PidUnique, Pids
    <2>4. Skipped'
      BY <1>3, <1>4, <2>1 DEF IInv, TypeOK, Settled, Skipped, Pids
    <2> QED BY <2>2, <2>3, <2>4 DEF IInv
  <1> QED BY <1>1, <1>2, <1>3, <1>4

\* One iteration of the loop keeps what is known of the visited processes.
LEMMA VisitPreserves ==
  ASSUME NEW p \in Pids PROVE IInv /\ Visit(p) => IInv'
  <1> SUFFICES ASSUME IInv, Visit(p) PROVE IInv'
    OBVIOUS
  <1> USE PidAssumption
  <1>1. CASE VisitTaken(p) /\ last_pid + 1 >= next_safe
    BY <1>1 DEF IInv, TypeOK, FreeGap, ScanPrefix, PidUnique, Skipped, Settled, Pids,
                Visit, VisitTaken
  <1>2. CASE VisitTaken(p) /\ ~(last_pid + 1 >= next_safe)
    <2>1. /\ pc = "scan" /\ pc' = "scan" /\ p = last_pid /\ p \in todo
          /\ last_pid' = last_pid + 1 /\ todo' = todo \ {p}
          /\ UNCHANGED <<live, next_safe, prev>>
      BY <1>2 DEF Visit, VisitTaken
    <2>2. last_pid \in Nat /\ next_safe \in Nat /\ last_pid + 1 < next_safe
      BY <1>2 DEF IInv, TypeOK
    <2>3. TypeOK' /\ FreeGap' /\ PidUnique' /\ Settled'
      BY <2>1, <2>2 DEF IInv, TypeOK, FreeGap, PidUnique, Settled, Pids
    <2>4. ScanPrefix'
      <3>1. ASSUME NEW q \in live', q \notin todo'
            PROVE  q # last_pid' /\ ~(last_pid' < q /\ q < next_safe')
        <4>1. q \in Nat /\ q \in live
          BY <2>1, <3>1 DEF IInv, TypeOK, Pids
        <4>2. CASE q = last_pid
          BY <2>1, <2>2, <4>2
        <4>3. CASE q \notin todo
          <5>1. q # last_pid /\ ~(last_pid < q /\ q < next_safe)
            BY <2>1, <4>1, <4>3 DEF IInv, ScanPrefix
          <5> QED BY <2>1, <2>2, <4>1, <5>1
        <4> QED BY <2>1, <3>1, <4>2, <4>3
      <3> QED BY <2>1, <2>2, <3>1 DEF ScanPrefix
    <2>5. Skipped'
      BY <2>1, <2>2 DEF IInv, TypeOK, Skipped, Pids
    <2> QED BY <2>3, <2>4, <2>5 DEF IInv
  <1>3. CASE VisitOther(p)
    BY <1>3 DEF IInv, TypeOK, FreeGap, ScanPrefix, PidUnique, Skipped, Settled, Pids,
                Visit, VisitOther
  <1> QED BY <1>1, <1>2, <1>3 DEF Visit

\* The end of the scan: what was known of the visited part is known of all.
LEMMA ScanEndPreserves == IInv /\ ScanEnd => IInv'
  BY PidAssumption
     DEF IInv, TypeOK, FreeGap, ScanPrefix, PidUnique, Skipped, Settled, Pids, ScanEnd

\* do_fork's link of the new process leaves the gap behind it empty.
LEMMA ReturnPreserves == IInv /\ Return => IInv'
  <1> SUFFICES ASSUME IInv, Return PROVE IInv'
    OBVIOUS
  <1>1. /\ last_pid \in Pids /\ last_pid \in Nat /\ next_safe \in Nat
        /\ live' = live \cup {last_pid} /\ pc' = "out" /\ prev' = last_pid
        /\ UNCHANGED <<last_pid, next_safe, todo>>
    BY DEF IInv, TypeOK, PidUnique, Return, Pids
  <1>2. TypeOK'
    BY <1>1 DEF IInv, TypeOK, Pids
  <1>3. FreeGap'
    <2>1. \A q \in live : ~(last_pid < q /\ q < next_safe)
      BY DEF IInv, FreeGap, Return
    <2>2. ~(last_pid < last_pid)
      BY <1>1
    <2> QED BY <1>1, <2>1, <2>2, Zenon DEF FreeGap
  <1>4. ScanPrefix' /\ PidUnique' /\ Skipped'
    BY <1>1 DEF ScanPrefix, PidUnique, Skipped
  <1>5. Settled'
    BY <1>1 DEF IInv, Settled, Return
  <1> QED BY <1>5, <1>2, <1>3, <1>4 DEF IInv

\* Reaping a process can only widen the gap.
LEMMA ReapPreserves ==
  ASSUME NEW p \in Pids PROVE IInv /\ Reap(p) => IInv'
  BY PidAssumption
     DEF IInv, TypeOK, FreeGap, ScanPrefix, PidUnique, Skipped, Settled, Pids, Reap

LEMMA StutterPreserves == IInv /\ UNCHANGED vars => IInv'
  BY DEF IInv, TypeOK, FreeGap, ScanPrefix, PidUnique, Skipped, Settled, Pids, vars

\* The invariant of get_pid: the gap (last_pid, next_safe) holds no pid in
\* use between calls, and the visited part of the list respects it in a scan.
THEOREM GetPidInvariant == Spec => []IInv
  <1>1. Init => IInv
    BY InitEstablishes
  <1>2. IInv /\ [Next]_vars => IInv'
    <2> SUFFICES ASSUME IInv, [Next]_vars PROVE IInv'
      OBVIOUS
    <2>1. CASE Enter
      BY <2>1, EnterPreserves
    <2>2. ASSUME NEW p \in Pids, Visit(p) PROVE IInv'
      BY <2>2, VisitPreserves
    <2>3. CASE ScanEnd
      BY <2>3, ScanEndPreserves
    <2>4. CASE Return
      BY <2>4, ReturnPreserves
    <2>5. ASSUME NEW p \in Pids, Reap(p) PROVE IInv'
      BY <2>5, ReapPreserves
    <2>6. CASE UNCHANGED vars
      BY <2>6, StutterPreserves
    <2> QED
      BY <2>1, <2>2, <2>3, <2>4, <2>5, <2>6 DEF Next, Call
  <1> QED
    BY <1>1, <1>2, PTL DEF Spec

\* The pid a call returns is in 1 .. MAX_PID - 1 and belongs to no process
\* on proc_list, whatever came and went since next_safe was computed.
THEOREM GetPidUnique == Spec => []PidUnique
  <1>1. IInv => PidUnique
    BY DEF IInv
  <1> QED
    BY <1>1, GetPidInvariant, PTL

\* The return of a call is a Hand step of the next-fit specification, a
\* reap is its Reap step, and the steps of the scan are invisible to it.
LEMMA StepRefines == IInv /\ [Next]_vars => [NextFit!Next]_(NextFit!vars)
  <1> SUFFICES ASSUME IInv, [Next]_vars PROVE [NextFit!Next]_(NextFit!vars)
    OBVIOUS
  <1>1. CASE Return
    <2>1. last_pid \in NextFit!Pids
      BY <1>1 DEF Return, IInv, PidUnique, Pids, NextFit!Pids
    <2>2. NextFit!FirstFreeAfterPrev(last_pid)
      BY <1>1 DEF Return, IInv, Skipped, Pids, NextFit!Pids, NextFit!FirstFreeAfterPrev
    <2>3. NextFit!Hand(last_pid)
      BY <1>1, <2>2 DEF Return, IInv, PidUnique, NextFit!Hand
    <2> QED BY <2>1, <2>3 DEF NextFit!Next
  <1>2. ASSUME NEW p \in Pids, Reap(p) PROVE NextFit!Next
    BY <1>2 DEF Reap, NextFit!Reap, NextFit!Next, Pids, NextFit!Pids
  <1>3. CASE Enter \/ ScanEnd \/ (\E p \in Pids : Visit(p)) \/ UNCHANGED vars
    BY <1>3 DEF Enter, ScanEnd, Visit, vars, NextFit!vars
  <1> QED
    BY <1>1, <1>2, <1>3 DEF Next, Call

\* get_pid implements PidNextFit: unique, and first fit after the last pid.
THEOREM GetPidImplementsNextFit == Spec => ImplementsNextFit
  <1>1. Init => NextFit!Init
    BY DEF Init, NextFit!Init
  <1> QED
    BY <1>1, StepRefines, GetPidInvariant, PTL DEF Spec, ImplementsNextFit, NextFit!Spec
=============================================================================
