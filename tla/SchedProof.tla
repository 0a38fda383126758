----------------------------- MODULE SchedProof -----------------------------
(***************************************************************************)
(* Proofs about Sched, for every finite set of processes and any           *)
(* semaphores: no assertion fails, the run queue, the timer list and the   *)
(* wait queues agree with the processes, no wakeup is lost, sleeps end on  *)
(* time, and units are conserved and handed out in order.                  *)
(***************************************************************************)
EXTENDS Sched, ListLemmas, FiniteSetTheorems

Timers == [proc : Procs, expires : Nat]

-----------------------------------------------------------------------------

(***************************************************************************)
(* The timer list.                                                         *)
(***************************************************************************)

\* The differences of list l count down to what `due' says of each process,
\* and each process has one timer at most.
Counted(l, due) ==
    /\ \A i, j \in 1 .. Len(l) : l[i].proc = l[j].proc => i = j
    /\ \A i \in 1 .. Len(l) :
          l[i].expires = due[l[i].proc] - (IF i = 1 THEN 0 ELSE due[l[i - 1].proc])

Timed(l) == {l[i].proc : i \in 1 .. Len(l)}

\* The sum that add_timer subtracts as it walks along the list.
LEMMA DueEquation ==
    ASSUME NEW l, NEW n \in Nat, n = Len(l)
    PROVE  Due(l, 0) = 0 /\ \A i \in 1 .. n : Due(l, i) = Due(l, i - 1) + l[i].expires
<1> DEFINE Eq(g, m) == g = [j \in 0 .. m |-> IF j = 0 THEN 0 ELSE g[j - 1] + l[j].expires]
           bad == {m \in Nat : ~\E g : Eq(g, m)}
           due == CHOOSE g : Eq(g, n)
<1>1. ASSUME bad # {} PROVE FALSE
  <2> DEFINE m == Min(bad)
  <2>1. m \in bad /\ \A j \in bad : m <= j
    BY <1>1, LeastOfNat
  <2>2. m # 0
    <3>1. Eq([j \in 0 .. 0 |-> 0], 0)
      OBVIOUS
    <3> QED
      BY <2>1, <3>1
  <2> HIDE DEF m
  <2>3. m \in Nat /\ m - 1 \in Nat /\ m - 1 \notin bad
    BY <2>1, <2>2
  <2>4. PICK g : Eq(g, m - 1)
    BY <2>3
  <2> DEFINE h == [j \in 0 .. m |-> IF j = 0 THEN 0 ELSE g[j - 1] + l[j].expires]
  <2>5. \A j \in 0 .. m - 1 : h[j] = g[j]
    BY <2>3, <2>4
  <2>6. \A j \in 0 .. m : j # 0 => j - 1 \in 0 .. m - 1
    BY <2>3
  <2>7. \A j \in 0 .. m : j # 0 => h[j - 1] = g[j - 1]
    <3> HIDE DEF h
    <3> QED
      BY <2>5, <2>6
  <2>8. Eq(h, m)
    BY <2>7
  <2> QED
    BY <2>1, <2>8
<1>2. \E g : Eq(g, n)
  BY <1>1
<1>3. Eq(due, n)
  BY <1>2
<1>4. \A i : Due(l, i) = due[i]
  BY DEF Due
<1> HIDE DEF due
<1>5. due[0] = 0 /\ \A i \in 1 .. n : i \in 0 .. n /\ i # 0 /\ due[i] = due[i - 1] + l[i].expires
  BY <1>3
<1> QED
  BY <1>4, <1>5

\* Differences of consecutive values.
LEMMA DifferencesAdd ==
    ASSUME NEW a \in Nat, NEW b \in Nat, NEW c \in Nat, NEW x, NEW y, x = a - b, y = b - c
    PROVE  x + y = a - c
OBVIOUS

LEMMA SameDifference ==
    ASSUME NEW a \in Nat, NEW b \in Nat, NEW x, NEW y, x = a - 1, y = b - 1
    PROVE  x - y = a - b
OBVIOUS

LEMMA TimerTypes ==
    ASSUME NEW l \in Seq(Timers)
    PROVE  /\ Len(l) \in Nat /\ DOMAIN l = 1 .. Len(l)
           /\ \A i \in 1 .. Len(l) : l[i] \in Timers /\ l[i].proc \in Procs /\ l[i].expires \in Nat
<1>1. Len(l) \in Nat /\ DOMAIN l = 1 .. Len(l) /\ \A i \in 1 .. Len(l) : l[i] \in Timers
  BY LenProperties
<1> QED
  BY <1>1 DEF Timers

LEMMA DueIsCounted ==
    ASSUME NEW l \in Seq(Timers), NEW due \in [Procs -> Nat], Counted(l, due)
    PROVE  Due(l, 0) = 0 /\ \A i \in 1 .. Len(l) : Due(l, i) = due[l[i].proc]
<1> DEFINE bad == {i \in 1 .. Len(l) : Due(l, i) # due[l[i].proc]}
<1>1. Due(l, 0) = 0 /\ \A i \in 1 .. Len(l) : Due(l, i) = Due(l, i - 1) + l[i].expires
  BY DueEquation, TimerTypes
<1>2. Len(l) \in Nat /\ \A i \in 1 .. Len(l) : l[i].proc \in Procs /\ l[i].expires \in Nat
  BY TimerTypes
<1>3. ASSUME bad # {} PROVE FALSE
  <2>1. PICK i \in bad : \A j \in bad : i <= j
    <3>1. bad \subseteq Nat
      BY <1>2
    <3> QED
      BY <1>3, <3>1, LeastOfNat
  <2>2. i \in 1 .. Len(l)
    BY <2>1
  <2>3. CASE i = 1
    BY <1>1, <1>2, <2>1, <2>2, <2>3 DEF Counted
  <2>4. CASE i # 1
    <3>1. i - 1 \in 1 .. Len(l) /\ i - 1 \notin bad
      BY <1>2, <2>1, <2>2, <2>4
    <3>2. Due(l, i - 1) = due[l[i - 1].proc]
      BY <3>1
    <3>3. l[i].expires = due[l[i].proc] - due[l[i - 1].proc]
      BY <2>2, <2>4 DEF Counted
    <3> QED
      BY <1>1, <1>2, <2>1, <2>2, <3>1, <3>2, <3>3
  <2> QED
    BY <2>3, <2>4
<1> QED
  BY <1>1, <1>3

\* When the first timer has not expired none has.
LEMMA FirstIsSoonest ==
    ASSUME NEW l \in Seq(Timers), NEW due \in [Procs -> Nat], Counted(l, due),
           Len(l) > 0 => l[1].expires > 0
    PROVE  \A p \in Timed(l) : due[p] > 0
<1> DEFINE bad == {i \in 1 .. Len(l) : due[l[i].proc] = 0}
<1>1. Len(l) \in Nat /\ \A i \in 1 .. Len(l) : l[i].proc \in Procs /\ l[i].expires \in Nat
  BY TimerTypes
<1>2. ASSUME bad # {} PROVE FALSE
  <2>1. PICK i \in bad : \A j \in bad : i <= j
    <3>1. bad \subseteq Nat
      BY <1>1
    <3> QED
      BY <1>2, <3>1, LeastOfNat
  <2>2. i \in 1 .. Len(l) /\ due[l[i].proc] = 0
    BY <2>1
  <2>3. i # 1
    BY <1>1, <2>2 DEF Counted
  <2>4. i - 1 \in 1 .. Len(l) /\ i - 1 \notin bad
    BY <1>1, <2>1, <2>2, <2>3
  <2>5. due[l[i - 1].proc] \in Nat /\ due[l[i - 1].proc] # 0
    BY <1>1, <2>4
  <2> QED
    BY <1>1, <2>2, <2>3, <2>5 DEF Counted
<1> QED
  BY <1>1, <1>2 DEF Timed

LEMMA InsertTimer ==
    ASSUME NEW kk \in KernelStates, NEW due \in [Procs -> Nat], Counted(kk.timer_list, due),
           NEW p \in Procs, p \notin Timed(kk.timer_list), NEW ticks \in Nat \ {0},
           NEW asked, asked = [due EXCEPT ![p] = ticks]
    PROVE  LET r == AddTimer(kk, p, ticks).timer_list IN
           /\ AddTimer(kk, p, ticks) = [kk EXCEPT !.timer_list = r]
           /\ r \in Seq(Timers) /\ Timed(r) = Timed(kk.timer_list) \cup {p}
           /\ Counted(r, asked)
<1> DEFINE l == kk.timer_list
           later == {i \in DOMAIN l : ticks < Due(l, i)}
           n == IF later = {} THEN Len(l) ELSE Min(later) - 1
           delta == ticks - Due(l, n)
           behind == [i \in 1 .. Len(l) - n |->
                        IF i = 1 THEN [l[n + 1] EXCEPT !.expires = @ - delta] ELSE l[n + i]]
           new == [proc |-> p, expires |-> delta]
           r == SubSeq(l, 1, n) \o <<new>> \o behind
           due1 == [due EXCEPT ![p] = ticks]
<1>1. l \in Seq(Timers) /\ kk.ok \in BOOLEAN
  BY DEF KernelStates, Timers
<1>2. AddTimer(kk, p, ticks) = [kk EXCEPT !.timer_list = r]
  <2>1. AddTimer(kk, p, ticks) = [Check(kk, ticks > 0 /\ \A i \in DOMAIN l : l[i].proc # p)
                                     EXCEPT !.timer_list = r]
    BY DEF AddTimer
  <2>2. ticks > 0 /\ \A i \in DOMAIN l : l[i].proc # p
    <3>1. DOMAIN l = 1 .. Len(l)
      BY <1>1, TimerTypes
    <3> QED
      BY <3>1 DEF Timed
  <2>3. Check(kk, ticks > 0 /\ \A i \in DOMAIN l : l[i].proc # p) = kk
    BY <2>2 DEF Check, KernelStates
  <2> HIDE DEF r
  <2> QED
    BY <2>1, <2>3
<1>3. AddTimer(kk, p, ticks).timer_list = r
  <2> HIDE DEF r
  <2> QED
    BY <1>2 DEF KernelStates
<1> HIDE DEF l
<1>4. /\ Len(l) \in Nat /\ DOMAIN l = 1 .. Len(l)
      /\ \A i \in 1 .. Len(l) : l[i] \in Timers /\ l[i].proc \in Procs /\ l[i].expires \in Nat
      /\ \A i \in 1 .. Len(l) : l[i] = [proc |-> l[i].proc, expires |-> l[i].expires]
  <2>1. \A t \in Timers : t = [proc |-> t.proc, expires |-> t.expires]
    BY DEF Timers
  <2> QED
    BY <1>1, <2>1, TimerTypes
<1>5. Due(l, 0) = 0 /\ \A i \in 1 .. Len(l) : Due(l, i) = due[l[i].proc] /\ Due(l, i) \in Nat
  BY <1>1, <1>4, DueIsCounted DEF l
<1>6. n \in 0 .. Len(l) /\ Due(l, n) <= ticks /\ (n < Len(l) => ticks < Due(l, n + 1))
  <2>1. CASE later = {}
    <3>1. n = Len(l)
      BY <2>1
    <3> HIDE DEF n
    <3>2. Len(l) # 0 => Due(l, Len(l)) <= ticks
      BY <1>4, <1>5, <2>1
    <3> QED
      BY <1>4, <1>5, <3>1, <3>2
  <2>2. CASE later # {}
    <3> DEFINE m == Min(later)
    <3>1. m \in later /\ \A j \in later : m <= j
      <4>1. later \subseteq Nat
        BY <1>4
      <4> HIDE DEF later
      <4> QED
        BY <2>2, <4>1, LeastOfNat
    <3>2. n = m - 1
      BY <2>2
    <3> HIDE DEF m, n
    <3>3. n + 1 \in 1 .. Len(l) /\ ticks < Due(l, n + 1) /\ n \in Nat
      BY <1>4, <3>1, <3>2
    <3>4. n # 0 => n \in 1 .. Len(l) /\ n \notin later
      BY <1>4, <3>1, <3>2, <3>3
    <3> QED
      BY <1>4, <1>5, <3>3, <3>4
  <2> QED
    BY <2>1, <2>2
<1> HIDE DEF later, n
<1>7. delta \in Nat /\ Due(l, n) \in Nat
  BY <1>4, <1>5, <1>6
<1> DEFINE rest == [l[n + 1] EXCEPT !.expires = @ - delta]
<1>8. n < Len(l) => /\ n + 1 \in 1 .. Len(l)
                    /\ rest = [proc |-> l[n + 1].proc, expires |-> l[n + 1].expires - delta]
                    /\ rest \in Timers /\ rest.proc = l[n + 1].proc
                    /\ rest.expires = due[l[n + 1].proc] - ticks
  <2> SUFFICES ASSUME n < Len(l)
               PROVE  /\ n + 1 \in 1 .. Len(l)
                      /\ rest = [proc |-> l[n + 1].proc, expires |-> l[n + 1].expires - delta]
                      /\ rest \in Timers /\ rest.proc = l[n + 1].proc
                      /\ rest.expires = due[l[n + 1].proc] - ticks
    OBVIOUS
  <2>1. n + 1 \in 1 .. Len(l) /\ (n + 1) - 1 = n
    BY <1>4, <1>6
  <2>2. l[n + 1].expires = due[l[n + 1].proc] - Due(l, n)
    <3>1. l[n + 1].expires = due[l[n + 1].proc] - (IF n + 1 = 1 THEN 0 ELSE due[l[n].proc])
      BY <2>1 DEF Counted, l
    <3>2. CASE n = 0
      BY <1>5, <3>1, <3>2
    <3>3. CASE n # 0
      BY <1>4, <1>5, <1>6, <3>1, <3>3
    <3> QED
      BY <3>2, <3>3
  <2>3. rest = [proc |-> l[n + 1].proc, expires |-> l[n + 1].expires - delta]
    BY <1>4, <2>1
  <2>4. /\ l[n + 1].proc \in Procs /\ due[l[n + 1].proc] \in Nat
        /\ due[l[n + 1].proc] = Due(l, n + 1)
    BY <1>4, <1>5, <2>1
  <2>5. /\ l[n + 1].expires - delta = due[l[n + 1].proc] - ticks
        /\ l[n + 1].expires - delta \in Nat
    BY <1>6, <1>7, <2>2, <2>4
  <2> HIDE DEF rest, delta
  <2> QED
    BY <2>1, <2>3, <2>4, <2>5 DEF Timers
<1> HIDE DEF delta
<1>9. /\ r \in Seq(Timers) /\ Len(r) = Len(l) + 1
      /\ \A i \in 1 .. Len(l) + 1 :
            r[i] = IF i <= n THEN l[i] ELSE IF i = n + 1 THEN new
                   ELSE IF i = n + 2 THEN rest ELSE l[i - 1]
  <2>1. /\ SubSeq(l, 1, n) \in Seq(Timers) /\ Len(SubSeq(l, 1, n)) = n
        /\ \A i \in 1 .. n : SubSeq(l, 1, n)[i] = l[i]
    BY <1>1, <1>4, <1>6, SubSeqProperties DEF l
  <2>2. new \in Timers
    BY <1>7 DEF Timers
  <2>3. \A i \in 1 .. Len(l) - n : behind[i] = IF i = 1 THEN rest ELSE l[n + i]
    OBVIOUS
  <2>4. behind \in Seq(Timers) /\ Len(behind) = Len(l) - n
    <3>1. Len(l) - n \in Nat
      BY <1>4, <1>6
    <3>2. \A i \in 1 .. Len(l) - n : n + i \in 1 .. Len(l) /\ n < Len(l)
      BY <1>4, <1>6
    <3>3. \A i \in 1 .. Len(l) - n : behind[i] \in Timers
      BY <1>4, <1>8, <2>3, <3>2
    <3>4. behind \in [1 .. Len(l) - n -> Timers]
      BY <3>3, Zenon
    <3> HIDE DEF behind
    <3> QED
      BY <3>1, <3>4, SeqDef
  <2> HIDE DEF behind, rest, new
  <2> DEFINE a == SubSeq(l, 1, n) \o <<new>>
  <2>5. /\ a \in Seq(Timers) /\ Len(a) = n + 1
        /\ \A i \in 1 .. n + 1 : a[i] = IF i <= n THEN l[i] ELSE new
    BY <1>4, <1>6, <2>1, <2>2
  <2>6. r = a \o behind
    OBVIOUS
  <2> HIDE DEF a, r, n
  <2>7. /\ r \in Seq(Timers) /\ Len(r) = Len(a) + Len(behind)
        /\ \A i \in 1 .. Len(a) + Len(behind) :
              r[i] = IF i <= Len(a) THEN a[i] ELSE behind[i - Len(a)]
    <3>1. a \in Seq(Timers) /\ behind \in Seq(Timers)
      BY <2>4, <2>5
    <3> QED
      BY <2>6, <3>1, ConcatProperties
  <2>8. Len(a) + Len(behind) = Len(l) + 1 /\ Len(a) = n + 1
    BY <1>4, <1>6, <2>4, <2>5
  <2>9. ASSUME NEW i \in 1 .. Len(l) + 1
        PROVE  r[i] = IF i <= n THEN l[i] ELSE IF i = n + 1 THEN new
                      ELSE IF i = n + 2 THEN rest ELSE l[i - 1]
    <3>1. CASE i <= n + 1
      BY <1>4, <1>6, <2>5, <2>7, <2>8, <3>1
    <3>2. CASE i > n + 1
      <4>1. i - (n + 1) \in 1 .. Len(l) - n /\ n + (i - (n + 1)) = i - 1
        BY <1>4, <1>6, <3>2
      <4>2. r[i] = IF i - (n + 1) = 1 THEN rest ELSE l[i - 1]
        <5>1. i \in 1 .. Len(a) + Len(behind) /\ ~(i <= Len(a)) /\ i - Len(a) = i - (n + 1)
          BY <2>8, <3>2
        <5>2. r[i] = behind[i - (n + 1)]
          BY <2>7, <5>1
        <5> QED
          BY <2>3, <4>1, <5>2
      <4> QED
        BY <1>6, <3>2, <4>2
    <3> QED
      BY <1>4, <1>6, <3>1, <3>2
  <2> QED
    BY <2>7, <2>8, <2>9
<1>10. new.proc = p /\ new.expires = delta
  OBVIOUS
<1> HIDE DEF r, new, rest
<1> DEFINE from(i) == IF i <= n THEN i ELSE i - 1
<1>11. \A i \in 1 .. Len(l) + 1 :
          r[i].proc = IF i = n + 1 THEN p ELSE l[from(i)].proc
  <2> SUFFICES ASSUME NEW i \in 1 .. Len(l) + 1
               PROVE  r[i].proc = IF i = n + 1 THEN p ELSE l[from(i)].proc
    OBVIOUS
  <2>1. CASE i = n + 2
    <3>1. n < Len(l) /\ ~(i <= n) /\ i # n + 1 /\ i - 1 = n + 1
      BY <1>4, <1>6, <2>1
    <3>2. r[i] = rest
      BY <1>9, <2>1, <3>1
    <3> QED
      BY <1>8, <3>1, <3>2
  <2>2. CASE i # n + 2
    <3>1. i = n + 1 => ~(i <= n)
      BY <1>6
    <3>2. r[i] = IF i <= n THEN l[i] ELSE IF i = n + 1 THEN new ELSE l[i - 1]
      BY <1>9, <2>2
    <3> QED
      BY <1>6, <1>10, <3>1, <3>2
  <2> QED
    BY <2>1, <2>2
<1>12. \A i \in 1 .. Len(l) + 1 : i # n + 1 =>
          /\ from(i) \in 1 .. Len(l)
          /\ l[from(i)].proc # p
  BY <1>4, <1>6 DEF Timed, l
<1>13. Timed(r) = Timed(l) \cup {p}
  <2>1. \A i \in 1 .. Len(l) : \E j \in 1 .. Len(l) + 1 : j # n + 1 /\ from(j) = i
    <3> SUFFICES ASSUME NEW i \in 1 .. Len(l)
                 PROVE  \E j \in 1 .. Len(l) + 1 : j # n + 1 /\ from(j) = i
      OBVIOUS
    <3>1. CASE i <= n
      <4>1. i \in 1 .. Len(l) + 1 /\ i # n + 1 /\ from(i) = i
        BY <1>4, <1>6, <3>1
      <4> QED
        BY <4>1
    <3>2. CASE i > n
      <4>1. i + 1 \in 1 .. Len(l) + 1 /\ i + 1 # n + 1 /\ from(i + 1) = i
        BY <1>4, <1>6, <3>2
      <4> QED
        BY <4>1
    <3> QED
      BY <1>4, <1>6, <3>1, <3>2
  <2>2. n + 1 \in 1 .. Len(l) + 1
    BY <1>4, <1>6
  <2> HIDE DEF from
  <2>3. ASSUME NEW q \in Timed(r) PROVE q \in Timed(l) \cup {p}
    <3>1. PICK i \in 1 .. Len(l) + 1 : q = r[i].proc
      BY <1>9 DEF Timed
    <3>2. i # n + 1 => q = l[from(i)].proc /\ from(i) \in 1 .. Len(l)
      BY <1>11, <1>12, <3>1
    <3> QED
      BY <1>11, <3>1, <3>2 DEF Timed
  <2>4. ASSUME NEW q \in Timed(l) \cup {p} PROVE q \in Timed(r)
    <3>1. \E i \in 1 .. Len(l) + 1 : r[i].proc = q
      <4>1. CASE q = p
        BY <1>11, <2>2, <4>1
      <4>2. CASE q # p
        <5>1. PICK i \in 1 .. Len(l) : q = l[i].proc
          BY <4>2 DEF Timed
        <5>2. PICK j \in 1 .. Len(l) + 1 : j # n + 1 /\ from(j) = i
          BY <2>1
        <5> QED
          BY <1>11, <5>1, <5>2
      <4> QED
        BY <4>1, <4>2
    <3> QED
      BY <1>9, <3>1 DEF Timed
  <2> QED
    BY <2>3, <2>4
<1>14. Counted(r, due1)
  <2>1. ASSUME NEW i \in 1 .. Len(r), NEW j \in 1 .. Len(r), r[i].proc = r[j].proc
        PROVE  i = j
    <3>1. i \in 1 .. Len(l) + 1 /\ j \in 1 .. Len(l) + 1
      BY <1>9
    <3>2. i = n + 1 <=> j = n + 1
      <4> HIDE DEF from
      <4> QED
        BY <1>11, <1>12, <2>1, <3>1
    <3>3. CASE i # n + 1
      <4>1. from(i) = from(j)
        <5> HIDE DEF from
        <5>1. from(i) \in 1 .. Len(l) /\ from(j) \in 1 .. Len(l)
          BY <1>12, <3>1, <3>2, <3>3
        <5>2. l[from(i)].proc = l[from(j)].proc
          BY <1>11, <2>1, <3>1, <3>2, <3>3
        <5> QED
          BY <5>1, <5>2 DEF Counted, l
      <4> QED
        BY <1>4, <1>6, <3>1, <3>2, <3>3, <4>1
    <3> QED
      BY <3>2, <3>3
  <2>2. ASSUME NEW i \in 1 .. Len(r)
        PROVE  r[i].expires = due1[r[i].proc] - (IF i = 1 THEN 0 ELSE due1[r[i - 1].proc])
    <3>1. i \in 1 .. Len(l) + 1 /\ (i # 1 => i - 1 \in 1 .. Len(l) + 1)
      BY <1>4, <1>9
    <3>2. /\ \A q \in Procs : q # p => due1[q] = due[q]
          /\ due1[p] = ticks
      OBVIOUS
    <3> HIDE DEF due1
    <3>3. \A m \in 1 .. Len(l) : l[m].proc # p /\ due1[l[m].proc] = due[l[m].proc]
      <4>1. \A m \in 1 .. Len(l) : l[m].proc # p /\ l[m].proc \in Procs
        BY <1>4 DEF Timed, l
      <4> QED
        BY <3>2, <4>1
    <3>4. CASE i <= n
      <4>1. /\ i \in 1 .. Len(l) /\ (i # 1 => i - 1 \in 1 .. Len(l) /\ i - 1 <= n)
        BY <1>4, <1>6, <3>1, <3>4
      <4>2. r[i] = l[i] /\ (i # 1 => r[i - 1] = l[i - 1])
        BY <1>9, <3>1, <3>4, <4>1
      <4>3. l[i].expires = due[l[i].proc] - (IF i = 1 THEN 0 ELSE due[l[i - 1].proc])
        BY <4>1 DEF Counted, l
      <4> QED
        BY <3>3, <4>1, <4>2, <4>3
    <3>5. CASE i = n + 1
      <4>1. r[i].expires = ticks - Due(l, n) /\ r[i].proc = p
        <5>1. ~(n + 1 <= n)
          BY <1>6
        <5> QED
          BY <1>9, <1>10, <3>1, <3>5, <5>1 DEF delta
      <4>2. CASE n = 0
        BY <1>5, <3>2, <3>5, <4>1, <4>2
      <4>3. CASE n # 0
        <5>1. i # 1 /\ i - 1 = n /\ n \in 1 .. Len(l)
          BY <1>4, <1>6, <3>5, <4>3
        <5>2. r[i - 1] = l[n]
          BY <1>9, <3>1, <5>1
        <5> QED
          BY <1>5, <3>2, <3>3, <4>1, <5>1, <5>2
      <4> QED
        BY <4>2, <4>3
    <3>6. CASE i = n + 2
      <4>1. i # 1 /\ i - 1 = n + 1 /\ n < Len(l) /\ ~(i <= n) /\ i # n + 1 /\ i - 1 # n + 2
            /\ ~(n + 1 <= n) /\ n + 1 \in 1 .. Len(l)
        BY <1>4, <1>6, <3>1, <3>6
      <4>2. r[i] = rest /\ r[i - 1] = new
        BY <1>9, <3>1, <3>6, <4>1
      <4> QED
        BY <1>8, <1>10, <3>2, <3>3, <4>1, <4>2
    <3>7. CASE i > n + 2
      <4>1. /\ i # 1 /\ ~(i <= n) /\ i # n + 1 /\ i # n + 2
            /\ i - 1 \in 1 .. Len(l) /\ i - 1 # 1 /\ (i - 1) - 1 \in 1 .. Len(l)
            /\ ~(i - 1 <= n) /\ i - 1 # n + 1
        BY <1>4, <1>6, <3>1, <3>7
      <4>2. r[i] = l[i - 1]
        BY <1>9, <3>1, <4>1
      <4>3. r[i - 1].proc = l[(i - 1) - 1].proc
        BY <1>11, <3>1, <4>1
      <4>4. l[i - 1].expires = due[l[i - 1].proc] - due[l[(i - 1) - 1].proc]
        BY <4>1 DEF Counted, l
      <4> QED
        BY <3>3, <4>1, <4>2, <4>3, <4>4
    <3> QED
      BY <1>4, <1>6, <3>1, <3>4, <3>5, <3>6, <3>7
  <2> QED
    BY <2>1, <2>2 DEF Counted
<1> QED
  BY <1>2, <1>3, <1>9, <1>13, <1>14 DEF l

\* The timer that follows inherits the difference of the one that is removed.
LEMMA RemoveTimer ==
    ASSUME NEW kk \in KernelStates, NEW due \in [Procs -> Nat], Counted(kk.timer_list, due),
           NEW p \in Procs
    PROVE  LET r == DelTimer(kk, p).timer_list IN
           /\ DelTimer(kk, p) = [kk EXCEPT !.timer_list = r]
           /\ r \in Seq(Timers) /\ Timed(r) = Timed(kk.timer_list) \ {p}
           /\ Counted(r, due)
           /\ p \in Timed(kk.timer_list) => Len(r) = Len(kk.timer_list) - 1
<1> DEFINE l == kk.timer_list
           I == {j \in 1 .. Len(l) : l[j].proc = p}
           i == SelectInSeq(l, LAMBDA t : t.proc = p)
<1>1. l \in Seq(Timers)
  BY DEF KernelStates, Timers
<1>2. i = IF I = {} THEN 0 ELSE Min(I)
  BY DEF SelectInSeq
<1>3. CASE I = {}
  <2>1. i = 0
    BY <1>2, <1>3
  <2>2. DelTimer(kk, p) = kk
    <3> HIDE DEF i
    <3> QED
      BY <2>1 DEF DelTimer, i
  <2>3. p \notin Timed(l)
    BY <1>3 DEF Timed
  <2>4. kk = [kk EXCEPT !.timer_list = l]
    BY DEF KernelStates
  <2> HIDE DEF i, I
  <2> QED
    BY <1>1, <2>2, <2>3, <2>4
<1>4. CASE I # {}
  <2>1. i \in I
    <3>1. I \subseteq Nat
      BY <1>1, TimerTypes
    <3>2. Min(I) \in I
      <4> HIDE DEF I
      <4> QED
        BY <1>4, <3>1, LeastOfNat
    <3> QED
      BY <1>2, <1>4, <3>2
  <2> DEFINE next == l[i + 1]
             sum == next.expires + l[i].expires
             m == IF i = Len(l) THEN l ELSE [l EXCEPT ![i + 1].expires = @ + l[i].expires]
             r == RemoveAt(m, i)
  <2>2. DelTimer(kk, p) = [kk EXCEPT !.timer_list = r]
    <3>1. i # 0
      BY <1>1, <2>1
    <3> HIDE DEF i
    <3> QED
      BY <3>1 DEF DelTimer, i
  <2>3. DelTimer(kk, p).timer_list = r
    <3> HIDE DEF r
    <3> QED
      BY <2>2 DEF KernelStates
  <2>4. i \in 1 .. Len(l) /\ l[i].proc = p
    BY <2>1
  <2> HIDE DEF i, I, l
  <2>5. /\ Len(l) \in Nat /\ DOMAIN l = 1 .. Len(l)
        /\ \A j \in 1 .. Len(l) : l[j] \in Timers /\ l[j].proc \in Procs /\ l[j].expires \in Nat
    BY <1>1, TimerTypes
  <2>6. /\ m \in Seq(Timers) /\ Len(m) = Len(l)
        /\ \A j \in 1 .. Len(l) :
              /\ m[j].proc = l[j].proc
              /\ m[j].expires = IF j = i + 1 THEN l[j].expires + l[i].expires ELSE l[j].expires
    <3>1. CASE i = Len(l)
      BY <1>1, <2>4, <2>5, <3>1
    <3>2. CASE i # Len(l)
      <4>1. i + 1 \in 1 .. Len(l) /\ i \in 1 .. Len(l)
        <5> HIDE DEF m, next, sum, r
        <5>1. i \in 1 .. Len(l) /\ Len(l) \in Nat
          BY <2>4, <2>5
        <5> QED
          BY <3>2, <5>1
      <4> DEFINE e == [l[i + 1] EXCEPT !.expires = @ + l[i].expires]
      <4>2. m = [l EXCEPT ![i + 1] = e]
        BY <3>2
      <4>3. e \in Timers /\ e.proc = l[i + 1].proc /\ e.expires = l[i + 1].expires + l[i].expires
        <5>1. l[i].expires \in Nat /\ l[i + 1] \in Timers
          BY <2>5, <4>1
        <5> QED
          BY <5>1 DEF Timers
      <4> HIDE DEF e, m
      <4>4. /\ m \in Seq(Timers) /\ Len(m) = Len(l)
            /\ \A j \in 1 .. Len(l) : m[j] = IF j = i + 1 THEN e ELSE l[j]
        BY <1>1, <4>1, <4>2, <4>3, ExceptSeq
      <4> QED
        BY <4>3, <4>4
    <3> QED
      BY <3>1, <3>2
  <2> HIDE DEF m, next, sum
  <2> DEFINE from(j) == IF j < i THEN j ELSE j + 1
  <2>7. /\ r \in Seq(Timers) /\ Len(r) = Len(l) - 1
        /\ \A j \in 1 .. Len(l) - 1 : r[j] = m[from(j)]
    <3> DEFINE a == SubSeq(m, 1, i - 1)
               b == SubSeq(m, i + 1, Len(m))
    <3>1. /\ a \in Seq(Timers) /\ Len(a) = i - 1
          /\ \A j \in 1 .. i - 1 : a[j] = m[j]
      <4>1. \A j \in 1 .. i - 1 : m[j] \in Timers
        BY <2>4, <2>5, <2>6, ElementOfSeq
      <4>2. /\ a \in Seq(Timers) /\ Len(a) = IF 1 <= i - 1 THEN (i - 1) - 1 + 1 ELSE 0
            /\ \A j \in 1 .. (i - 1) - 1 + 1 : a[j] = m[1 + j - 1]
        BY <2>4, <2>5, <4>1, SubSeqProperties
      <4> HIDE DEF a
      <4> QED
        BY <2>4, <2>5, <4>2
    <3>2. /\ b \in Seq(Timers) /\ Len(b) = Len(l) - i
          /\ \A j \in 1 .. Len(l) - i : b[j] = m[j + i]
      <4>1. \A j \in i + 1 .. Len(m) : m[j] \in Timers
        BY <2>4, <2>5, <2>6, ElementOfSeq
      <4>2. /\ b \in Seq(Timers) /\ Len(b) = IF i + 1 <= Len(m) THEN Len(m) - (i + 1) + 1 ELSE 0
            /\ \A j \in 1 .. Len(m) - (i + 1) + 1 : b[j] = m[(i + 1) + j - 1]
        BY <2>4, <2>5, <2>6, <4>1, SubSeqProperties
      <4> HIDE DEF b
      <4>3. \A j \in 1 .. Len(l) - i : (i + 1) + j - 1 = j + i
        BY <2>4, <2>5
      <4>4. Len(m) - (i + 1) + 1 = Len(l) - i
        BY <2>4, <2>5, <2>6
      <4>5. \A j \in 1 .. Len(l) - i : b[j] = m[j + i]
        BY <4>2, <4>3, <4>4
      <4>6. Len(b) = Len(l) - i
        <5>1. i \in 1 .. Len(l) /\ Len(l) \in Nat /\ Len(m) = Len(l)
          BY <2>4, <2>5, <2>6
        <5>2. Len(b) = IF i + 1 <= Len(l) THEN Len(l) - (i + 1) + 1 ELSE 0
          BY <4>2, <5>1
        <5> QED
          BY <5>1, <5>2
      <4> QED
        BY <4>2, <4>5, <4>6
    <3>3. r = a \o b
      BY DEF RemoveAt
    <3> HIDE DEF a, b, r
    <3>4. /\ r \in Seq(Timers) /\ Len(r) = Len(a) + Len(b)
          /\ \A j \in 1 .. Len(a) + Len(b) : r[j] = IF j <= Len(a) THEN a[j] ELSE b[j - Len(a)]
      BY <3>1, <3>2, <3>3, ConcatProperties
    <3>5. Len(a) + Len(b) = Len(l) - 1
      BY <2>4, <2>5, <3>1, <3>2
    <3>6. ASSUME NEW j \in 1 .. Len(l) - 1 PROVE r[j] = m[from(j)]
      <4>1. CASE j < i
        <5>1. j \in 1 .. i - 1 /\ j <= Len(a)
          BY <2>4, <2>5, <3>1, <4>1
        <5>2. r[j] = a[j]
          BY <3>4, <3>5, <5>1
        <5> QED
          BY <3>1, <4>1, <5>1, <5>2
      <4>2. CASE ~(j < i)
        <5>1. j - (i - 1) \in 1 .. Len(l) - i /\ (j - (i - 1)) + i = j + 1 /\ ~(j <= i - 1)
          BY <2>4, <2>5, <4>2
        <5> QED
          BY <3>1, <3>2, <3>4, <3>5, <4>2, <5>1
      <4> QED
        BY <4>1, <4>2
    <3> QED
      BY <3>4, <3>5, <3>6
  <2> HIDE DEF r
  <2>8. \A j \in 1 .. Len(l) - 1 :
           /\ from(j) \in 1 .. Len(l) /\ from(j) # i
           /\ r[j].proc = l[from(j)].proc
           /\ r[j].expires = IF j = i THEN l[i + 1].expires + l[i].expires
                             ELSE l[from(j)].expires
    <3> SUFFICES ASSUME NEW j \in 1 .. Len(l) - 1
                 PROVE  /\ from(j) \in 1 .. Len(l) /\ from(j) # i
                        /\ r[j].proc = l[from(j)].proc
                        /\ r[j].expires = IF j = i THEN l[i + 1].expires + l[i].expires
                                          ELSE l[from(j)].expires
      OBVIOUS
    <3>1. from(j) \in 1 .. Len(l) /\ from(j) # i /\ (from(j) = i + 1 <=> j = i)
      BY <2>4, <2>5
    <3>2. r[j] = m[from(j)]
      BY <2>7
    <3>3. j = i => from(j) = i + 1
      BY <2>4, <2>5
    <3> HIDE DEF from
    <3> QED
      BY <2>6, <3>1, <3>2, <3>3
  <2>9. Timed(r) = Timed(l) \ {p}
    <3>1. ASSUME NEW q \in Timed(r) PROVE q \in Timed(l) \ {p}
      <4>1. PICK j \in 1 .. Len(l) - 1 : q = r[j].proc
        BY <2>7 DEF Timed
      <4>2. from(j) \in 1 .. Len(l) /\ from(j) # i /\ q = l[from(j)].proc
        BY <2>8, <4>1
      <4> HIDE DEF from
      <4>3. q # p
        BY <2>4, <4>2 DEF Counted, l
      <4> QED
        BY <4>2, <4>3 DEF Timed
    <3>2. ASSUME NEW q \in Timed(l) \ {p} PROVE q \in Timed(r)
      <4>1. PICK x \in 1 .. Len(l) : q = l[x].proc
        BY DEF Timed
      <4>2. x # i
        BY <2>4, <4>1
      <4>3. \E j \in 1 .. Len(l) - 1 : from(j) = x
        <5>1. CASE x < i
          <6>1. x \in 1 .. Len(l) - 1 /\ from(x) = x
            BY <2>4, <2>5, <5>1
          <6> QED
            BY <6>1
        <5>2. CASE x > i
          <6>1. x - 1 \in 1 .. Len(l) - 1 /\ from(x - 1) = x
            BY <2>4, <2>5, <5>2
          <6> QED
            BY <6>1
        <5> QED
          BY <2>4, <2>5, <4>2, <5>1, <5>2
      <4>4. PICK j \in 1 .. Len(l) - 1 : from(j) = x
        BY <4>3
      <4>5. r[j].proc = q
        BY <2>8, <4>1, <4>4
      <4> QED
        BY <2>7, <4>5 DEF Timed
    <3> QED
      BY <3>1, <3>2
  <2>10. Counted(r, due)
    <3>1. ASSUME NEW x \in 1 .. Len(r), NEW y \in 1 .. Len(r), r[x].proc = r[y].proc
          PROVE  x = y
      <4>1. from(x) \in 1 .. Len(l) /\ from(y) \in 1 .. Len(l)
            /\ l[from(x)].proc = l[from(y)].proc
        BY <2>7, <2>8, <3>1
      <4>2. from(x) = from(y)
        <5> HIDE DEF from
        <5> QED
          BY <4>1 DEF Counted, l
      <4> QED
        BY <2>4, <2>5, <2>7, <4>2
    <3>2. ASSUME NEW j \in 1 .. Len(r)
          PROVE  r[j].expires = due[r[j].proc] - (IF j = 1 THEN 0 ELSE due[r[j - 1].proc])
      <4>1. j \in 1 .. Len(l) - 1 /\ (j # 1 => j - 1 \in 1 .. Len(l) - 1)
        BY <2>5, <2>7
      <4>2. \A x \in 1 .. Len(l) :
               /\ l[x].expires = due[l[x].proc] - (IF x = 1 THEN 0 ELSE due[l[x - 1].proc])
               /\ due[l[x].proc] \in Nat
        BY <2>5 DEF Counted, l
      <4>3. CASE j < i
        <5>1. /\ r[j].proc = l[j].proc /\ r[j].expires = l[j].expires /\ j \in 1 .. Len(l)
              /\ j # 1 => r[j - 1].proc = l[j - 1].proc
          BY <2>4, <2>5, <2>8, <4>1, <4>3
        <5> QED
          BY <4>2, <5>1
      <4>4. CASE j = i
        <5>1. /\ r[j].proc = l[i + 1].proc /\ r[j].expires = l[i + 1].expires + l[i].expires
              /\ j # 1 => r[j - 1].proc = l[i - 1].proc
              /\ i + 1 \in 1 .. Len(l) /\ i + 1 # 1 /\ (i + 1) - 1 = i
          BY <2>4, <2>5, <2>8, <4>1, <4>4
        <5>2. l[i + 1].expires = due[l[i + 1].proc] - due[l[i].proc]
          BY <4>2, <5>1
        <5>3. l[i].expires = due[l[i].proc] - (IF i = 1 THEN 0 ELSE due[l[i - 1].proc])
          BY <2>4, <4>2
        <5>4. CASE i = 1
          BY <2>4, <4>2, <4>4, <5>1, <5>2, <5>3, <5>4
        <5>5. CASE i # 1
          <6>1. i - 1 \in 1 .. Len(l)
            BY <2>4, <2>5, <5>5
          <6>2. j # 1 /\ r[j - 1].proc = l[i - 1].proc /\ i \in 1 .. Len(l)
            BY <2>4, <4>4, <5>1, <5>5
          <6>3. /\ due[l[i + 1].proc] \in Nat /\ due[l[i].proc] \in Nat
                /\ due[l[i - 1].proc] \in Nat
            BY <4>2, <5>1, <6>1, <6>2
          <6>4. l[i].expires = due[l[i].proc] - due[l[i - 1].proc]
            BY <5>3, <5>5
          <6>5. l[i + 1].expires + l[i].expires = due[l[i + 1].proc] - due[l[i - 1].proc]
            BY <5>2, <6>3, <6>4, DifferencesAdd
          <6>6. r[j].expires = due[l[i + 1].proc] - due[l[i - 1].proc]
            BY <5>1, <6>5
          <6> QED
            BY <5>1, <6>2, <6>6
        <5> QED
          BY <5>4, <5>5
      <4>5. CASE j > i
        <5>1. /\ j \in 1 .. Len(l) - 1 /\ j - 1 \in 1 .. Len(l) - 1 /\ j # 1 /\ j # i
              /\ j + 1 \in 1 .. Len(l) /\ j + 1 # 1 /\ (j + 1) - 1 = j /\ (j - 1) + 1 = j
              /\ from(j) = j + 1 /\ from(j - 1) = (j - 1) + 1
          BY <2>4, <2>5, <4>1, <4>5
        <5> HIDE DEF from
        <5>2. /\ r[j].proc = l[j + 1].proc /\ r[j].expires = l[j + 1].expires
              /\ r[j - 1].proc = l[j].proc
          BY <2>8, <5>1
        <5> QED
          BY <4>2, <5>1, <5>2
      <4> QED
        BY <2>4, <2>5, <4>1, <4>3, <4>4, <4>5
    <3> QED
      BY <3>1, <3>2 DEF Counted
  <2> QED
    BY <2>2, <2>3, <2>7, <2>9, <2>10 DEF l
<1> QED
  BY <1>3, <1>4

-----------------------------------------------------------------------------

(***************************************************************************)
(* What the operations of the scheduler do to the kernel's state, field by *)
(* field.                                                                  *)
(***************************************************************************)

Queued(kk) ==
    /\ IsInjective(kk.run_list)
    /\ ToSet(kk.run_list) = {p \in Procs \ {kk.current} : kk.state[p] = "RUNNABLE"}

LEMMA Fields ==
    ASSUME NEW kk \in KernelStates
    PROVE  /\ kk.state \in [All -> {"UNINIT", "RUNNABLE", "SLEEPING", "ZOMBIE"}]
           /\ kk.wait_state \in [All -> {"none", "WT_CHILD", "WT_TIMER", "WT_KSEM"}]
           /\ kk.need_resched \in [All -> BOOLEAN]
           /\ kk.time_slice \in [All -> 0 .. MAX_TIME_SLICE]
           /\ kk.current \in All
           /\ kk.run_list \in Seq(Procs)
           /\ kk.timer_list \in Seq(Timers)
           /\ kk.value \in [Sems -> Nat]
           /\ kk.wait_queue \in [Sems -> Seq(Procs)]
           /\ kk.wakeup_flags \in [All -> {"WT_INTERRUPTED", "WT_KSEM"}]
           /\ kk.ok \in BOOLEAN
BY DEF KernelStates, Timers

LEMMA CheckHolds ==
    ASSUME NEW kk \in KernelStates, NEW holds, holds = TRUE
    PROVE  Check(kk, holds) = kk
BY DEF Check, KernelStates

LEMMA Enqueue ==
    ASSUME NEW kk \in KernelStates, NEW p \in Procs,
           IsInjective(kk.run_list), p \notin ToSet(kk.run_list)
    PROVE  LET r == RR_enqueue(kk, p) IN
           /\ r \in KernelStates
           /\ r = [kk EXCEPT !.run_list = r.run_list, !.time_slice = r.time_slice]
           /\ IsInjective(r.run_list)
           /\ ToSet(r.run_list) = ToSet(kk.run_list) \cup {p}
<1> DEFINE slice == IF kk.time_slice[p] = 0 \/ kk.time_slice[p] > MAX_TIME_SLICE
                    THEN MAX_TIME_SLICE ELSE kk.time_slice[p]
           l == Append(kk.run_list, p)
           r == RR_enqueue(kk, p)
<1>1. Check(kk, p \notin ToSet(kk.run_list)) = kk
  BY CheckHolds
<1>2. r = [kk EXCEPT !.run_list = l, !.time_slice[p] = slice]
  BY <1>1 DEF RR_enqueue
<1>3. l \in Seq(Procs) /\ IsInjective(l) /\ ToSet(l) = ToSet(kk.run_list) \cup {p}
  BY Fields, AppendNew
<1>4. slice \in 0 .. MAX_TIME_SLICE
  BY Fields, SchedAssumption DEF All
<1> HIDE DEF slice, l, r
<1>5. r \in KernelStates
  BY <1>2, <1>3, <1>4 DEF KernelStates
<1>6. r.run_list = l /\ r = [kk EXCEPT !.run_list = r.run_list, !.time_slice = r.time_slice]
  BY <1>2 DEF KernelStates
<1> QED
  BY <1>3, <1>5, <1>6 DEF r

LEMMA Dequeue ==
    ASSUME NEW kk \in KernelStates, NEW p \in Procs,
           IsInjective(kk.run_list), p \in ToSet(kk.run_list)
    PROVE  LET r == RR_dequeue(kk, p) IN
           /\ r \in KernelStates
           /\ r = [kk EXCEPT !.run_list = r.run_list]
           /\ IsInjective(r.run_list)
           /\ ToSet(r.run_list) = ToSet(kk.run_list) \ {p}
<1> DEFINE l == RemoveFirst(kk.run_list, p)
           r == RR_dequeue(kk, p)
<1>1. Check(kk, p \in ToSet(kk.run_list)) = kk
  BY CheckHolds
<1>2. r = [kk EXCEPT !.run_list = l]
  BY <1>1 DEF RR_dequeue
<1>3. l \in Seq(Procs) /\ IsInjective(l) /\ ToSet(l) = ToSet(kk.run_list) \ {p}
  BY Fields, RemoveOne
<1> HIDE DEF l, r
<1>4. r \in KernelStates /\ r.run_list = l
  BY <1>2, <1>3 DEF KernelStates
<1> QED
  BY <1>2, <1>3, <1>4 DEF r

\* A process that has exited is not woken; one that runs is not queued.
LEMMA Wakeup ==
    ASSUME NEW kk \in KernelStates, NEW p \in Procs, Queued(kk), kk.state[p] # "ZOMBIE",
           kk.state[p] = "RUNNABLE" => kk.wait_state[p] = "none"
    PROVE  LET r == WakeupProc(kk, p) IN
           /\ r \in KernelStates /\ Queued(r) /\ r.ok = kk.ok
           /\ r.state = [kk.state EXCEPT ![p] = "RUNNABLE"]
           /\ r.wait_state = [kk.wait_state EXCEPT ![p] = "none"]
           /\ r.current = kk.current /\ r.timer_list = kk.timer_list
           /\ r.value = kk.value /\ r.wait_queue = kk.wait_queue
           /\ r.wakeup_flags = kk.wakeup_flags
<1> DEFINE a == Check(kk, kk.state[p] # "ZOMBIE")
           w == [kk EXCEPT !.state[p] = "RUNNABLE", !.wait_state[p] = "none"]
           r == WakeupProc(kk, p)
<1>1. a = kk
  BY CheckHolds
<1>2. r = IF kk.state[p] = "RUNNABLE" THEN kk
          ELSE IF p = kk.current \/ p = idleproc THEN w ELSE RR_enqueue(w, p)
  <2>1. r = IF kk.state[p] = "RUNNABLE" THEN a
            ELSE IF p = kk.current \/ p = idleproc
                 THEN [a EXCEPT !.state[p] = "RUNNABLE", !.wait_state[p] = "none"]
                 ELSE RR_enqueue([a EXCEPT !.state[p] = "RUNNABLE", !.wait_state[p] = "none"], p)
    BY DEF WakeupProc
  <2> HIDE DEF a, r
  <2> QED
    BY <1>1, <2>1
<1> HIDE DEF a, r
<1>3. p \in All /\ p # idleproc
  BY SchedAssumption DEF All
<1>4. CASE kk.state[p] = "RUNNABLE"
  <2>1. r = kk
    BY <1>2, <1>4
  <2>2. /\ kk.state = [kk.state EXCEPT ![p] = "RUNNABLE"]
        /\ kk.wait_state = [kk.wait_state EXCEPT ![p] = "none"]
    BY <1>3, <1>4, Fields
  <2> QED
    BY <2>1, <2>2 DEF r
<1>5. CASE kk.state[p] # "RUNNABLE"
  <2>1. /\ w \in KernelStates /\ w.ok = kk.ok
        /\ w.state = [kk.state EXCEPT ![p] = "RUNNABLE"]
        /\ w.wait_state = [kk.wait_state EXCEPT ![p] = "none"]
        /\ w.current = kk.current /\ w.timer_list = kk.timer_list
        /\ w.value = kk.value /\ w.wait_queue = kk.wait_queue
        /\ w.wakeup_flags = kk.wakeup_flags /\ w.run_list = kk.run_list
    BY <1>3 DEF KernelStates
  <2> HIDE DEF w
  <2>2. CASE p = kk.current
    <3>1. r = w
      BY <1>2, <1>5, <2>2
    <3>2. Queued(w)
      BY <1>3, <2>1, <2>2, Fields DEF Queued
    <3> QED
      BY <2>1, <3>1, <3>2 DEF r
  <2>3. CASE p # kk.current
    <3>1. r = RR_enqueue(w, p)
      BY <1>2, <1>3, <1>5, <2>3
    <3>2. IsInjective(w.run_list) /\ p \notin ToSet(w.run_list)
      BY <1>5, <2>1 DEF Queued
    <3>3. /\ r \in KernelStates /\ IsInjective(r.run_list)
          /\ ToSet(r.run_list) = ToSet(w.run_list) \cup {p}
          /\ r = [w EXCEPT !.run_list = r.run_list, !.time_slice = r.time_slice]
      BY <2>1, <3>1, <3>2, Enqueue
    <3>4. /\ r.state = w.state /\ r.wait_state = w.wait_state /\ r.current = w.current
          /\ r.timer_list = w.timer_list /\ r.value = w.value /\ r.wait_queue = w.wait_queue
          /\ r.wakeup_flags = w.wakeup_flags /\ r.ok = w.ok
      BY <2>1, <3>3 DEF KernelStates
    <3>5. Queued(r)
      <4>1. ToSet(r.run_list) = {q \in Procs \ {kk.current} : kk.state[q] = "RUNNABLE"} \cup {p}
        BY <2>1, <3>3 DEF Queued
      <4>2. \A q \in Procs : r.state[q] = "RUNNABLE" <=> q = p \/ kk.state[q] = "RUNNABLE"
        BY <1>3, <2>1, <3>4, Fields DEF All
      <4> QED
        BY <2>1, <2>3, <3>3, <3>4, <4>1, <4>2 DEF Queued
    <3> QED
      BY <2>1, <3>3, <3>4, <3>5 DEF r
  <2> QED
    BY <2>2, <2>3
<1> QED
  BY <1>4, <1>5

\* The next process is the idle process or one that can run.
LEMMA Scheduled ==
    ASSUME NEW kk \in KernelStates, Queued(kk)
    PROVE  LET r == Schedule(kk) IN
           /\ r \in KernelStates /\ Queued(r) /\ r.ok = kk.ok
           /\ r.state = kk.state /\ r.wait_state = kk.wait_state
           /\ r.timer_list = kk.timer_list /\ r.value = kk.value
           /\ r.wait_queue = kk.wait_queue /\ r.wakeup_flags = kk.wakeup_flags
           /\ r.current # idleproc => r.current \in Procs /\ kk.state[r.current] = "RUNNABLE"
<1> DEFINE c == kk.current
           a == [kk EXCEPT !.need_resched[c] = FALSE]
           b == IF kk.state[c] = "RUNNABLE" /\ c # idleproc THEN RR_enqueue(a, c) ELSE a
           r == Schedule(kk)
           Same(x) == /\ x.ok = kk.ok /\ x.state = kk.state /\ x.wait_state = kk.wait_state
                      /\ x.timer_list = kk.timer_list /\ x.value = kk.value
                      /\ x.wait_queue = kk.wait_queue /\ x.wakeup_flags = kk.wakeup_flags
<1>1. c \in All /\ (c # idleproc => c \in Procs) /\ idleproc \notin Procs
  BY Fields, SchedAssumption DEF All
<1>2. r = IF b.run_list = <<>> THEN [b EXCEPT !.current = idleproc]
          ELSE [RR_dequeue(b, Head(b.run_list)) EXCEPT !.current = Head(b.run_list)]
  BY DEF Schedule
<1>3. a \in KernelStates /\ Same(a) /\ a.run_list = kk.run_list
  BY <1>1 DEF KernelStates
<1> HIDE DEF a, r
<1>4. /\ b \in KernelStates /\ Same(b) /\ IsInjective(b.run_list)
      /\ ToSet(b.run_list) = {q \in Procs : kk.state[q] = "RUNNABLE"}
  <2>1. CASE kk.state[c] = "RUNNABLE" /\ c # idleproc
    <3> DEFINE e == RR_enqueue(a, c)
    <3>1. b = e
      BY <2>1
    <3>2. IsInjective(a.run_list) /\ c \notin ToSet(a.run_list)
      BY <1>3 DEF Queued
    <3>3. /\ e \in KernelStates /\ IsInjective(e.run_list)
          /\ ToSet(e.run_list) = ToSet(a.run_list) \cup {c}
          /\ e = [a EXCEPT !.run_list = e.run_list, !.time_slice = e.time_slice]
      BY <1>1, <1>3, <2>1, <3>2, Enqueue
    <3> HIDE DEF e, b, c
    <3>4. Same(e)
      BY <1>3, <3>3 DEF KernelStates
    <3>5. ToSet(e.run_list) = {q \in Procs : kk.state[q] = "RUNNABLE"}
      BY <1>1, <1>3, <2>1, <3>3 DEF Queued, c
    <3> QED
      BY <3>1, <3>3, <3>4, <3>5
  <2>2. CASE ~(kk.state[c] = "RUNNABLE" /\ c # idleproc)
    <3>1. b = a
      BY <2>2
    <3>2. \A q \in Procs : kk.state[q] = "RUNNABLE" => q # c
      BY <1>1, <2>2
    <3>3. IsInjective(a.run_list) /\ ToSet(a.run_list) = {q \in Procs : kk.state[q] = "RUNNABLE"}
      BY <1>3, <3>2 DEF Queued
    <3> HIDE DEF b
    <3> QED
      BY <1>3, <3>1, <3>3
  <2> QED
    BY <2>1, <2>2
<1> HIDE DEF b
<1>5. CASE b.run_list = <<>>
  <2>1. r = [b EXCEPT !.current = idleproc]
    BY <1>2, <1>5
  <2>2. r \in KernelStates /\ Same(r) /\ r.current = idleproc /\ r.run_list = b.run_list
    BY <1>4, <2>1 DEF KernelStates, All
  <2>3. Queued(r)
    BY <1>1, <1>4, <2>2 DEF Queued
  <2> QED
    BY <2>2, <2>3 DEF r
<1>6. CASE b.run_list # <<>>
  <2> DEFINE h == Head(b.run_list)
             d == RR_dequeue(b, h)
  <2>1. h \in ToSet(b.run_list)
    <3>1. b.run_list \in Seq(Procs)
      BY <1>4, Fields
    <3>2. 1 \in DOMAIN b.run_list /\ h = b.run_list[1]
      BY <1>6, <3>1
    <3> QED
      BY <3>2 DEF ToSet
  <2>2. h \in Procs /\ kk.state[h] = "RUNNABLE"
    BY <1>4, <2>1
  <2> HIDE DEF h
  <2>3. /\ d \in KernelStates /\ d = [b EXCEPT !.run_list = d.run_list]
        /\ IsInjective(d.run_list) /\ ToSet(d.run_list) = ToSet(b.run_list) \ {h}
    BY <1>4, <2>1, <2>2, Dequeue
  <2>4. r = [d EXCEPT !.current = h]
    BY <1>2, <1>6 DEF h
  <2> HIDE DEF d
  <2>5. Same(d)
    BY <1>4, <2>3 DEF KernelStates
  <2>6. r \in KernelStates /\ Same(r) /\ r.current = h /\ r.run_list = d.run_list
    BY <2>2, <2>3, <2>4, <2>5 DEF KernelStates, All
  <2>7. Queued(r)
    BY <1>4, <2>3, <2>6 DEF Queued
  <2> QED
    BY <2>2, <2>6, <2>7 DEF r
<1> QED
  BY <1>5, <1>6

LEMMA ProcTick ==
    ASSUME NEW kk \in KernelStates, Queued(kk), kk.current \in Procs
    PROVE  LET r == RR_proc_tick(kk, kk.current) IN
           /\ r \in KernelStates /\ Queued(r) /\ r.ok = kk.ok
           /\ r.state = kk.state /\ r.wait_state = kk.wait_state
           /\ r.current = kk.current /\ r.timer_list = kk.timer_list
           /\ r.value = kk.value /\ r.wait_queue = kk.wait_queue
           /\ r.wakeup_flags = kk.wakeup_flags
<1> DEFINE p == kk.current
           slice == IF kk.time_slice[p] > 0 THEN kk.time_slice[p] - 1 ELSE 0
           resched == kk.need_resched[p] \/ slice = 0
           r == RR_proc_tick(kk, p)
<1>1. slice \in 0 .. MAX_TIME_SLICE
  BY Fields, SchedAssumption DEF All
<1>2. r = [kk EXCEPT !.time_slice[p] = slice, !.need_resched[p] = resched]
  BY DEF RR_proc_tick
<1>3. resched \in BOOLEAN
  OBVIOUS
<1> HIDE DEF slice, resched, r
<1>4. /\ r \in KernelStates /\ r.ok = kk.ok
      /\ r.state = kk.state /\ r.wait_state = kk.wait_state
      /\ r.current = kk.current /\ r.timer_list = kk.timer_list
      /\ r.value = kk.value /\ r.wait_queue = kk.wait_queue
      /\ r.wakeup_flags = kk.wakeup_flags /\ r.run_list = kk.run_list
  BY <1>1, <1>2, <1>3 DEF KernelStates
<1> QED
  BY <1>4 DEF Queued, r

\* The list does not hold a timer that has expired.
LEMMA CountedDown ==
    ASSUME NEW kk \in KernelStates, NEW due \in [Procs -> Nat], Counted(kk.timer_list, due),
           \A q \in Timed(kk.timer_list) : due[q] > 0
    PROVE  LET r == CountDown(kk)
               less == [q \in Procs |-> IF due[q] > 0 THEN due[q] - 1 ELSE 0]
           IN /\ r \in KernelStates /\ r = [kk EXCEPT !.timer_list = r.timer_list]
              /\ Timed(r.timer_list) = Timed(kk.timer_list)
              /\ Counted(r.timer_list, less)
<1> DEFINE r == CountDown(kk)
           l == kk.timer_list
           less == [q \in Procs |-> IF due[q] > 0 THEN due[q] - 1 ELSE 0]
<1>1. l \in Seq(Timers)
  BY Fields
<1>2. /\ Len(l) \in Nat /\ DOMAIN l = 1 .. Len(l)
      /\ \A i \in 1 .. Len(l) : l[i] \in Timers /\ l[i].proc \in Procs /\ l[i].expires \in Nat
  BY <1>1, TimerTypes
<1>3. CASE l = <<>>
  <2>1. r = kk
    BY <1>3 DEF CountDown
  <2>2. Counted(l, less)
    BY <1>3 DEF Counted
  <2>3. kk = [kk EXCEPT !.timer_list = l]
    BY DEF KernelStates
  <2> HIDE DEF r, less
  <2> QED
    BY <2>1, <2>2, <2>3 DEF r, less
<1>4. CASE l # <<>>
  <2>1. 1 \in 1 .. Len(l)
    BY <1>1, <1>2, <1>4, EmptySeq
  <2>2. \A i \in 1 .. Len(l) : due[l[i].proc] > 0
    BY <1>2 DEF Timed
  <2>3. l[1].expires = due[l[1].proc]
    BY <1>2, <2>1 DEF Counted
  <2>4. Check(kk, l[1].expires # 0) = kk
    <3>1. (l[1].expires # 0) = TRUE
      BY <1>2, <2>1, <2>2, <2>3
    <3> QED
      BY <3>1, CheckHolds
  <2> DEFINE e == [l[1] EXCEPT !.expires = @ - 1]
             m == [l EXCEPT ![1] = e]
  <2>5. r = [kk EXCEPT !.timer_list = m]
    BY <1>4, <2>4 DEF CountDown
  <2>6. e \in Timers /\ e.proc = l[1].proc /\ e.expires = l[1].expires - 1
    <3>1. l[1] \in Timers /\ l[1].expires \in Nat /\ l[1].expires > 0
      BY <1>2, <2>1, <2>2, <2>3
    <3> QED
      BY <3>1 DEF Timers
  <2> HIDE DEF e, l, r
  <2>7. /\ m \in Seq(Timers) /\ Len(m) = Len(l)
        /\ \A j \in 1 .. Len(l) : m[j] = IF j = 1 THEN e ELSE l[j]
    BY <1>1, <2>1, <2>6, ExceptSeq
  <2> HIDE DEF m
  <2>8. r \in KernelStates /\ r.timer_list = m /\ r = [kk EXCEPT !.timer_list = r.timer_list]
    BY <2>5, <2>7 DEF KernelStates, Timers
  <2>9. \A j \in 1 .. Len(l) : m[j].proc = l[j].proc
    BY <2>6, <2>7
  <2>10. Timed(m) = Timed(l)
    BY <2>7, <2>9 DEF Timed
  <2>11. \A j \in 1 .. Len(l) : less[l[j].proc] = due[l[j].proc] - 1 /\ due[l[j].proc] \in Nat
    BY <1>2, <2>2
  <2> HIDE DEF less
  <2>12. Counted(m, less)
    <3>1. ASSUME NEW i \in 1 .. Len(m), NEW j \in 1 .. Len(m), m[i].proc = m[j].proc
          PROVE  i = j
      BY <2>7, <2>9, <3>1 DEF Counted, l
    <3>2. ASSUME NEW i \in 1 .. Len(m)
          PROVE  m[i].expires = less[m[i].proc] - (IF i = 1 THEN 0 ELSE less[m[i - 1].proc])
      <4>1. i \in 1 .. Len(l) /\ l[i].expires = due[l[i].proc] - (IF i = 1 THEN 0 ELSE due[l[i - 1].proc])
        BY <2>7 DEF Counted, l
      <4>2. CASE i = 1
        BY <2>6, <2>7, <2>9, <2>11, <4>1, <4>2
      <4>3. CASE i # 1
        <5>1. i - 1 \in 1 .. Len(l)
          BY <1>2, <4>1, <4>3
        <5>2. m[i].expires = due[l[i].proc] - due[l[i - 1].proc]
          BY <2>7, <4>1, <4>3
        <5> QED
          <6>1. m[i].proc = l[i].proc /\ m[i - 1].proc = l[i - 1].proc
            BY <2>9, <4>1, <5>1
          <6>2. /\ less[l[i].proc] = due[l[i].proc] - 1 /\ due[l[i].proc] \in Nat
                /\ less[l[i - 1].proc] = due[l[i - 1].proc] - 1 /\ due[l[i - 1].proc] \in Nat
            BY <2>11, <4>1, <5>1
          <6>3. less[l[i].proc] - less[l[i - 1].proc] = due[l[i].proc] - due[l[i - 1].proc]
            <7> DEFINE x == less[l[i].proc]
                       y == less[l[i - 1].proc]
                       d == due[l[i].proc]
                       f == due[l[i - 1].proc]
            <7>1. x = d - 1 /\ d \in Nat /\ y = f - 1 /\ f \in Nat
              BY <6>2
            <7> HIDE DEF x, y, d, f
            <7>2. x - y = d - f
              BY <7>1
            <7> QED
              BY <7>2 DEF x, y, d, f
          <6> QED
            BY <4>3, <5>2, <6>1, <6>3
      <4> QED
        BY <4>2, <4>3
    <3> QED
      BY <3>1, <3>2 DEF Counted
  <2> QED
    BY <2>8, <2>10, <2>12 DEF r, less, l
<1> QED
  BY <1>3, <1>4

\* A process whose timer runs sleeps for it, or was woken and did not take
\* the timer off the list yet.
Sleepers(kk) ==
    \A q \in Timed(kk.timer_list) :
        \/ kk.state[q] = "RUNNABLE" /\ kk.wait_state[q] = "none"
        \/ kk.state[q] = "SLEEPING" /\ kk.wait_state[q] = "WT_TIMER"

LEMMA Expired ==
    ASSUME NEW kk \in KernelStates, Queued(kk), Sleepers(kk),
           NEW due \in [Procs -> Nat], Counted(kk.timer_list, due),
           kk.timer_list # <<>>, kk.timer_list[1].expires = 0,
           NEW p, p = kk.timer_list[1].proc
    PROVE  LET r == Expire(kk) IN
           /\ p \in Timed(kk.timer_list) /\ due[p] = 0
           /\ r \in KernelStates /\ Queued(r) /\ r.ok = kk.ok
           /\ r.state = [kk.state EXCEPT ![p] = "RUNNABLE"]
           /\ r.wait_state = [kk.wait_state EXCEPT ![p] = "none"]
           /\ r.current = kk.current
           /\ r.value = kk.value /\ r.wait_queue = kk.wait_queue
           /\ r.wakeup_flags = kk.wakeup_flags
           /\ Timed(r.timer_list) = Timed(kk.timer_list) \ {p}
           /\ Counted(r.timer_list, due)
           /\ Len(r.timer_list) = Len(kk.timer_list) - 1
<1> DEFINE r == Expire(kk)
           l == kk.timer_list
           ws == kk.wait_state[p]
           a == Check(kk, ws # "none" => Interruptible(ws))
           w == WakeupProc(kk, p)
<1>1. l \in Seq(Timers)
  BY Fields
<1>2. 1 \in 1 .. Len(l) /\ l[1].proc \in Procs
  BY <1>1, TimerTypes, EmptySeq
<1>3. p \in Timed(l) /\ p \in Procs
  BY <1>2 DEF Timed
<1>4. due[p] = 0
  BY <1>2, <1>3 DEF Counted
<1>5. \/ kk.state[p] = "RUNNABLE" /\ ws = "none"
      \/ kk.state[p] = "SLEEPING" /\ ws = "WT_TIMER"
  BY <1>3 DEF Sleepers
<1>6. a = kk
  <2>1. (ws # "none" => Interruptible(ws)) = TRUE
    BY <1>5 DEF Interruptible
  <2> QED
    BY <2>1, CheckHolds
<1>7. r = DelTimer(w, p)
  BY <1>6 DEF Expire
<1>8. /\ w \in KernelStates /\ Queued(w) /\ w.ok = kk.ok
      /\ w.state = [kk.state EXCEPT ![p] = "RUNNABLE"]
      /\ w.wait_state = [kk.wait_state EXCEPT ![p] = "none"]
      /\ w.current = kk.current /\ w.timer_list = kk.timer_list
      /\ w.value = kk.value /\ w.wait_queue = kk.wait_queue
      /\ w.wakeup_flags = kk.wakeup_flags
  BY <1>3, <1>5, Wakeup
<1> HIDE DEF r, w, a, ws, l
<1>9. /\ r = [w EXCEPT !.timer_list = r.timer_list]
      /\ r.timer_list \in Seq(Timers) /\ Timed(r.timer_list) = Timed(l) \ {p}
      /\ Counted(r.timer_list, due)
      /\ Len(r.timer_list) = Len(l) - 1
  <2>1. w.timer_list = l /\ Counted(w.timer_list, due) /\ p \in Timed(w.timer_list)
    BY <1>3, <1>8 DEF l
  <2> QED
    BY <1>3, <1>7, <1>8, <2>1, RemoveTimer
<1>10. /\ r \in KernelStates /\ r.ok = w.ok /\ r.state = w.state /\ r.wait_state = w.wait_state
       /\ r.current = w.current /\ r.value = w.value /\ r.wait_queue = w.wait_queue
       /\ r.wakeup_flags = w.wakeup_flags /\ r.run_list = w.run_list
  BY <1>8, <1>9 DEF KernelStates, Timers
<1>11. Queued(r)
  BY <1>8, <1>10 DEF Queued
<1> QED
  BY <1>3, <1>4, <1>8, <1>9, <1>10, <1>11 DEF r, l

\* One round of the loop in ExpireTimers.
Round(kk) ==
    IF kk.timer_list # <<>> /\ kk.timer_list[1].expires = 0 THEN Expire(kk) ELSE kk

LEMMA RoundsExist ==
    ASSUME NEW kk, NEW n \in Nat, n = Len(kk.timer_list)
    PROVE  \E g : /\ g[0] = kk /\ ExpireTimers(kk) = g[n]
                  /\ \A i \in 1 .. n : g[i] = Round(g[i - 1])
<1> DEFINE Eq(g, m) == g = [i \in 0 .. m |-> IF i = 0 THEN kk ELSE Round(g[i - 1])]
           bad == {m \in Nat : ~\E g : Eq(g, m)}
           after == CHOOSE g : Eq(g, n)
<1>1. ASSUME bad # {} PROVE FALSE
  <2> DEFINE m == Min(bad)
  <2>1. m \in bad /\ \A j \in bad : m <= j
    BY <1>1, LeastOfNat
  <2>2. m # 0
    <3>1. Eq([j \in 0 .. 0 |-> kk], 0)
      OBVIOUS
    <3> QED
      BY <2>1, <3>1
  <2> HIDE DEF m
  <2>3. m \in Nat /\ m - 1 \in Nat /\ m - 1 \notin bad
    <3> HIDE DEF Eq
    <3>1. m \in Nat
      BY <2>1
    <3> HIDE DEF bad
    <3> QED
      BY <2>1, <2>2, <3>1
  <2>4. PICK g : Eq(g, m - 1)
    BY <2>3
  <2> DEFINE h == [j \in 0 .. m |-> IF j = 0 THEN kk ELSE Round(g[j - 1])]
  <2>5. \A j \in 0 .. m - 1 : h[j] = g[j]
    BY <2>3, <2>4
  <2>6. \A j \in 0 .. m : j # 0 => j - 1 \in 0 .. m - 1
    BY <2>3
  <2>7. \A j \in 0 .. m : j # 0 => h[j - 1] = g[j - 1]
    <3> HIDE DEF h
    <3> QED
      BY <2>5, <2>6
  <2>8. Eq(h, m)
    BY <2>7
  <2> QED
    BY <2>1, <2>8
<1>2. Eq(after, n)
  BY <1>1
<1>3. ExpireTimers(kk) = after[n]
  BY DEF ExpireTimers, Round
<1> HIDE DEF after
<1>4. after[0] = kk
  <2>1. 0 \in 0 .. n
    OBVIOUS
  <2> QED
    BY <1>2, <2>1
<1>5. ASSUME NEW i \in 1 .. n PROVE after[i] = Round(after[i - 1])
  <2>1. i \in 0 .. n /\ i # 0
    OBVIOUS
  <2> HIDE DEF bad
  <2> QED
    BY <1>2, <2>1
<1> QED
  BY <1>3, <1>4, <1>5

\* The loop wakes the processes whose timers are due, and no others.
LEMMA AllExpired ==
    ASSUME NEW kk \in KernelStates, Queued(kk), Sleepers(kk),
           NEW due \in [Procs -> Nat], Counted(kk.timer_list, due)
    PROVE  LET r == ExpireTimers(kk)
               over == {q \in Timed(kk.timer_list) : due[q] = 0}
           IN /\ r \in KernelStates /\ Queued(r) /\ r.ok = kk.ok
              /\ r.state = [q \in All |-> IF q \in over THEN "RUNNABLE" ELSE kk.state[q]]
              /\ r.wait_state = [q \in All |-> IF q \in over THEN "none" ELSE kk.wait_state[q]]
              /\ r.current = kk.current
              /\ r.value = kk.value /\ r.wait_queue = kk.wait_queue
              /\ r.wakeup_flags = kk.wakeup_flags
              /\ Timed(r.timer_list) = Timed(kk.timer_list) \ over
              /\ Counted(r.timer_list, due)
<1> DEFINE r == ExpireTimers(kk)
           n == Len(kk.timer_list)
           T == Timed(kk.timer_list)
           over == {q \in T : due[q] = 0}
           Done(b) == T \ Timed(b.timer_list)
           Good(b, i) ==
              /\ b \in KernelStates /\ Queued(b) /\ b.ok = kk.ok
              /\ b.state = [q \in All |-> IF q \in Done(b) THEN "RUNNABLE" ELSE kk.state[q]]
              /\ b.wait_state = [q \in All |-> IF q \in Done(b) THEN "none" ELSE kk.wait_state[q]]
              /\ b.current = kk.current
              /\ b.value = kk.value /\ b.wait_queue = kk.wait_queue
              /\ b.wakeup_flags = kk.wakeup_flags
              /\ Timed(b.timer_list) \subseteq T /\ Done(b) \subseteq over
              /\ Counted(b.timer_list, due)
              /\ \/ b.timer_list = <<>> \/ b.timer_list[1].expires # 0
                 \/ Len(b.timer_list) <= n - i
<1>1. n \in Nat /\ T \subseteq Procs
  BY Fields, TimerTypes DEF Timed
<1>2. PICK g : g[0] = kk /\ r = g[n] /\ \A i \in 1 .. n : g[i] = Round(g[i - 1])
  BY <1>1, RoundsExist
<1> HIDE DEF r, T
<1>3. Good(kk, 0)
  <2>1. Done(kk) = {}
    BY DEF T
  <2> HIDE DEF Done
  <2>2. /\ kk.state = [q \in All |-> IF q \in Done(kk) THEN "RUNNABLE" ELSE kk.state[q]]
        /\ kk.wait_state = [q \in All |-> IF q \in Done(kk) THEN "none" ELSE kk.wait_state[q]]
    BY <2>1, Fields
  <2> QED
    BY <1>1, <2>1, <2>2 DEF T
<1>4. ASSUME NEW i \in 1 .. n, NEW b, Good(b, i - 1)
      PROVE  Good(Round(b), i)
  <2>1. CASE b.timer_list # <<>> /\ b.timer_list[1].expires = 0
    <3> DEFINE p == b.timer_list[1].proc
               c == Expire(b)
    <3>1. Sleepers(b)
      <4> SUFFICES ASSUME NEW q \in Timed(b.timer_list)
                   PROVE  \/ b.state[q] = "RUNNABLE" /\ b.wait_state[q] = "none"
                          \/ b.state[q] = "SLEEPING" /\ b.wait_state[q] = "WT_TIMER"
        BY DEF Sleepers
      <4>1. q \in T /\ q \notin Done(b) /\ q \in All
        BY <1>1, <1>4 DEF All
      <4>2. b.state[q] = kk.state[q] /\ b.wait_state[q] = kk.wait_state[q]
        <5> HIDE DEF Done
        <5> QED
          BY <1>4, <4>1
      <4> QED
        BY <4>1, <4>2 DEF Sleepers, T
    <3>2. /\ p \in Timed(b.timer_list) /\ due[p] = 0
          /\ c \in KernelStates /\ Queued(c) /\ c.ok = b.ok
          /\ c.state = [b.state EXCEPT ![p] = "RUNNABLE"]
          /\ c.wait_state = [b.wait_state EXCEPT ![p] = "none"]
          /\ c.current = b.current
          /\ c.value = b.value /\ c.wait_queue = b.wait_queue
          /\ c.wakeup_flags = b.wakeup_flags
          /\ Timed(c.timer_list) = Timed(b.timer_list) \ {p}
          /\ Counted(c.timer_list, due)
          /\ Len(c.timer_list) = Len(b.timer_list) - 1
      BY <1>4, <2>1, <3>1, Expired
    <3>3. Round(b) = c
      BY <2>1 DEF Round
    <3> HIDE DEF p, c
    <3>4. Done(c) = Done(b) \cup {p} /\ p \in T /\ p \in over /\ p \in All
      BY <1>1, <1>4, <3>2 DEF All
    <3>5. Timed(c.timer_list) \subseteq T /\ Done(c) \subseteq over
      BY <1>4, <3>2, <3>4
    <3>6. Len(c.timer_list) <= n - i
      <4>1. Len(b.timer_list) <= n - (i - 1)
        BY <1>4, <2>1
      <4>2. Len(b.timer_list) \in Nat /\ i \in Nat
        BY <1>1, <1>4, Fields, TimerTypes
      <4> QED
        BY <1>1, <3>2, <4>1, <4>2
    <3> HIDE DEF Done, over, n
    <3>7. c.state = [q \in All |-> IF q \in Done(c) THEN "RUNNABLE" ELSE kk.state[q]]
      BY <1>4, <3>2, <3>4
    <3>8. c.wait_state = [q \in All |-> IF q \in Done(c) THEN "none" ELSE kk.wait_state[q]]
      BY <1>4, <3>2, <3>4
    <3> QED
      BY <1>4, <3>2, <3>3, <3>5, <3>6, <3>7, <3>8
  <2>2. CASE ~(b.timer_list # <<>> /\ b.timer_list[1].expires = 0)
    <3>1. Round(b) = b
      BY <2>2 DEF Round
    <3> HIDE DEF Done, over
    <3> QED
      BY <1>4, <2>2, <3>1
  <2> QED
    BY <2>1, <2>2
<1> HIDE DEF Good
<1>5. Good(r, n)
  <2> DEFINE bad == {i \in 0 .. n : ~Good(g[i], i)}
  <2>1. ASSUME bad # {} PROVE FALSE
    <3>1. PICK i \in bad : \A j \in bad : i <= j
      <4>1. bad \subseteq Nat
        BY <1>1
      <4> HIDE DEF bad
      <4> QED
        BY <2>1, <4>1, LeastOfNat
    <3>2. i \in 0 .. n /\ ~Good(g[i], i)
      BY <3>1
    <3>3. i # 0
      BY <1>2, <1>3, <3>2
    <3>4. i \in 1 .. n /\ i - 1 \in 0 .. n /\ i - 1 \notin bad
      BY <1>1, <3>1, <3>2, <3>3
    <3>5. Good(g[i - 1], i - 1)
      BY <3>4
    <3> QED
      BY <1>2, <1>4, <3>2, <3>4, <3>5
  <2>2. n \in 0 .. n
    BY <1>1
  <2> QED
    BY <1>2, <2>1, <2>2
<1>6. /\ r \in KernelStates /\ Counted(r.timer_list, due)
      /\ Timed(r.timer_list) \subseteq T /\ Done(r) \subseteq over
      /\ \/ r.timer_list = <<>> \/ r.timer_list[1].expires # 0
         \/ Len(r.timer_list) <= n - n
  BY <1>5 DEF Good
<1>7. Len(r.timer_list) > 0 => r.timer_list[1].expires > 0
  <2>1. r.timer_list \in Seq(Timers) /\ Len(r.timer_list) \in Nat
    BY <1>6, Fields, TimerTypes
  <2>2. Len(r.timer_list) > 0 => 1 \in 1 .. Len(r.timer_list) /\ r.timer_list # <<>>
    BY <2>1
  <2>3. Len(r.timer_list) > 0 => r.timer_list[1].expires \in Nat
    BY <2>1, <2>2, TimerTypes
  <2> QED
    BY <1>1, <1>6, <2>1, <2>2, <2>3
<1>8. \A q \in Timed(r.timer_list) : due[q] > 0
  BY <1>6, <1>7, Fields, FirstIsSoonest
<1>9. Done(r) = over /\ Timed(r.timer_list) = T \ over
  BY <1>1, <1>6, <1>8
<1> HIDE DEF Done, over
<1> QED
  BY <1>5, <1>9 DEF Good, r, over, T

\* A tick wakes the processes that had one tick to sleep.
LEMMA TimerRan ==
    ASSUME NEW kk \in KernelStates, Queued(kk), Sleepers(kk),
           NEW due \in [Procs -> Nat], Counted(kk.timer_list, due),
           Timed(kk.timer_list) = {q \in Procs : due[q] > 0}
    PROVE  LET r == RunTimerList(kk)
               less == [q \in Procs |-> IF due[q] > 0 THEN due[q] - 1 ELSE 0]
               over == {q \in Procs : due[q] = 1}
           IN /\ r \in KernelStates /\ Queued(r) /\ r.ok = kk.ok
              /\ r.state = [q \in All |-> IF q \in over THEN "RUNNABLE" ELSE kk.state[q]]
              /\ r.wait_state = [q \in All |-> IF q \in over THEN "none" ELSE kk.wait_state[q]]
              /\ r.current = kk.current
              /\ r.value = kk.value /\ r.wait_queue = kk.wait_queue
              /\ r.wakeup_flags = kk.wakeup_flags
              /\ Counted(r.timer_list, less)
              /\ Timed(r.timer_list) = {q \in Procs : less[q] > 0}
<1> DEFINE r == RunTimerList(kk)
           less == [q \in Procs |-> IF due[q] > 0 THEN due[q] - 1 ELSE 0]
           over == {q \in Procs : due[q] = 1}
           c == CountDown(kk)
           b == ExpireTimers(c)
           T == Timed(kk.timer_list)
<1>1. /\ c \in KernelStates /\ c = [kk EXCEPT !.timer_list = c.timer_list]
      /\ Timed(c.timer_list) = T /\ Counted(c.timer_list, less)
  BY CountedDown
<1>2. less \in [Procs -> Nat]
  OBVIOUS
<1>3. /\ c.ok = kk.ok /\ c.state = kk.state /\ c.wait_state = kk.wait_state
      /\ c.current = kk.current /\ c.value = kk.value /\ c.wait_queue = kk.wait_queue
      /\ c.wakeup_flags = kk.wakeup_flags /\ c.run_list = kk.run_list
  <2> HIDE DEF c
  <2> QED
    BY <1>1 DEF KernelStates
<1>4. Queued(c) /\ Sleepers(c)
  <2> HIDE DEF c
  <2> QED
    BY <1>1, <1>3 DEF Queued, Sleepers
<1>5. over = {q \in T : less[q] = 0} /\ T \ over = {q \in Procs : less[q] > 0}
  OBVIOUS
<1>6. /\ b \in KernelStates /\ Queued(b) /\ b.ok = kk.ok
      /\ b.state = [q \in All |-> IF q \in over THEN "RUNNABLE" ELSE kk.state[q]]
      /\ b.wait_state = [q \in All |-> IF q \in over THEN "none" ELSE kk.wait_state[q]]
      /\ b.current = kk.current
      /\ b.value = kk.value /\ b.wait_queue = kk.wait_queue
      /\ b.wakeup_flags = kk.wakeup_flags
      /\ Timed(b.timer_list) = T \ over
      /\ Counted(b.timer_list, less)
  <2> DEFINE past == {q \in Timed(c.timer_list) : less[q] = 0}
  <2> HIDE DEF c, less, over, T
  <2>1. past = over
    BY <1>1, <1>5
  <2>2. /\ b \in KernelStates /\ Queued(b) /\ b.ok = c.ok
        /\ b.state = [q \in All |-> IF q \in past THEN "RUNNABLE" ELSE c.state[q]]
        /\ b.wait_state = [q \in All |-> IF q \in past THEN "none" ELSE c.wait_state[q]]
        /\ b.current = c.current
        /\ b.value = c.value /\ b.wait_queue = c.wait_queue
        /\ b.wakeup_flags = c.wakeup_flags
        /\ Timed(b.timer_list) = Timed(c.timer_list) \ past
        /\ Counted(b.timer_list, less)
    BY <1>1, <1>2, <1>4, AllExpired
  <2> HIDE DEF past, b
  <2> QED
    BY <1>1, <1>3, <2>1, <2>2
<1>7. r = IF kk.current = idleproc THEN [b EXCEPT !.need_resched[idleproc] = TRUE]
          ELSE RR_proc_tick(b, kk.current)
  BY DEF RunTimerList
<1> HIDE DEF b, c, r, less, over, T
<1>8. /\ r \in KernelStates /\ Queued(r) /\ r.ok = b.ok
      /\ r.state = b.state /\ r.wait_state = b.wait_state
      /\ r.current = b.current /\ r.timer_list = b.timer_list
      /\ r.value = b.value /\ r.wait_queue = b.wait_queue
      /\ r.wakeup_flags = b.wakeup_flags
  <2>1. CASE kk.current = idleproc
    <3>1. r = [b EXCEPT !.need_resched[idleproc] = TRUE]
      BY <1>7, <2>1
    <3>2. /\ r \in KernelStates /\ r.ok = b.ok
          /\ r.state = b.state /\ r.wait_state = b.wait_state
          /\ r.current = b.current /\ r.timer_list = b.timer_list
          /\ r.value = b.value /\ r.wait_queue = b.wait_queue
          /\ r.wakeup_flags = b.wakeup_flags /\ r.run_list = b.run_list
      BY <1>6, <3>1 DEF KernelStates
    <3> QED
      BY <1>6, <3>2 DEF Queued
  <2>2. CASE kk.current # idleproc
    <3>1. b.current \in Procs /\ r = RR_proc_tick(b, b.current)
      BY <1>6, <1>7, <2>2, Fields DEF All
    <3> QED
      BY <1>6, <3>1, ProcTick
  <2> QED
    BY <2>1, <2>2
<1> QED
  BY <1>5, <1>6, <1>8 DEF r, less, over, T

\* The tail of a queue that holds nobody twice.
LEMMA TailOfQueue ==
    ASSUME NEW R, NEW q \in Seq(R), IsInjective(q), q # <<>>
    PROVE  /\ Tail(q) \in Seq(R) /\ IsInjective(Tail(q))
           /\ Head(q) \in ToSet(q) /\ Head(q) \in R
           /\ ToSet(Tail(q)) = ToSet(q) \ {Head(q)}
<1> DEFINE n == Len(q)
           t == Tail(q)
<1>1. /\ n \in Nat /\ n > 0 /\ DOMAIN q = 1 .. n
      /\ Head(q) = q[1] /\ \A i \in 1 .. n : q[i] \in R
  BY LenProperties, EmptySeq
<1>2. /\ t \in Seq(R) /\ Len(t) = n - 1 /\ DOMAIN t = 1 .. n - 1
      /\ \A i \in 1 .. n - 1 : t[i] = q[i + 1]
  BY <1>1
<1>3. \A i, j \in 1 .. n : q[i] = q[j] => i = j
  BY <1>1 DEF IsInjective
<1>4. ToSet(q) = {q[i] : i \in 1 .. n} /\ ToSet(t) = {t[i] : i \in 1 .. n - 1}
  BY <1>1, <1>2 DEF ToSet
<1>5. 1 \in 1 .. n
  BY <1>1
<1> HIDE DEF n, t
<1>6. \A i \in 1 .. n - 1 : i + 1 \in 1 .. n /\ i + 1 # 1
  BY <1>1
<1>7. IsInjective(t)
  <2> SUFFICES ASSUME NEW i \in 1 .. n - 1, NEW j \in 1 .. n - 1, t[i] = t[j]
               PROVE  i = j
    BY <1>2 DEF IsInjective
  <2>1. i + 1 = j + 1
    BY <1>2, <1>3, <1>6
  <2> QED
    BY <1>1, <2>1
<1>8. \A x \in ToSet(t) : x \in ToSet(q) \ {Head(q)}
  BY <1>1, <1>2, <1>3, <1>4, <1>5, <1>6
<1>9. ASSUME NEW x \in ToSet(q) \ {Head(q)} PROVE x \in ToSet(t)
  <2>1. PICK i \in 1 .. n : x = q[i] /\ i # 1
    BY <1>1, <1>4
  <2>2. i - 1 \in 1 .. n - 1 /\ (i - 1) + 1 = i
    BY <1>1, <2>1
  <2>3. t[i - 1] = x
    BY <1>2, <2>1, <2>2
  <2> QED
    BY <1>4, <2>2, <2>3
<1> QED
  BY <1>1, <1>2, <1>4, <1>5, <1>7, <1>8, <1>9 DEF n, t

LEMMA UpNobodyWaits ==
    ASSUME NEW kk \in KernelStates, NEW s \in Sems, Queued(kk), kk.wait_queue[s] = <<>>
    PROVE  LET r == Up(kk, s) IN
           /\ r \in KernelStates /\ Queued(r) /\ r.ok = kk.ok
           /\ r.state = kk.state /\ r.wait_state = kk.wait_state
           /\ r.current = kk.current /\ r.timer_list = kk.timer_list
           /\ r.value = [kk.value EXCEPT ![s] = @ + 1] /\ r.wait_queue = kk.wait_queue
           /\ r.wakeup_flags = kk.wakeup_flags
<1> DEFINE r == Up(kk, s)
           units == kk.value[s] + 1
<1>1. r = [kk EXCEPT !.value[s] = units]
  BY DEF Up
<1>2. units \in Nat
  BY Fields
<1>3. [kk.value EXCEPT ![s] = @ + 1] = [kk.value EXCEPT ![s] = units]
  OBVIOUS
<1> HIDE DEF r, units
<1>4. /\ r \in KernelStates /\ r.ok = kk.ok
      /\ r.state = kk.state /\ r.wait_state = kk.wait_state
      /\ r.current = kk.current /\ r.timer_list = kk.timer_list
      /\ r.value = [kk.value EXCEPT ![s] = units] /\ r.wait_queue = kk.wait_queue
      /\ r.wakeup_flags = kk.wakeup_flags /\ r.run_list = kk.run_list
  BY <1>1, <1>2 DEF KernelStates
<1> QED
  BY <1>3, <1>4 DEF Queued, r

\* r is kk after p, the first waiter for s, has been given a unit.
HandedOver(kk, r, p, s) ==
    /\ r \in KernelStates /\ Queued(r) /\ r.ok = kk.ok
    /\ r.state = [kk.state EXCEPT ![p] = "RUNNABLE"]
    /\ r.wait_state = [kk.wait_state EXCEPT ![p] = "none"]
    /\ r.current = kk.current /\ r.timer_list = kk.timer_list /\ r.value = kk.value
    /\ r.wait_queue = [kk.wait_queue EXCEPT ![s] = Tail(@)]
    /\ r.wakeup_flags = [kk.wakeup_flags EXCEPT ![p] = "WT_KSEM"]

LEMMA UpHandsOver ==
    ASSUME NEW kk \in KernelStates, NEW s \in Sems, Queued(kk), kk.wait_queue[s] # <<>>,
           NEW p \in Procs, p = Head(kk.wait_queue[s]),
           kk.state[p] = "SLEEPING", kk.wait_state[p] = "WT_KSEM"
    PROVE  HandedOver(kk, Up(kk, s), p, s)
<1> DEFINE r == Up(kk, s)
           t == Tail(kk.wait_queue[s])
           b == [kk EXCEPT !.wait_queue[s] = t, !.wakeup_flags[p] = "WT_KSEM"]
<1>1. Check(kk, kk.wait_state[p] = "WT_KSEM") = kk
  <2>1. (kk.wait_state[p] = "WT_KSEM") = TRUE
    OBVIOUS
  <2> QED
    BY <2>1, CheckHolds
<1>2. r = WakeupProc(b, p)
  BY <1>1 DEF Up
<1>3. t \in Seq(Procs) /\ kk.wait_queue[s] \in Seq(Procs)
  BY Fields
<1>4. [kk.wait_queue EXCEPT ![s] = Tail(@)] = [kk.wait_queue EXCEPT ![s] = t]
  OBVIOUS
<1> HIDE DEF t, r
<1>5. /\ b \in KernelStates /\ b.ok = kk.ok
      /\ b.state = kk.state /\ b.wait_state = kk.wait_state
      /\ b.current = kk.current /\ b.timer_list = kk.timer_list
      /\ b.value = kk.value /\ b.wait_queue = [kk.wait_queue EXCEPT ![s] = t]
      /\ b.wakeup_flags = [kk.wakeup_flags EXCEPT ![p] = "WT_KSEM"] /\ b.run_list = kk.run_list
  BY <1>3 DEF KernelStates, All
<1> HIDE DEF b
<1>6. Queued(b)
  BY <1>5 DEF Queued
<1>7. /\ r \in KernelStates /\ Queued(r) /\ r.ok = b.ok
      /\ r.state = [b.state EXCEPT ![p] = "RUNNABLE"]
      /\ r.wait_state = [b.wait_state EXCEPT ![p] = "none"]
      /\ r.current = b.current /\ r.timer_list = b.timer_list
      /\ r.value = b.value /\ r.wait_queue = b.wait_queue
      /\ r.wakeup_flags = b.wakeup_flags
  <2>1. b.state[p] # "ZOMBIE" /\ b.state[p] # "RUNNABLE"
    BY <1>5
  <2>2. /\ WakeupProc(b, p) \in KernelStates /\ Queued(WakeupProc(b, p))
        /\ WakeupProc(b, p).ok = b.ok
        /\ WakeupProc(b, p).state = [b.state EXCEPT ![p] = "RUNNABLE"]
        /\ WakeupProc(b, p).wait_state = [b.wait_state EXCEPT ![p] = "none"]
        /\ WakeupProc(b, p).current = b.current
        /\ WakeupProc(b, p).timer_list = b.timer_list
        /\ WakeupProc(b, p).value = b.value
        /\ WakeupProc(b, p).wait_queue = b.wait_queue
        /\ WakeupProc(b, p).wakeup_flags = b.wakeup_flags
    <3>1. b \in KernelStates
      BY <1>5
    <3> QED
      BY <1>6, <2>1, <3>1, Wakeup
  <2> QED
    BY <1>2, <2>2
<1> QED
  BY <1>4, <1>5, <1>7 DEF HandedOver, r

LEMMA UnitTaken ==
    ASSUME NEW kk \in KernelStates, NEW s \in Sems, Queued(kk), kk.value[s] > 0
    PROVE  LET r == TakeUnit(kk, s) IN
           /\ r \in KernelStates /\ Queued(r) /\ r.ok = kk.ok
           /\ r.state = kk.state /\ r.wait_state = kk.wait_state
           /\ r.current = kk.current /\ r.timer_list = kk.timer_list
           /\ r.value = [kk.value EXCEPT ![s] = @ - 1] /\ r.wait_queue = kk.wait_queue
           /\ r.wakeup_flags = kk.wakeup_flags
<1> DEFINE r == TakeUnit(kk, s)
           units == kk.value[s] - 1
<1>1. r = [kk EXCEPT !.value[s] = units]
  BY DEF TakeUnit
<1>2. units \in Nat
  BY Fields
<1>3. [kk.value EXCEPT ![s] = @ - 1] = [kk.value EXCEPT ![s] = units]
  OBVIOUS
<1> HIDE DEF r, units
<1>4. /\ r \in KernelStates /\ r.ok = kk.ok
      /\ r.state = kk.state /\ r.wait_state = kk.wait_state
      /\ r.current = kk.current /\ r.timer_list = kk.timer_list
      /\ r.value = [kk.value EXCEPT ![s] = units] /\ r.wait_queue = kk.wait_queue
      /\ r.wakeup_flags = kk.wakeup_flags /\ r.run_list = kk.run_list
  BY <1>1, <1>2 DEF KernelStates
<1> QED
  BY <1>3, <1>4 DEF Queued, r

\* r is kk after p, the current process, has joined the queue of s.
GoneToWait(kk, r, p, s) ==
    /\ r \in KernelStates /\ Queued(r) /\ r.ok = kk.ok
    /\ r.state[p] = "SLEEPING" /\ r.wait_state[p] = "WT_KSEM"
    /\ \A q \in All : q # p => /\ r.state[q] = kk.state[q]
                              /\ r.wait_state[q] = kk.wait_state[q]
                              /\ r.wakeup_flags[q] = kk.wakeup_flags[q]
    /\ r.current = kk.current /\ r.timer_list = kk.timer_list /\ r.value = kk.value
    /\ r.wait_queue = [kk.wait_queue EXCEPT ![s] = Append(@, p)]

LEMMA WaitSet ==
    ASSUME NEW kk \in KernelStates, NEW s \in Sems, Queued(kk),
           NEW p \in Procs, p = kk.current,
           \A r \in Sems : p \notin ToSet(kk.wait_queue[r])
    PROVE  GoneToWait(kk, WaitCurrentSet(kk, s), p, s)
<1> DEFINE r == WaitCurrentSet(kk, s)
           l == Append(kk.wait_queue[s], p)
<1>1. Check(kk, \A x \in Sems : p \notin ToSet(kk.wait_queue[x])) = kk
  <2>1. (\A x \in Sems : p \notin ToSet(kk.wait_queue[x])) = TRUE
    OBVIOUS
  <2> QED
    BY <2>1, CheckHolds
<1>2. r = [kk EXCEPT !.state[p] = "SLEEPING", !.wait_state[p] = "WT_KSEM",
                     !.wakeup_flags[p] = "WT_INTERRUPTED", !.wait_queue[s] = l]
  BY <1>1 DEF WaitCurrentSet
<1>3. l \in Seq(Procs)
  BY Fields
<1>4. [kk.wait_queue EXCEPT ![s] = Append(@, p)] = [kk.wait_queue EXCEPT ![s] = l]
  OBVIOUS
<1> HIDE DEF r, l
<1>5. /\ r \in KernelStates /\ r.ok = kk.ok
      /\ r.state = [kk.state EXCEPT ![p] = "SLEEPING"]
      /\ r.wait_state = [kk.wait_state EXCEPT ![p] = "WT_KSEM"]
      /\ r.current = kk.current /\ r.timer_list = kk.timer_list
      /\ r.value = kk.value
      /\ r.wait_queue = [kk.wait_queue EXCEPT ![s] = l]
      /\ r.wakeup_flags = [kk.wakeup_flags EXCEPT ![p] = "WT_INTERRUPTED"]
      /\ r.run_list = kk.run_list
  BY <1>2, <1>3 DEF KernelStates, All
<1>6. /\ r.state[p] = "SLEEPING" /\ r.wait_state[p] = "WT_KSEM"
      /\ \A q \in All : q # p => /\ r.state[q] = kk.state[q]
                                /\ r.wait_state[q] = kk.wait_state[q]
                                /\ r.wakeup_flags[q] = kk.wakeup_flags[q]
  BY <1>5, Fields
<1>7. \A q \in Procs \ {p} : r.state[q] = kk.state[q]
  BY <1>5, Fields DEF All
<1>8. Queued(r)
  BY <1>5, <1>7 DEF Queued
<1> QED
  BY <1>4, <1>5, <1>6, <1>8 DEF GoneToWait, r

\* Nothing but up() woke it, and up() took it off the queue.
LEMMA WaitOver ==
    ASSUME NEW kk \in KernelStates, NEW s \in Sems, Queued(kk), kk.current \in Procs,
           kk.wakeup_flags[kk.current] = "WT_KSEM", kk.current \notin ToSet(kk.wait_queue[s])
    PROVE  DownReturns(kk, s) = kk
<1> DEFINE p == kk.current
           q == kk.wait_queue[s]
<1>1. Check(kk, kk.wakeup_flags[p] = "WT_KSEM") = kk
  <2>1. (kk.wakeup_flags[p] = "WT_KSEM") = TRUE
    OBVIOUS
  <2> QED
    BY <2>1, CheckHolds
<1>2. q \in Seq(Procs)
  BY Fields
<1>3. \A i \in 1 .. Len(q) : q[i] # p
  BY <1>2, LenProperties DEF ToSet
<1>4. RemoveFirst(q, p) = q
  BY <1>3 DEF RemoveFirst
<1>5. DownReturns(kk, s) = [kk EXCEPT !.wait_queue[s] = RemoveFirst(q, p)]
  BY <1>1 DEF DownReturns
<1>6. [kk EXCEPT !.wait_queue[s] = q] = kk
  BY DEF KernelStates
<1> QED
  BY <1>4, <1>5, <1>6

\* r is kk after p, the current process, has gone to sleep until `due'.
GoneToSleep(kk, r, p, due) ==
    /\ r \in KernelStates /\ Queued(r) /\ r.ok = kk.ok
    /\ r.state[p] = "SLEEPING" /\ r.wait_state[p] = "WT_TIMER"
    /\ \A q \in All : q # p => r.state[q] = kk.state[q] /\ r.wait_state[q] = kk.wait_state[q]
    /\ r.current = kk.current
    /\ r.value = kk.value /\ r.wait_queue = kk.wait_queue
    /\ r.wakeup_flags = kk.wakeup_flags
    /\ Counted(r.timer_list, due)
    /\ Timed(r.timer_list) = Timed(kk.timer_list) \cup {p}

LEMMA SleepBegun ==
    ASSUME NEW kk \in KernelStates, Queued(kk), NEW p \in Procs, p = kk.current,
           NEW due \in [Procs -> Nat], Counted(kk.timer_list, due),
           p \notin Timed(kk.timer_list), NEW ticks \in Nat \ {0},
           NEW asked, asked = [due EXCEPT ![p] = ticks]
    PROVE  GoneToSleep(kk, SleepFor(kk, ticks), p, asked)
<1> DEFINE a == [kk EXCEPT !.state[p] = "SLEEPING", !.wait_state[p] = "WT_TIMER"]
           r == SleepFor(kk, ticks)
<1>1. r = AddTimer(a, p, ticks)
  BY DEF SleepFor
<1>2. /\ a \in KernelStates /\ a.ok = kk.ok
      /\ a.state = [kk.state EXCEPT ![p] = "SLEEPING"]
      /\ a.wait_state = [kk.wait_state EXCEPT ![p] = "WT_TIMER"]
      /\ a.current = kk.current /\ a.timer_list = kk.timer_list
      /\ a.value = kk.value /\ a.wait_queue = kk.wait_queue
      /\ a.wakeup_flags = kk.wakeup_flags /\ a.run_list = kk.run_list
  BY DEF KernelStates, All
<1> HIDE DEF a, r
<1>3. /\ r = [a EXCEPT !.timer_list = r.timer_list]
      /\ r.timer_list \in Seq(Timers)
      /\ Timed(r.timer_list) = Timed(kk.timer_list) \cup {p}
      /\ Counted(r.timer_list, asked)
  <2>1. Counted(a.timer_list, due) /\ p \notin Timed(a.timer_list)
    BY <1>2
  <2>2. /\ r = [a EXCEPT !.timer_list = r.timer_list]
        /\ r.timer_list \in Seq(Timers)
        /\ Timed(r.timer_list) = Timed(a.timer_list) \cup {p}
        /\ Counted(r.timer_list, asked)
    <3>1. a \in KernelStates
      BY <1>2
    <3> QED
      BY <1>1, <2>1, <3>1, InsertTimer
  <2> QED
    BY <1>2, <2>2
<1>4. /\ r \in KernelStates /\ r.ok = a.ok /\ r.state = a.state /\ r.wait_state = a.wait_state
      /\ r.current = a.current /\ r.value = a.value /\ r.wait_queue = a.wait_queue
      /\ r.wakeup_flags = a.wakeup_flags /\ r.run_list = a.run_list
  BY <1>2, <1>3 DEF KernelStates, Timers
<1>5. /\ r.state[p] = "SLEEPING" /\ r.wait_state[p] = "WT_TIMER"
      /\ \A q \in All : q # p => /\ r.state[q] = kk.state[q]
                                /\ r.wait_state[q] = kk.wait_state[q]
  BY <1>2, <1>4, Fields DEF All
<1>6. Queued(r)
  BY <1>2, <1>4, <1>5 DEF Queued, All
<1> QED
  BY <1>2, <1>3, <1>4, <1>5, <1>6 DEF GoneToSleep, r

-----------------------------------------------------------------------------

(***************************************************************************)
(* The inductive invariant.  Placed says what the kernel knows of a        *)
(* process at each label of its code, Switched where a process can be that *)
(* does not run, WaitQueues who waits in the queue of a semaphore.         *)
(***************************************************************************)

Timely ==
    /\ Counted(k.timer_list, left)
    /\ Timed(k.timer_list) = {p \in Procs : left[p] > 0}

IdleRuns ==
    k.state[idleproc] = "RUNNABLE" /\ k.wait_state[idleproc] = "none" /\ pc[idleproc] = "run"

Placed(p) ==
    /\ k.state[p] # "UNINIT" /\ (k.state[p] = "ZOMBIE" <=> pc[p] = "dead")
    /\ k.state[p] = "SLEEPING" <=> k.wait_state[p] # "none"
    /\ k.wait_state[p] # "WT_CHILD"
    /\ k.wait_state[p] = "WT_TIMER" => left[p] > 0
    /\ k.wait_state[p] = "WT_KSEM" <=> sem[p] # NoSem /\ p \in ToSet(k.wait_queue[sem[p]])
    /\ sem[p] # NoSem <=> pc[p] \in {"waiting", "queued"}
    /\ sem[p] # NoSem /\ k.wait_state[p] # "WT_KSEM" => k.wakeup_flags[p] = "WT_KSEM"
    /\ left[p] > 0 => pc[p] \in {"sleeping", "asleep"}
    /\ left[p] > 0 /\ ~exiting[p] => k.state[p] = "SLEEPING"

Switched(p) ==
    /\ p # k.current => pc[p] \in {"run", "asleep", "queued", "dead"}
    /\ p = k.current => /\ pc[p] # "dead"
                        /\ pc[p] \notin {"sleeping", "waiting"} => k.state[p] = "RUNNABLE"

WaitQueues ==
    \A s \in Sems :
        /\ IsInjective(k.wait_queue[s])
        /\ \A p \in ToSet(k.wait_queue[s]) : sem[p] = s

Units == UnitsAccounted /\ \A s \in Sems : IsFiniteSet(HeldUnits(s))

Inv ==
    /\ TypeOK /\ AssertionsHold /\ RunQueueExact /\ Timely /\ IdleRuns
    /\ \A p \in Procs : Placed(p) /\ Switched(p)
    /\ WaitQueues /\ Units

LEMMA SamePlace ==
    ASSUME NEW p \in Procs, Placed(p),
           k'.state[p] = k.state[p], k'.wait_state[p] = k.wait_state[p],
           k'.wakeup_flags[p] = k.wakeup_flags[p], pc'[p] = pc[p], sem'[p] = sem[p],
           exiting'[p] = exiting[p], left'[p] = left[p],
           sem[p] # NoSem => (p \in ToSet(k'.wait_queue[sem[p]])
                                 <=> p \in ToSet(k.wait_queue[sem[p]]))
    PROVE  Placed(p)'
BY DEF Placed

LEMMA SameUnits ==
    ASSUME WaitQueues, Units, k'.value = k.value, k'.wait_queue = k.wait_queue,
           sem' = sem, held' = held
    PROVE  WaitQueues' /\ Units'
<1>1. WaitQueues'
  BY DEF WaitQueues
<1>2. \A s \in Sems : HeldUnits(s)' = HeldUnits(s) /\ Handed(s)' = Handed(s)
  BY DEF HeldUnits, Handed
<1>3. UnitsConserved'
  BY <1>2 DEF Units, UnitsAccounted, UnitsConserved
<1>4. NoIdleUnits'
  BY DEF Units, UnitsAccounted, NoIdleUnits
<1> QED
  BY <1>1, <1>2, <1>3, <1>4 DEF Units, UnitsAccounted

\* In the kernel, and not between going to sleep and schedule().
LEMMA Awake ==
    ASSUME Inv, NEW p \in Procs, p = k.current, pc[p] \notin {"sleeping", "waiting"}
    PROVE  /\ k.state[p] = "RUNNABLE" /\ k.wait_state[p] = "none"
           /\ \A s \in Sems : p \notin ToSet(k.wait_queue[s])
           /\ pc[p] # "asleep" => left[p] = 0
           /\ pc[p] # "queued" => sem[p] = NoSem
<1>1. TypeOK /\ Placed(p) /\ Switched(p) /\ WaitQueues
  BY DEF Inv
<1>2. left[p] \in Nat
  BY <1>1, SchedAssumption DEF TypeOK
<1>3. k.state[p] = "RUNNABLE" /\ k.wait_state[p] = "none"
  BY <1>1 DEF Switched, Placed
<1>4. pc[p] # "asleep" => left[p] = 0
  BY <1>1, <1>2 DEF Placed
<1>5. pc[p] # "queued" => sem[p] = NoSem
  BY <1>1 DEF Placed
<1>6. ASSUME NEW s \in Sems, p \in ToSet(k.wait_queue[s]) PROVE FALSE
  BY <1>1, <1>3, <1>6, SchedAssumption DEF WaitQueues, Placed
<1> QED
  BY <1>3, <1>4, <1>5, <1>6

LEMMA SleepStep ==
    ASSUME Inv, NEW p \in Procs, p = k.current, Sleep(p)
    PROVE  Inv' /\ k'.wait_queue = k.wait_queue
<1>1. PICK ticks \in 1 .. MaxSleep :
         k' = SleepFor(k, ticks) /\ left' = [left EXCEPT ![p] = ticks]
  BY DEF Sleep
<1>2. /\ pc' = [pc EXCEPT ![p] = "sleeping"] /\ UNCHANGED <<sem, exiting, held>>
      /\ pc[p] \in {"run", "kern"}
  BY DEF Sleep, Goto, Executing
<1>3. /\ TypeOK /\ k \in KernelStates /\ Queued(k) /\ k.ok /\ Timely /\ IdleRuns
      /\ left \in [Procs -> Nat] /\ ticks \in Nat \ {0} /\ p # idleproc /\ p \in All
  BY SchedAssumption DEF Inv, TypeOK, AssertionsHold, RunQueueExact, Queued, All
<1>4. /\ k.state[p] = "RUNNABLE" /\ k.wait_state[p] = "none" /\ left[p] = 0 /\ sem[p] = NoSem
  BY <1>2, Awake
<1>5. /\ k' \in KernelStates /\ Queued(k') /\ k'.ok
      /\ k'.state[p] = "SLEEPING" /\ k'.wait_state[p] = "WT_TIMER"
      /\ \A q \in All : q # p => /\ k'.state[q] = k.state[q]
                                /\ k'.wait_state[q] = k.wait_state[q]
      /\ k'.current = k.current
      /\ k'.value = k.value /\ k'.wait_queue = k.wait_queue
      /\ k'.wakeup_flags = k.wakeup_flags
      /\ Counted(k'.timer_list, left')
      /\ Timed(k'.timer_list) = Timed(k.timer_list) \cup {p}
  <2>1. /\ Counted(k.timer_list, left) /\ p \notin Timed(k.timer_list)
        /\ k \in KernelStates /\ Queued(k) /\ left \in [Procs -> Nat] /\ ticks \in Nat \ {0}
    BY <1>3, <1>4 DEF Timely
  <2>2. left' = [left EXCEPT ![p] = ticks]
    BY <1>1
  <2>3. k' = SleepFor(k, ticks)
    BY <1>1
  <2>4. GoneToSleep(k, k', p, left')
    BY <2>1, <2>2, <2>3, SleepBegun
  <2> QED
    BY <1>3, <2>4 DEF GoneToSleep
<1>6. TypeOK'
  BY <1>1, <1>2, <1>3, <1>5 DEF TypeOK, Labels
<1>7. Timely'
  BY <1>1, <1>3, <1>5 DEF Timely
<1>8. IdleRuns'
  BY <1>2, <1>3, <1>5, Fields DEF IdleRuns, TypeOK, All
<1>9. ASSUME NEW q \in Procs PROVE Placed(q)' /\ Switched(q)'
  <2>1. Placed(q) /\ Switched(q) /\ q \in All
    BY DEF Inv, All
  <2>2. CASE q = p
    <3>1. /\ k'.state[q] = "SLEEPING" /\ k'.wait_state[q] = "WT_TIMER" /\ pc'[q] = "sleeping"
          /\ left'[q] = ticks /\ sem'[q] = NoSem
      BY <1>1, <1>2, <1>3, <1>4, <1>5, <2>2, Fields DEF TypeOK
    <3> QED
      BY <1>3, <1>5, <2>2, <3>1 DEF Placed, Switched
  <2>3. CASE q # p
    <3>1. /\ k'.state[q] = k.state[q] /\ k'.wait_state[q] = k.wait_state[q]
          /\ pc'[q] = pc[q] /\ left'[q] = left[q]
      BY <1>1, <1>2, <1>3, <1>5, <2>1, <2>3, Fields DEF TypeOK
    <3>2. Placed(q)'
      BY <1>2, <1>5, <2>1, <3>1, SamePlace
    <3> QED
      BY <1>5, <2>1, <2>3, <3>1, <3>2 DEF Switched
  <2> QED
    BY <2>2, <2>3
<1>10. WaitQueues' /\ Units'
  BY <1>2, <1>5, SameUnits DEF Inv
<1>11. Inv'
  BY <1>5, <1>6, <1>7, <1>8, <1>9, <1>10 DEF Inv, AssertionsHold, RunQueueExact, Queued
<1> QED
  BY <1>5, <1>11

\* schedule(), called in kk: what became of k when the current process did
\* the rest of its step.
LEMMA SwitchStep ==
    ASSUME Inv, NEW kk \in KernelStates, Queued(kk), kk.ok,
           kk.wait_state = k.wait_state, kk.timer_list = k.timer_list, kk.value = k.value,
           kk.wait_queue = k.wait_queue, kk.wakeup_flags = k.wakeup_flags,
           \A q \in All : q = idleproc \/ q # k.current => kk.state[q] = k.state[q],
           k' = Schedule(kk), UNCHANGED <<sem, exiting, held, left>>,
           pc' \in [All -> Labels], pc'[idleproc] = "run",
           \A q \in Procs : q # k.current => pc'[q] = pc[q],
           \A q \in Procs : q = k.current =>
               Placed(q)' /\ pc'[q] \in {"run", "asleep", "queued", "dead"}
    PROVE  Inv' /\ k'.wait_queue = k.wait_queue
<1>1. /\ k' \in KernelStates /\ Queued(k') /\ k'.ok
      /\ k'.state = kk.state /\ k'.wait_state = k.wait_state
      /\ k'.timer_list = k.timer_list /\ k'.value = k.value
      /\ k'.wait_queue = k.wait_queue /\ k'.wakeup_flags = k.wakeup_flags
      /\ k'.current # idleproc => k'.current \in Procs /\ k'.state[k'.current] = "RUNNABLE"
  BY Scheduled
<1>2. TypeOK'
  BY <1>1 DEF Inv, TypeOK
<1>3. Timely'
  BY <1>1 DEF Inv, Timely
<1>4. IdleRuns'
  BY <1>1 DEF Inv, IdleRuns, All
<1>5. ASSUME NEW q \in Procs PROVE Placed(q)' /\ Switched(q)'
  <2>1. Placed(q) /\ Switched(q) /\ q \in All /\ q # idleproc
    BY SchedAssumption DEF Inv, All
  <2>2. Placed(q)'
    <3>1. CASE q # k.current
      <4>1. k'.state[q] = k.state[q] /\ pc'[q] = pc[q]
        BY <1>1, <2>1, <3>1
      <4> QED
        BY <1>1, <2>1, <4>1, SamePlace
    <3> QED
      BY <3>1
  <2>3. pc'[q] \in {"run", "asleep", "queued", "dead"}
    BY <2>1 DEF Switched
  <2>4. q = k'.current => k'.state[q] = "RUNNABLE"
    BY <1>1, <2>1
  <2> QED
    BY <2>2, <2>3, <2>4 DEF Switched, Placed
<1>6. WaitQueues' /\ Units'
  BY <1>1, SameUnits DEF Inv
<1>7. Inv'
  BY <1>1, <1>2, <1>3, <1>4, <1>5, <1>6 DEF Inv, AssertionsHold, RunQueueExact, Queued
<1> QED
  BY <1>1, <1>7

LEMMA CurrentFacts ==
    ASSUME Inv
    PROVE  /\ TypeOK /\ k \in KernelStates /\ Queued(k) /\ k.ok /\ Timely /\ IdleRuns
           /\ left \in [Procs -> Nat] /\ WaitQueues /\ Units
           /\ k.current \in All
           /\ pc \in [All -> Labels] /\ sem \in [Procs -> Sems \cup {NoSem}]
           /\ exiting \in [Procs -> BOOLEAN]
           /\ idleproc \notin Procs /\ idleproc \in All /\ Procs \subseteq All
           /\ \A p \in Procs : Placed(p) /\ Switched(p)
<1>1. TypeOK /\ k.ok /\ RunQueueExact
  BY DEF Inv, AssertionsHold
<1>2. left \in [Procs -> Nat]
  BY <1>1, SchedAssumption DEF TypeOK
<1>3. k \in KernelStates /\ Queued(k) /\ k.current \in All
  BY <1>1, Fields DEF TypeOK, RunQueueExact, Queued
<1> QED
  BY <1>1, <1>2, <1>3, SchedAssumption DEF Inv, TypeOK, All

LEMMA SwitchOutStep ==
    ASSUME Inv, NEW p \in Procs, p = k.current, SwitchOut(p)
    PROVE  Inv' /\ k'.wait_queue = k.wait_queue
<1>1. /\ pc[p] \in {"sleeping", "waiting"} /\ k' = Schedule(k)
      /\ pc' = [pc EXCEPT ![p] = IF pc[p] = "sleeping" THEN "asleep" ELSE "queued"]
      /\ UNCHANGED <<sem, exiting, held, left>>
  BY DEF SwitchOut, Goto
<1>2. /\ k'.state = k.state /\ k'.wait_state = k.wait_state
      /\ k'.wait_queue = k.wait_queue /\ k'.wakeup_flags = k.wakeup_flags
  BY <1>1, CurrentFacts, Scheduled
<1>3. /\ pc' \in [All -> Labels] /\ pc'[idleproc] = "run"
      /\ \A q \in Procs : q # p => pc'[q] = pc[q]
      /\ pc'[p] = IF pc[p] = "sleeping" THEN "asleep" ELSE "queued"
  BY <1>1, CurrentFacts DEF IdleRuns, Labels
<1>4. Placed(p)'
  <2>1. Placed(p) /\ sem \in [Procs -> Sems \cup {NoSem}]
    BY CurrentFacts
  <2>2. CASE pc[p] = "sleeping"
    BY <1>1, <1>2, <1>3, <2>1, <2>2 DEF Placed
  <2>3. CASE pc[p] = "waiting"
    BY <1>1, <1>2, <1>3, <2>1, <2>3 DEF Placed
  <2> QED
    BY <1>1, <2>2, <2>3
<1> QED
  BY <1>1, <1>3, <1>4, CurrentFacts, SwitchStep

LEMMA IdleStep ==
    ASSUME Inv, Idle
    PROVE  Inv' /\ k'.wait_queue = k.wait_queue
<1>1. k' = Schedule(k) /\ UNCHANGED <<pc, sem, exiting, held, left>> /\ k.current = idleproc
  BY DEF Idle
<1>2. pc[idleproc] = "run"
  BY CurrentFacts DEF IdleRuns
<1> QED
  BY <1>1, <1>2, CurrentFacts, SwitchStep

LEMMA ExitStep ==
    ASSUME Inv, NEW p \in Procs, p = k.current, pc[p] \in {"run", "kern", "trap"}, Exit(p)
    PROVE  Inv' /\ k'.wait_queue = k.wait_queue
<1> DEFINE kk == [k EXCEPT !.state[p] = "ZOMBIE"]
<1>1. /\ k' = Schedule(kk) /\ pc' = [pc EXCEPT ![p] = "dead"]
      /\ UNCHANGED <<sem, exiting, held, left>>
  BY DEF Exit, Goto
<1>2. /\ k \in KernelStates /\ Queued(k) /\ p \in All /\ p # idleproc /\ Placed(p)
      /\ left[p] = 0 /\ sem[p] = NoSem /\ k.wait_state[p] = "none" /\ k.ok
  BY CurrentFacts, Awake
<1>3. /\ kk \in KernelStates /\ kk.ok
      /\ kk.wait_state = k.wait_state /\ kk.timer_list = k.timer_list /\ kk.value = k.value
      /\ kk.wait_queue = k.wait_queue /\ kk.wakeup_flags = k.wakeup_flags
      /\ kk.run_list = k.run_list /\ kk.current = k.current
      /\ kk.state = [k.state EXCEPT ![p] = "ZOMBIE"]
  BY <1>2 DEF KernelStates
<1> HIDE DEF kk
<1>4. kk.state[p] = "ZOMBIE" /\ \A q \in All : q # p => kk.state[q] = k.state[q]
  BY <1>2, <1>3, Fields
<1>5. Queued(kk)
  BY <1>2, <1>3, <1>4 DEF Queued, All
<1>6. /\ k'.state = kk.state /\ k'.wait_state = kk.wait_state
      /\ k'.wait_queue = kk.wait_queue /\ k'.wakeup_flags = kk.wakeup_flags
  BY <1>1, <1>3, <1>5, Scheduled
<1>7. /\ pc' \in [All -> Labels] /\ pc'[idleproc] = "run" /\ pc'[p] = "dead"
      /\ \A q \in Procs : q # p => pc'[q] = pc[q]
  BY <1>1, <1>2, CurrentFacts DEF IdleRuns, Labels
<1>8. Placed(p)'
  BY <1>1, <1>2, <1>3, <1>4, <1>6, <1>7 DEF Placed
<1>9. /\ \A q \in All : q = idleproc \/ q # k.current => kk.state[q] = k.state[q]
      /\ \A q \in Procs : q # k.current => pc'[q] = pc[q]
      /\ \A q \in Procs : q = k.current =>
            Placed(q)' /\ pc'[q] \in {"run", "asleep", "queued", "dead"}
  BY <1>2, <1>4, <1>7, <1>8
<1>10. /\ pc' \in [All -> Labels] /\ pc'[idleproc] = "run"
       /\ kk \in KernelStates /\ Queued(kk) /\ kk.ok
  BY <1>3, <1>5, <1>7
<1> QED
  BY <1>1, <1>3, <1>9, <1>10, SwitchStep

\* A step that does not call schedule().
LEMMA RunnerStays ==
    ASSUME Inv, k' \in KernelStates, Queued(k'), k'.ok, k'.current = k.current,
           k'.state[idleproc] = k.state[idleproc],
           k'.wait_state[idleproc] = k.wait_state[idleproc],
           pc' \in [All -> Labels], pc'[idleproc] = "run",
           sem' \in [Procs -> Sems \cup {NoSem}], exiting' \in [Procs -> BOOLEAN],
           held' \in [Procs -> [Sems -> Nat]], left' \in [Procs -> 0 .. MaxSleep],
           Timely', WaitQueues', Units',
           \A q \in Procs : Placed(q)',
           \A q \in Procs : q # k.current => pc'[q] = pc[q],
           \A q \in Procs : q = k.current =>
               /\ pc'[q] # "dead"
               /\ pc'[q] \notin {"sleeping", "waiting"} => k'.state[q] = "RUNNABLE"
    PROVE  Inv'
<1>1. TypeOK'
  BY DEF TypeOK
<1>2. IdleRuns'
  BY DEF Inv, IdleRuns
<1>3. \A q \in Procs : Switched(q)'
  BY DEF Inv, Switched
<1> QED
  BY <1>1, <1>2, <1>3 DEF Inv, AssertionsHold, RunQueueExact, Queued

LEMMA HeldTypes ==
    ASSUME Inv
    PROVE  held \in [Procs -> [Sems -> Nat]] /\ left \in [Procs -> 0 .. MaxSleep]
BY DEF Inv, TypeOK

LEMMA TrapEndStep ==
    ASSUME Inv, NEW p \in Procs, p = k.current, TrapEnd(p)
    PROVE  Inv' /\ k'.wait_queue = k.wait_queue
<1>1. pc[p] = "trap"
  BY DEF TrapEnd
<1>2. CASE exiting[p] /\ Exit(p)
  BY <1>1, <1>2, ExitStep
<1>3. CASE /\ k' = IF k.need_resched[p] THEN Schedule(k) ELSE k
           /\ Goto(p, "run") /\ UNCHANGED <<sem, exiting, held, left>>
  <2>1. /\ pc' = [pc EXCEPT ![p] = "run"] /\ UNCHANGED <<sem, exiting, held, left>>
    BY <1>3 DEF Goto
  <2>2. /\ pc' \in [All -> Labels] /\ pc'[idleproc] = "run" /\ pc'[p] = "run"
        /\ \A q \in Procs : q # p => pc'[q] = pc[q]
    BY <2>1, CurrentFacts DEF IdleRuns, Labels
  <2>3. /\ k.state[p] = "RUNNABLE" /\ left[p] = 0 /\ sem[p] = NoSem /\ Placed(p)
        /\ k.wait_state[p] = "none"
    BY <1>1, Awake, CurrentFacts
  <2>4. ASSUME k'.state = k.state, k'.wait_state = k.wait_state,
               k'.wait_queue = k.wait_queue, k'.wakeup_flags = k.wakeup_flags
        PROVE  Placed(p)'
    BY <2>1, <2>2, <2>3, <2>4 DEF Placed
  <2>5. CASE k' = Schedule(k)
    <3>1. Placed(p)'
      BY <2>4, <2>5, CurrentFacts, Scheduled
    <3> QED
      BY <2>1, <2>2, <2>5, <3>1, CurrentFacts, SwitchStep
  <2>6. CASE k' = k
    <3>1. Placed(p)'
      BY <2>4, <2>6
    <3>2. \A q \in Procs : Placed(q)'
      <4> SUFFICES ASSUME NEW q \in Procs, q # p PROVE Placed(q)'
        BY <3>1
      <4> QED
        BY <2>1, <2>2, <2>6, CurrentFacts, SamePlace
    <3>3. Timely' /\ WaitQueues' /\ Units'
      BY <2>1, <2>6, CurrentFacts, SameUnits DEF Timely
    <3>4. k' \in KernelStates /\ Queued(k') /\ k'.ok
      BY <2>6, CurrentFacts
    <3>5. /\ sem' \in [Procs -> Sems \cup {NoSem}] /\ exiting' \in [Procs -> BOOLEAN]
          /\ held' \in [Procs -> [Sems -> Nat]] /\ left' \in [Procs -> 0 .. MaxSleep]
      BY <2>1, CurrentFacts, HeldTypes
    <3>6. Inv'
      BY <2>2, <2>3, <2>6, <3>2, <3>3, <3>4, <3>5, RunnerStays
    <3> QED
      BY <2>6, <3>6
  <2> QED
    BY <1>3, <2>5, <2>6
<1> QED
  BY <1>2, <1>3 DEF TrapEnd

LEMMA YieldStep ==
    ASSUME Inv, NEW p \in Procs, p = k.current, Yield(p) \/ EndCall(p)
    PROVE  Inv' /\ k'.wait_queue = k.wait_queue
<1>1. /\ pc[p] \in {"run", "kern"} /\ pc' = [pc EXCEPT ![p] = "trap"]
      /\ UNCHANGED <<sem, exiting, held, left>>
      /\ k' = k \/ k' = [k EXCEPT !.need_resched[p] = TRUE]
  BY DEF Yield, EndCall, Goto
<1>2. /\ k' \in KernelStates /\ k'.ok = k.ok
      /\ k'.state = k.state /\ k'.wait_state = k.wait_state
      /\ k'.current = k.current /\ k'.timer_list = k.timer_list
      /\ k'.value = k.value /\ k'.wait_queue = k.wait_queue
      /\ k'.wakeup_flags = k.wakeup_flags /\ k'.run_list = k.run_list
  <2>1. CASE k' = k
    BY <2>1, CurrentFacts
  <2>2. CASE k' = [k EXCEPT !.need_resched[p] = TRUE]
    <3>1. k \in KernelStates
      BY CurrentFacts
    <3> QED
      BY <2>2, <3>1 DEF KernelStates
  <2> QED
    BY <1>1, <2>1, <2>2
<1>3. Queued(k') /\ k'.ok
  BY <1>2, CurrentFacts DEF Queued
<1>4. /\ pc' \in [All -> Labels] /\ pc'[idleproc] = "run" /\ pc'[p] = "trap"
      /\ \A q \in Procs : q # p => pc'[q] = pc[q]
  BY <1>1, CurrentFacts DEF IdleRuns, Labels
<1>5. /\ k.state[p] = "RUNNABLE" /\ left[p] = 0 /\ sem[p] = NoSem /\ Placed(p)
      /\ k.wait_state[p] = "none"
  BY <1>1, Awake, CurrentFacts
<1>6. Placed(p)'
  BY <1>1, <1>2, <1>4, <1>5 DEF Placed
<1>7. \A q \in Procs : Placed(q)'
  <2> SUFFICES ASSUME NEW q \in Procs, q # p PROVE Placed(q)'
    BY <1>6
  <2> QED
    BY <1>1, <1>2, <1>4, CurrentFacts, SamePlace
<1>8. Timely' /\ WaitQueues' /\ Units'
  BY <1>1, <1>2, CurrentFacts, SameUnits DEF Timely
<1>9. /\ sem' \in [Procs -> Sems \cup {NoSem}] /\ exiting' \in [Procs -> BOOLEAN]
      /\ held' \in [Procs -> [Sems -> Nat]] /\ left' \in [Procs -> 0 .. MaxSleep]
  BY <1>1, CurrentFacts, HeldTypes
<1>10. Inv'
  BY <1>2, <1>3, <1>4, <1>5, <1>7, <1>8, <1>9, RunnerStays
<1> QED
  BY <1>2, <1>10

LEMMA SleepReturnsStep ==
    ASSUME Inv, NEW p \in Procs, p = k.current, SleepReturns(p)
    PROVE  Inv' /\ k'.wait_queue = k.wait_queue
<1>1. /\ pc[p] = "asleep" /\ k' = DelTimer(k, p) /\ left' = [left EXCEPT ![p] = 0]
      /\ pc' = [pc EXCEPT ![p] = Back(p)] /\ UNCHANGED <<sem, exiting, held>>
  BY DEF SleepReturns, Goto
<1>2. /\ k' = [k EXCEPT !.timer_list = k'.timer_list]
      /\ k'.timer_list \in Seq(Timers) /\ Timed(k'.timer_list) = Timed(k.timer_list) \ {p}
      /\ Counted(k'.timer_list, left)
  <2>1. k \in KernelStates /\ left \in [Procs -> Nat] /\ Counted(k.timer_list, left)
    BY CurrentFacts DEF Timely
  <2> QED
    BY <1>1, <2>1, RemoveTimer
<1>3. /\ k' \in KernelStates /\ k'.ok = k.ok
      /\ k'.state = k.state /\ k'.wait_state = k.wait_state
      /\ k'.current = k.current /\ k'.value = k.value /\ k'.wait_queue = k.wait_queue
      /\ k'.wakeup_flags = k.wakeup_flags /\ k'.run_list = k.run_list
  <2>1. k \in KernelStates
    BY CurrentFacts
  <2> QED
    BY <1>2, <2>1 DEF KernelStates, Timers
<1>4. Queued(k') /\ k'.ok
  BY <1>3, CurrentFacts DEF Queued
<1>5. /\ left \in [Procs -> 0 .. MaxSleep] /\ left' \in [Procs -> 0 .. MaxSleep]
      /\ left'[p] = 0 /\ \A q \in Procs : q # p => left'[q] = left[q]
  <2>1. left \in [Procs -> 0 .. MaxSleep] /\ 0 \in 0 .. MaxSleep
    BY HeldTypes, SchedAssumption
  <2> QED
    BY <1>1, <2>1
<1>6. Timely'
  <2>1. \A i \in 1 .. Len(k'.timer_list) :
           left'[k'.timer_list[i].proc] = left[k'.timer_list[i].proc]
    <3> SUFFICES ASSUME NEW i \in 1 .. Len(k'.timer_list)
                 PROVE  left'[k'.timer_list[i].proc] = left[k'.timer_list[i].proc]
      OBVIOUS
    <3>1. k'.timer_list[i].proc \in Timed(k'.timer_list)
      BY DEF Timed
    <3>2. k'.timer_list[i].proc \in Procs
      BY <1>2, TimerTypes
    <3> QED
      BY <1>2, <1>5, <3>1, <3>2
  <2>2. Counted(k'.timer_list, left')
    <3>1. \A i \in 1 .. Len(k'.timer_list) : i # 1 => i - 1 \in 1 .. Len(k'.timer_list)
      BY <1>2, TimerTypes
    <3> QED
      BY <1>2, <2>1, <3>1 DEF Counted
  <2>3. Timed(k'.timer_list) = {q \in Procs : left'[q] > 0}
    BY <1>2, <1>5, CurrentFacts DEF Timely
  <2> QED
    BY <2>2, <2>3 DEF Timely
<1>7. /\ pc' \in [All -> Labels] /\ pc'[idleproc] = "run" /\ pc'[p] \in {"run", "kern"}
      /\ \A q \in Procs : q # p => pc'[q] = pc[q]
  BY <1>1, CurrentFacts DEF IdleRuns, Labels, Back
<1>8. /\ k.state[p] = "RUNNABLE" /\ sem[p] = NoSem /\ Placed(p) /\ k.wait_state[p] = "none"
  BY <1>1, Awake, CurrentFacts
<1>9. Placed(p)'
  BY <1>1, <1>3, <1>5, <1>7, <1>8 DEF Placed
<1>10. \A q \in Procs : Placed(q)'
  <2> SUFFICES ASSUME NEW q \in Procs, q # p PROVE Placed(q)'
    BY <1>9
  <2> QED
    BY <1>1, <1>3, <1>5, <1>7, CurrentFacts, SamePlace
<1>11. WaitQueues' /\ Units'
  BY <1>1, <1>3, CurrentFacts, SameUnits
<1>12. /\ sem' \in [Procs -> Sems \cup {NoSem}] /\ exiting' \in [Procs -> BOOLEAN]
       /\ held' \in [Procs -> [Sems -> Nat]]
  BY <1>1, CurrentFacts, HeldTypes
<1>13. Inv'
  BY <1>3, <1>4, <1>5, <1>6, <1>7, <1>8, <1>10, <1>11, <1>12, RunnerStays
<1> QED
  BY <1>3, <1>13

LEMMA KillStep ==
    ASSUME Inv, NEW p \in Procs, p = k.current, NEW q \in Procs, Kill(p, q)
    PROVE  Inv' /\ k'.wait_queue = k.wait_queue
<1>1. /\ pc[p] \in {"run", "kern"} /\ exiting' = [exiting EXCEPT ![q] = TRUE]
      /\ k' = IF Interruptible(k.wait_state[q]) THEN WakeupProc(k, q) ELSE k
      /\ pc' = [pc EXCEPT ![p] = Back(p)] /\ UNCHANGED <<sem, held, left>>
  BY DEF Kill, Goto, Executing
<1>2. /\ pc' \in [All -> Labels] /\ pc'[idleproc] = "run" /\ pc'[p] \in {"run", "kern"}
      /\ \A x \in Procs : x # p => pc'[x] = pc[x]
      /\ exiting' \in [Procs -> BOOLEAN] /\ exiting'[q] = TRUE
      /\ \A x \in Procs : x # q => exiting'[x] = exiting[x]
  BY <1>1, CurrentFacts DEF IdleRuns, Labels, Back
<1>3. /\ k.state[p] = "RUNNABLE" /\ k.wait_state[p] = "none" /\ Placed(p) /\ Placed(q)
      /\ left[p] = 0 /\ sem[p] = NoSem
  BY <1>1, Awake, CurrentFacts
<1>4. /\ sem' \in [Procs -> Sems \cup {NoSem}]
      /\ held' \in [Procs -> [Sems -> Nat]] /\ left' \in [Procs -> 0 .. MaxSleep]
  BY <1>1, CurrentFacts, HeldTypes
<1>5. CASE Interruptible(k.wait_state[q])
  <2>1. k.wait_state[q] = "WT_TIMER" /\ k.state[q] = "SLEEPING" /\ q # p
    BY <1>3, <1>5 DEF Placed, Interruptible
  <2>2. k' = WakeupProc(k, q)
    BY <1>1, <1>5
  <2>3. /\ k' \in KernelStates /\ Queued(k') /\ k'.ok = k.ok
        /\ k'.state = [k.state EXCEPT ![q] = "RUNNABLE"]
        /\ k'.wait_state = [k.wait_state EXCEPT ![q] = "none"]
        /\ k'.current = k.current /\ k'.timer_list = k.timer_list
        /\ k'.value = k.value /\ k'.wait_queue = k.wait_queue
        /\ k'.wakeup_flags = k.wakeup_flags
    <3>1. k \in KernelStates /\ Queued(k)
      BY CurrentFacts
    <3> QED
      BY <2>1, <2>2, <3>1, Wakeup
  <2>4. /\ k'.state[q] = "RUNNABLE" /\ k'.wait_state[q] = "none"
        /\ \A x \in All : x # q => k'.state[x] = k.state[x] /\ k'.wait_state[x] = k.wait_state[x]
    BY <2>3, CurrentFacts, Fields
  <2>5. \A x \in Procs : Placed(x)'
    <3> SUFFICES ASSUME NEW x \in Procs PROVE Placed(x)'
      OBVIOUS
    <3>1. CASE x = q
      <4>1. pc'[q] = pc[q] /\ left' = left /\ sem' = sem /\ left[q] \in Nat
        BY <1>1, <1>2, <2>1, CurrentFacts
      <4> QED
        BY <1>2, <1>3, <2>1, <2>3, <2>4, <3>1, <4>1 DEF Placed
    <3>2. CASE x = p
      <4>1. k'.state[p] = "RUNNABLE" /\ k'.wait_state[p] = "none"
        BY <1>3, <2>1, <2>4, CurrentFacts
      <4> QED
        BY <1>1, <1>2, <1>3, <2>3, <3>2, <4>1 DEF Placed
    <3>3. CASE x # p /\ x # q
      <4>1. k'.state[x] = k.state[x] /\ k'.wait_state[x] = k.wait_state[x] /\ Placed(x)
        BY <2>4, <3>3, CurrentFacts
      <4> QED
        BY <1>1, <1>2, <2>3, <3>3, <4>1, SamePlace
    <3> QED
      BY <3>1, <3>2, <3>3
  <2>6. Timely' /\ WaitQueues' /\ Units'
    BY <1>1, <2>3, CurrentFacts, SameUnits DEF Timely
  <2>7. /\ k'.state[idleproc] = k.state[idleproc] /\ k'.state[p] = "RUNNABLE" /\ k'.ok
        /\ k'.wait_state[idleproc] = k.wait_state[idleproc]
    BY <1>3, <2>1, <2>3, <2>4, CurrentFacts
  <2>8. Inv'
    BY <1>2, <1>4, <2>3, <2>5, <2>6, <2>7, RunnerStays
  <2> QED
    BY <2>3, <2>8
<1>6. CASE ~Interruptible(k.wait_state[q])
  <2>1. k' = k
    BY <1>1, <1>6
  <2>2. \A x \in Procs : Placed(x)'
    <3> SUFFICES ASSUME NEW x \in Procs PROVE Placed(x)'
      OBVIOUS
    <3>1. CASE x = p
      <4>1. left'[p] = 0 /\ sem'[p] = NoSem /\ k' = k
        BY <1>1, <1>3, <2>1
      <4> QED
        BY <1>2, <1>3, <3>1, <4>1 DEF Placed
    <3>2. CASE x # p /\ x = q
      <4>1. pc'[q] = pc[q] /\ left' = left /\ sem' = sem
        BY <1>1, <1>2, <3>2
      <4> QED
        BY <1>2, <1>3, <2>1, <3>2, <4>1 DEF Placed
    <3>3. CASE x # p /\ x # q
      BY <1>1, <1>2, <2>1, <3>3, CurrentFacts, SamePlace
    <3> QED
      BY <3>1, <3>2, <3>3
  <2>3. Timely' /\ WaitQueues' /\ Units'
    BY <1>1, <2>1, CurrentFacts, SameUnits DEF Timely
  <2>4. k' \in KernelStates /\ Queued(k') /\ k'.ok
    BY <2>1, CurrentFacts
  <2>5. Inv'
    BY <1>2, <1>3, <1>4, <2>1, <2>2, <2>3, <2>4, RunnerStays
  <2> QED
    BY <2>1, <2>5
<1> QED
  BY <1>5, <1>6

LEMMA TickStep ==
    ASSUME Inv, NEW p, p = k.current, Tick(p)
    PROVE  Inv' /\ k'.wait_queue = k.wait_queue
<1> DEFINE less == [q \in Procs |-> IF left[q] > 0 THEN left[q] - 1 ELSE 0]
           over == {q \in Procs : left[q] = 1}
<1>1. /\ InterruptsOn(p) /\ k' = RunTimerList(k) /\ left' = less
      /\ IF p \in Procs \ KThreads THEN pc' = [pc EXCEPT ![p] = "trap"] ELSE pc' = pc
      /\ UNCHANGED <<sem, exiting, held>>
  BY DEF Tick, Goto
<1>2. Sleepers(k)
  <2> SUFFICES ASSUME NEW q \in Timed(k.timer_list)
               PROVE  \/ k.state[q] = "RUNNABLE" /\ k.wait_state[q] = "none"
                      \/ k.state[q] = "SLEEPING" /\ k.wait_state[q] = "WT_TIMER"
    BY DEF Sleepers
  <2>1. q \in Procs /\ left[q] > 0 /\ Placed(q)
    BY CurrentFacts DEF Timely
  <2>2. /\ k.state[q] \in {"UNINIT", "RUNNABLE", "SLEEPING", "ZOMBIE"}
        /\ k.wait_state[q] \in {"none", "WT_CHILD", "WT_TIMER", "WT_KSEM"}
    BY <2>1, CurrentFacts, Fields
  <2> QED
    BY <2>1, <2>2 DEF Placed
<1>3. /\ k' \in KernelStates /\ Queued(k') /\ k'.ok = k.ok
      /\ k'.state = [q \in All |-> IF q \in over THEN "RUNNABLE" ELSE k.state[q]]
      /\ k'.wait_state = [q \in All |-> IF q \in over THEN "none" ELSE k.wait_state[q]]
      /\ k'.current = k.current
      /\ k'.value = k.value /\ k'.wait_queue = k.wait_queue
      /\ k'.wakeup_flags = k.wakeup_flags
      /\ Counted(k'.timer_list, less)
      /\ Timed(k'.timer_list) = {q \in Procs : less[q] > 0}
  <2>1. /\ k \in KernelStates /\ Queued(k) /\ left \in [Procs -> Nat]
        /\ Counted(k.timer_list, left)
        /\ Timed(k.timer_list) = {q \in Procs : left[q] > 0}
    BY CurrentFacts DEF Timely
  <2> QED
    BY <1>1, <1>2, <2>1, TimerRan
<1>4. /\ left' \in [Procs -> 0 .. MaxSleep]
      /\ \A q \in Procs : /\ left[q] \in Nat /\ left'[q] \in Nat
                          /\ left[q] > 0 => left'[q] = left[q] - 1
                          /\ left[q] = 0 => left'[q] = 0
  <2>1. \A q \in Procs : left[q] \in 0 .. MaxSleep
    BY HeldTypes
  <2>2. \A q \in Procs : less[q] \in 0 .. MaxSleep
    BY <2>1, SchedAssumption
  <2> QED
    BY <1>1, <2>1, <2>2, SchedAssumption
<1>5. Timely'
  BY <1>1, <1>3 DEF Timely
<1> HIDE DEF less
<1>6. \A q \in All : /\ k'.state[q] = IF q \in over THEN "RUNNABLE" ELSE k.state[q]
                     /\ k'.wait_state[q] = IF q \in over THEN "none" ELSE k.wait_state[q]
  BY <1>3
<1>7. /\ pc' \in [All -> Labels] /\ pc'[idleproc] = "run"
      /\ \A q \in Procs : q # p => pc'[q] = pc[q]
      /\ p \in Procs => \/ pc[p] = "run" /\ pc'[p] = "trap"
                        \/ pc'[p] = pc[p] /\ pc[p] # "dead"
  BY <1>1, CurrentFacts DEF IdleRuns, Labels, InterruptsOn
<1>8. WaitQueues' /\ Units'
  BY <1>1, <1>3, CurrentFacts, SameUnits
<1>9. ASSUME NEW q \in Procs PROVE Placed(q)'
  <2>1. Placed(q) /\ q \in All /\ ((pc[q] = "run" /\ pc'[q] = "trap") \/ pc'[q] = pc[q])
    BY <1>7, CurrentFacts
  <2>2. sem' = sem /\ exiting' = exiting /\ k'.wait_queue = k.wait_queue
        /\ k'.wakeup_flags = k.wakeup_flags
    BY <1>1, <1>3
  <2>3. CASE q \in over
    <3>1. /\ left[q] = 1 /\ left'[q] = 0
          /\ k'.state[q] = "RUNNABLE" /\ k'.wait_state[q] = "none"
      BY <1>4, <1>6, <2>1, <2>3
    <3>2. pc[q] \in {"sleeping", "asleep"} /\ sem[q] = NoSem /\ pc'[q] = pc[q]
      BY <2>1, <3>1 DEF Placed
    <3> QED
      BY <2>1, <2>2, <3>1, <3>2 DEF Placed
  <2>4. CASE q \notin over
    <3>1. k'.state[q] = k.state[q] /\ k'.wait_state[q] = k.wait_state[q]
      BY <1>6, <2>1, <2>4
    <3>2. left'[q] > 0 <=> left[q] > 0
      BY <1>4, <2>4
    <3> QED
      BY <2>1, <2>2, <3>1, <3>2 DEF Placed
  <2> QED
    BY <2>3, <2>4
<1>10. \A q \in Procs : q = k.current =>
          /\ pc'[q] # "dead"
          /\ pc'[q] \notin {"sleeping", "waiting"} => k'.state[q] = "RUNNABLE"
  BY <1>6, <1>7, CurrentFacts DEF Switched
<1>11. /\ k'.state[idleproc] = k.state[idleproc] /\ k'.ok
       /\ k'.wait_state[idleproc] = k.wait_state[idleproc]
  BY <1>3, <1>6, CurrentFacts
<1>12. /\ sem' \in [Procs -> Sems \cup {NoSem}] /\ exiting' \in [Procs -> BOOLEAN]
       /\ held' \in [Procs -> [Sems -> Nat]]
  BY <1>1, CurrentFacts, HeldTypes
<1>13. Inv'
  BY <1>3, <1>4, <1>5, <1>7, <1>8, <1>9, <1>10, <1>11, <1>12, RunnerStays
<1> QED
  BY <1>3, <1>13

LEMMA Counts ==
    ASSUME Inv, NEW s \in Sems
    PROVE  /\ IsFiniteSet(Handed(s)) /\ Cardinality(Handed(s)) \in Nat
           /\ IsFiniteSet(HeldUnits(s)) /\ Cardinality(HeldUnits(s)) \in Nat
           /\ k.value[s] \in Nat /\ k.wait_queue[s] \in Seq(Procs)
           /\ k.value[s] + Cardinality(Handed(s)) + Cardinality(HeldUnits(s)) = InitValue
           /\ k.wait_queue[s] # <<>> => k.value[s] = 0
<1>1. IsFiniteSet(Handed(s))
  BY SchedAssumption, FS_Subset DEF Handed
<1>2. IsFiniteSet(HeldUnits(s))
  BY DEF Inv, Units
<1>3. k.value[s] \in Nat /\ k.wait_queue[s] \in Seq(Procs)
  BY CurrentFacts, Fields
<1>4. /\ k.value[s] + Cardinality(Handed(s)) + Cardinality(HeldUnits(s)) = InitValue
      /\ k.wait_queue[s] # <<>> => k.value[s] = 0
  BY DEF Inv, Units, UnitsAccounted, UnitsConserved, NoIdleUnits
<1> QED
  BY <1>1, <1>2, <1>3, <1>4, FS_CardinalityType

LEMMA OneMoreHeld ==
    ASSUME NEW p \in Procs, NEW s \in Sems, held \in [Procs -> [Sems -> Nat]],
           held' = [held EXCEPT ![p][s] = @ + 1], IsFiniteSet(HeldUnits(s))
    PROVE  /\ held' \in [Procs -> [Sems -> Nat]]
           /\ \A r \in Sems : r # s => HeldUnits(r)' = HeldUnits(r)
           /\ IsFiniteSet(HeldUnits(s)')
           /\ Cardinality(HeldUnits(s)') = Cardinality(HeldUnits(s)) + 1
<1> DEFINE n == held[p][s]
<1>1. \A q \in Procs : held[q] \in [Sems -> Nat] /\ \A r \in Sems : held[q][r] \in Nat
  OBVIOUS
<1>2. n \in Nat /\ held' = [held EXCEPT ![p] = [held[p] EXCEPT ![s] = n + 1]]
  BY <1>1
<1>3. \A q \in Procs : \A r \in Sems :
         held'[q][r] = IF q = p /\ r = s THEN n + 1 ELSE held[q][r]
  BY <1>1, <1>2
<1>4. held' \in [Procs -> [Sems -> Nat]]
  BY <1>1, <1>2
<1> HIDE DEF n
<1>5. \A r \in Sems : r # s => HeldUnits(r)' = HeldUnits(r)
  BY <1>3 DEF HeldUnits
<1>6. HeldUnits(s)' = HeldUnits(s) \cup {<<p, n + 1>>}
  <2>1. \A q \in Procs : q # p => 1 .. held'[q][s] = 1 .. held[q][s]
    BY <1>3
  <2>2. 1 .. held'[p][s] = (1 .. held[p][s]) \cup {n + 1}
    <3>1. held'[p][s] = n + 1 /\ held[p][s] = n
      BY <1>3 DEF n
    <3>2. 1 .. n + 1 = (1 .. n) \cup {n + 1}
      <4>1. n \in Nat /\ n + 1 \in 1 .. n + 1
        BY <1>2
      <4>2. \A i \in 1 .. n : i \in 1 .. n + 1
        BY <4>1
      <4>3. \A i \in 1 .. n + 1 : i \in 1 .. n \/ i = n + 1
        BY <4>1
      <4> QED
        BY <4>1, <4>2, <4>3
    <3> QED
      BY <3>1, <3>2
  <2>3. \A x : x \in HeldUnits(s)' <=> \E q \in Procs : x \in {q} \X (1 .. held'[q][s])
    BY DEF HeldUnits
  <2>4. \A x : x \in HeldUnits(s) <=> \E q \in Procs : x \in {q} \X (1 .. held[q][s])
    BY DEF HeldUnits
  <2>5. \A x : x \in {p} \X (1 .. held'[p][s])
                  <=> x \in {p} \X (1 .. held[p][s]) \/ x = <<p, n + 1>>
    BY <2>2
  <2> QED
    BY <2>1, <2>3, <2>4, <2>5
<1>7. <<p, n + 1>> \notin HeldUnits(s)
  BY <1>2 DEF HeldUnits, n
<1> QED
  BY <1>4, <1>5, <1>6, <1>7, FS_AddElement

LEMMA OneLessHeld ==
    ASSUME NEW p \in Procs, NEW s \in Sems, held \in [Procs -> [Sems -> Nat]], held[p][s] > 0,
           held' = [held EXCEPT ![p][s] = @ - 1], IsFiniteSet(HeldUnits(s))
    PROVE  /\ held' \in [Procs -> [Sems -> Nat]]
           /\ \A r \in Sems : r # s => HeldUnits(r)' = HeldUnits(r)
           /\ IsFiniteSet(HeldUnits(s)')
           /\ Cardinality(HeldUnits(s)') = Cardinality(HeldUnits(s)) - 1
<1> DEFINE n == held[p][s]
<1>1. \A q \in Procs : held[q] \in [Sems -> Nat] /\ \A r \in Sems : held[q][r] \in Nat
  OBVIOUS
<1>2. n \in Nat /\ n > 0 /\ held' = [held EXCEPT ![p] = [held[p] EXCEPT ![s] = n - 1]]
  BY <1>1
<1>3. \A q \in Procs : \A r \in Sems :
         held'[q][r] = IF q = p /\ r = s THEN n - 1 ELSE held[q][r]
  BY <1>1, <1>2
<1>4. held' \in [Procs -> [Sems -> Nat]]
  BY <1>1, <1>2
<1> HIDE DEF n
<1>5. \A r \in Sems : r # s => HeldUnits(r)' = HeldUnits(r)
  BY <1>3 DEF HeldUnits
<1>6. HeldUnits(s)' = HeldUnits(s) \ {<<p, n>>}
  <2>1. \A q \in Procs : q # p => 1 .. held'[q][s] = 1 .. held[q][s]
    BY <1>3
  <2>2. 1 .. held'[p][s] = (1 .. held[p][s]) \ {n}
    <3>1. held'[p][s] = n - 1 /\ held[p][s] = n
      BY <1>3 DEF n
    <3>2. 1 .. n - 1 = (1 .. n) \ {n}
      BY <1>2
    <3> QED
      BY <3>1, <3>2
  <2>3. \A x : x \in HeldUnits(s)' <=> \E q \in Procs : x \in {q} \X (1 .. held'[q][s])
    BY DEF HeldUnits
  <2>4. \A x : x \in HeldUnits(s) <=> \E q \in Procs : x \in {q} \X (1 .. held[q][s])
    BY DEF HeldUnits
  <2>5. \A x : x \in {p} \X (1 .. held'[p][s])
                  <=> x \in {p} \X (1 .. held[p][s]) /\ x # <<p, n>>
    BY <2>2
  <2>6. \A q \in Procs : q # p => <<p, n>> \notin {q} \X (1 .. held[q][s])
    OBVIOUS
  <2> QED
    BY <2>1, <2>3, <2>4, <2>5, <2>6
<1>7. <<p, n>> \in HeldUnits(s)
  BY <1>2 DEF HeldUnits, n
<1> QED
  BY <1>4, <1>5, <1>6, <1>7, FS_RemoveElement

\* A unit moves between the value, the processes it is handed to, and those
\* that hold units.
LEMMA UnitMoves ==
    ASSUME NEW v \in Nat, NEW h \in Nat, NEW u \in Nat, NEW v1, NEW h1, NEW u1,
           v + h + u = InitValue,
           \/ v1 = v - 1 /\ h1 = h /\ u1 = u + 1
           \/ v1 = v + 1 /\ h1 = h /\ u1 = u - 1
           \/ v1 = v /\ h1 = h - 1 /\ u1 = u + 1
           \/ v1 = v /\ h1 = h + 1 /\ u1 = u - 1
    PROVE  v1 + h1 + u1 = InitValue
OBVIOUS

LEMMA UnitsStep ==
    ASSUME Inv, NEW s \in Sems,
           \A r \in Sems : r # s =>
               /\ k'.value[r] = k.value[r] /\ k'.wait_queue[r] = k.wait_queue[r]
               /\ Handed(r)' = Handed(r) /\ HeldUnits(r)' = HeldUnits(r),
           IsFiniteSet(HeldUnits(s)'),
           k'.value[s] + Cardinality(Handed(s)') + Cardinality(HeldUnits(s)') = InitValue,
           k'.wait_queue[s] # <<>> => k'.value[s] = 0
    PROVE  Units'
<1> SUFFICES ASSUME NEW r \in Sems, r # s
             PROVE  /\ k'.value[r] + Cardinality(Handed(r)') + Cardinality(HeldUnits(r)') = InitValue
                    /\ k'.wait_queue[r] # <<>> => k'.value[r] = 0
                    /\ IsFiniteSet(HeldUnits(r)')
  BY DEF Units, UnitsAccounted, UnitsConserved, NoIdleUnits
<1> QED
  BY Counts

\* The steps of down() and up(): the current process goes on, or is about
\* to call schedule().
LEMMA DownNowStep ==
    ASSUME Inv, NEW p \in Procs, p = k.current, NEW s \in Sems, DownNow(p, s)
    PROVE  Inv' /\ k'.wait_queue = k.wait_queue
<1>1. /\ pc[p] \in {"run", "kern"} /\ k.value[s] > 0 /\ k' = TakeUnit(k, s)
      /\ held' = [held EXCEPT ![p][s] = @ + 1]
      /\ pc' = [pc EXCEPT ![p] = Back(p)] /\ UNCHANGED <<sem, exiting, left>>
  BY DEF DownNow, Goto, Executing
<1>2. /\ pc' \in [All -> Labels] /\ pc'[idleproc] = "run" /\ pc'[p] \in {"run", "kern"}
      /\ \A x \in Procs : x # p => pc'[x] = pc[x]
  BY <1>1, CurrentFacts DEF IdleRuns, Labels, Back
<1>3. /\ k.state[p] = "RUNNABLE" /\ k.wait_state[p] = "none" /\ Placed(p)
      /\ left[p] = 0 /\ sem[p] = NoSem
  BY <1>1, Awake, CurrentFacts
<1>4. /\ k' \in KernelStates /\ Queued(k') /\ k'.ok = k.ok
      /\ k'.state = k.state /\ k'.wait_state = k.wait_state
      /\ k'.current = k.current /\ k'.timer_list = k.timer_list
      /\ k'.value = [k.value EXCEPT ![s] = @ - 1] /\ k'.wait_queue = k.wait_queue
      /\ k'.wakeup_flags = k.wakeup_flags
  BY <1>1, CurrentFacts, UnitTaken
<1>5. \A q \in Procs : Placed(q)'
  <2> SUFFICES ASSUME NEW q \in Procs PROVE Placed(q)'
    OBVIOUS
  <2>1. CASE q = p
    BY <1>1, <1>2, <1>3, <1>4, <2>1 DEF Placed
  <2>2. CASE q # p
    BY <1>1, <1>2, <1>4, <2>2, CurrentFacts, SamePlace
  <2> QED
    BY <2>1, <2>2
<1>6. Timely' /\ WaitQueues'
  BY <1>1, <1>4, CurrentFacts DEF Timely, WaitQueues
<1>7. /\ held' \in [Procs -> [Sems -> Nat]]
      /\ \A r \in Sems : r # s => HeldUnits(r)' = HeldUnits(r)
      /\ IsFiniteSet(HeldUnits(s)')
      /\ Cardinality(HeldUnits(s)') = Cardinality(HeldUnits(s)) + 1
  BY <1>1, Counts, HeldTypes, OneMoreHeld
<1>8. Units'
  <2>1. \A r \in Sems : k'.value[r] = IF r = s THEN k.value[s] - 1 ELSE k.value[r]
    BY <1>4, CurrentFacts, Fields
  <2>2. \A r \in Sems : Handed(r)' = Handed(r) /\ k'.wait_queue[r] = k.wait_queue[r]
    BY <1>1, <1>4 DEF Handed
  <2>3. k.wait_queue[s] = <<>>
    BY <1>1, Counts
  <2>4. /\ k'.value[s] = k.value[s] - 1 /\ Cardinality(Handed(s)') = Cardinality(Handed(s))
        /\ Cardinality(HeldUnits(s)') = Cardinality(HeldUnits(s)) + 1
    BY <1>7, <2>1, <2>2
  <2>5. k'.value[s] + Cardinality(Handed(s)') + Cardinality(HeldUnits(s)') = InitValue
    BY <2>4, Counts, UnitMoves
  <2> QED
    BY <1>7, <2>1, <2>2, <2>3, <2>5, UnitsStep
<1>9. /\ sem' \in [Procs -> Sems \cup {NoSem}] /\ exiting' \in [Procs -> BOOLEAN]
      /\ left' \in [Procs -> 0 .. MaxSleep] /\ k'.ok
  BY <1>1, <1>4, CurrentFacts, HeldTypes
<1>10. Inv'
  BY <1>2, <1>3, <1>4, <1>5, <1>6, <1>7, <1>8, <1>9, RunnerStays
<1> QED
  BY <1>4, <1>10

LEMMA DownWaitsStep ==
    ASSUME Inv, NEW p \in Procs, p = k.current, NEW s \in Sems, DownWaits(p, s)
    PROVE  /\ Inv'
           /\ \A r \in Sems : \/ k'.wait_queue[r] = k.wait_queue[r]
                              \/ k'.wait_queue[r] = Append(k.wait_queue[r], p)
<1>1. /\ pc[p] \in {"run", "kern"} /\ ~(k.value[s] > 0) /\ k' = WaitCurrentSet(k, s)
      /\ sem' = [sem EXCEPT ![p] = s]
      /\ pc' = [pc EXCEPT ![p] = "waiting"] /\ UNCHANGED <<exiting, held, left>>
  BY DEF DownWaits, Goto, Executing
<1>2. /\ pc' \in [All -> Labels] /\ pc'[idleproc] = "run" /\ pc'[p] = "waiting"
      /\ sem' \in [Procs -> Sems \cup {NoSem}] /\ sem'[p] = s
      /\ \A x \in Procs : x # p => pc'[x] = pc[x] /\ sem'[x] = sem[x]
  BY <1>1, CurrentFacts DEF IdleRuns, Labels
<1>3. /\ k.state[p] = "RUNNABLE" /\ k.wait_state[p] = "none" /\ Placed(p)
      /\ left[p] = 0 /\ sem[p] = NoSem /\ \A r \in Sems : p \notin ToSet(k.wait_queue[r])
  BY <1>1, Awake, CurrentFacts
<1>4. /\ k' \in KernelStates /\ Queued(k') /\ k'.ok = k.ok
      /\ k'.state[p] = "SLEEPING" /\ k'.wait_state[p] = "WT_KSEM"
      /\ \A q \in All : q # p => /\ k'.state[q] = k.state[q]
                                /\ k'.wait_state[q] = k.wait_state[q]
                                /\ k'.wakeup_flags[q] = k.wakeup_flags[q]
      /\ k'.current = k.current /\ k'.timer_list = k.timer_list
      /\ k'.value = k.value
      /\ k'.wait_queue = [k.wait_queue EXCEPT ![s] = Append(@, p)]
  <2>1. k \in KernelStates /\ Queued(k)
    BY CurrentFacts
  <2>2. GoneToWait(k, k', p, s)
    BY <1>1, <1>3, <2>1, WaitSet
  <2> QED
    BY <2>2 DEF GoneToWait
<1>5. \A r \in Sems :
         /\ k.wait_queue[r] \in Seq(Procs) /\ IsInjective(k.wait_queue[r])
         /\ k'.wait_queue[r] = IF r = s THEN Append(k.wait_queue[s], p) ELSE k.wait_queue[r]
         /\ \A q \in ToSet(k.wait_queue[r]) : sem[q] = r
         /\ ToSet(k.wait_queue[r]) \subseteq Procs
  <2> SUFFICES ASSUME NEW r \in Sems
               PROVE  /\ k.wait_queue[r] \in Seq(Procs) /\ IsInjective(k.wait_queue[r])
                      /\ k'.wait_queue[r] = IF r = s THEN Append(k.wait_queue[s], p)
                                            ELSE k.wait_queue[r]
                      /\ \A q \in ToSet(k.wait_queue[r]) : sem[q] = r
                      /\ ToSet(k.wait_queue[r]) \subseteq Procs
    OBVIOUS
  <2>1. k.wait_queue \in [Sems -> Seq(Procs)]
    BY CurrentFacts, Fields
  <2>2. ToSet(k.wait_queue[r]) \subseteq Procs
    BY <2>1, LenProperties DEF ToSet
  <2> QED
    BY <1>4, <2>1, <2>2, CurrentFacts DEF WaitQueues
<1>6. /\ k'.wait_queue[s] \in Seq(Procs) /\ IsInjective(k'.wait_queue[s])
      /\ ToSet(k'.wait_queue[s]) = ToSet(k.wait_queue[s]) \cup {p}
  <2>1. /\ k'.wait_queue[s] = Append(k.wait_queue[s], p) /\ k.wait_queue[s] \in Seq(Procs)
        /\ IsInjective(k.wait_queue[s]) /\ p \notin ToSet(k.wait_queue[s])
    BY <1>3, <1>5
  <2> QED
    BY <2>1, AppendNew
<1>7. \A q \in Procs : Placed(q)'
  <2> SUFFICES ASSUME NEW q \in Procs PROVE Placed(q)'
    OBVIOUS
  <2>1. CASE q = p
    <3>1. p \in ToSet(k'.wait_queue[s]) /\ s # NoSem /\ left'[p] = 0
      BY <1>1, <1>3, <1>6, SchedAssumption
    <3> QED
      BY <1>2, <1>4, <2>1, <3>1 DEF Placed
  <2>2. CASE q # p
    <3>1. sem[q] # NoSem => (q \in ToSet(k'.wait_queue[sem[q]])
                                <=> q \in ToSet(k.wait_queue[sem[q]]))
      <4>1. CASE sem[q] = s
        BY <1>6, <2>2, <4>1
      <4>2. CASE sem[q] # s
        BY <1>5, <4>2, CurrentFacts
      <4> QED
        BY <4>1, <4>2
    <3>2. /\ k'.state[q] = k.state[q] /\ k'.wait_state[q] = k.wait_state[q]
          /\ k'.wakeup_flags[q] = k.wakeup_flags[q] /\ Placed(q)
      BY <1>4, <2>2, CurrentFacts
    <3> QED
      BY <1>1, <1>2, <2>2, <3>1, <3>2, SamePlace
  <2> QED
    BY <2>1, <2>2
<1>8. Timely'
  BY <1>1, <1>4, CurrentFacts DEF Timely
<1>9. WaitQueues'
  <2> SUFFICES ASSUME NEW r \in Sems
               PROVE  /\ IsInjective(k'.wait_queue[r])
                      /\ \A q \in ToSet(k'.wait_queue[r]) : sem'[q] = r
    BY DEF WaitQueues
  <2>1. CASE r = s
    BY <1>2, <1>5, <1>6, <2>1
  <2>2. CASE r # s
    BY <1>2, <1>3, <1>5, <2>2
  <2> QED
    BY <2>1, <2>2
<1>10. Units'
  <2> SUFFICES ASSUME NEW r \in Sems
        PROVE  /\ k'.value[r] + Cardinality(Handed(r)') + Cardinality(HeldUnits(r)') = InitValue
               /\ k'.wait_queue[r] # <<>> => k'.value[r] = 0
               /\ IsFiniteSet(HeldUnits(r)')
    BY DEF Units, UnitsAccounted, UnitsConserved, NoIdleUnits
  <2>1. HeldUnits(r)' = HeldUnits(r) /\ k'.value[r] = k.value[r]
    BY <1>1, <1>4 DEF HeldUnits
  <2>2. Handed(r)' = Handed(r)
    <3>1. CASE r = s
      <4>1. ASSUME NEW q \in Procs
            PROVE  sem'[q] = s /\ q \notin ToSet(k'.wait_queue[s])
                      <=> sem[q] = s /\ q \notin ToSet(k.wait_queue[s])
        BY <1>2, <1>3, <1>6, SchedAssumption
      <4> QED
        BY <3>1, <4>1 DEF Handed
    <3>2. CASE r # s
      <4>1. ASSUME NEW q \in Procs
            PROVE  sem'[q] = r /\ q \notin ToSet(k'.wait_queue[r])
                      <=> sem[q] = r /\ q \notin ToSet(k.wait_queue[r])
        BY <1>2, <1>3, <1>5, <3>2, SchedAssumption
      <4> QED
        BY <4>1 DEF Handed
    <3> QED
      BY <3>1, <3>2
  <2>3. k'.wait_queue[r] # <<>> => k'.value[r] = 0
    <3>1. CASE r = s
      BY <1>1, <2>1, <3>1, Counts
    <3>2. CASE r # s
      BY <1>5, <2>1, <3>2, Counts
    <3> QED
      BY <3>1, <3>2
  <2> QED
    BY <2>1, <2>2, <2>3, Counts
<1>11. /\ exiting' \in [Procs -> BOOLEAN] /\ held' \in [Procs -> [Sems -> Nat]]
       /\ left' \in [Procs -> 0 .. MaxSleep] /\ k'.ok
       /\ k'.state[idleproc] = k.state[idleproc]
       /\ k'.wait_state[idleproc] = k.wait_state[idleproc]
  BY <1>1, <1>4, CurrentFacts, HeldTypes
<1>12. Inv'
  BY <1>2, <1>4, <1>7, <1>8, <1>9, <1>10, <1>11, RunnerStays
<1> QED
  BY <1>5, <1>12

LEMMA DownEndsStep ==
    ASSUME Inv, NEW p \in Procs, p = k.current, DownEnds(p)
    PROVE  k' = k /\ Inv'
<1>0. sem[p] \in Sems
  BY CurrentFacts DEF DownEnds, Placed
<1> PICK s \in Sems : s = sem[p]
  BY <1>0
<1>1. /\ pc[p] = "queued" /\ k' = DownReturns(k, s)
      /\ held' = [held EXCEPT ![p][s] = @ + 1] /\ sem' = [sem EXCEPT ![p] = NoSem]
      /\ pc' = [pc EXCEPT ![p] = Back(p)] /\ UNCHANGED <<exiting, left>>
  BY DEF DownEnds, Goto
<1>2. /\ pc' \in [All -> Labels] /\ pc'[idleproc] = "run" /\ pc'[p] \in {"run", "kern"}
      /\ sem' \in [Procs -> Sems \cup {NoSem}] /\ sem'[p] = NoSem
      /\ \A x \in Procs : x # p => pc'[x] = pc[x] /\ sem'[x] = sem[x]
  BY <1>1, CurrentFacts DEF IdleRuns, Labels, Back
<1>3. /\ k.state[p] = "RUNNABLE" /\ k.wait_state[p] = "none" /\ Placed(p)
      /\ left[p] = 0 /\ \A r \in Sems : p \notin ToSet(k.wait_queue[r])
  BY <1>1, Awake, CurrentFacts
<1>4. k.wakeup_flags[p] = "WT_KSEM"
  BY <1>1, <1>3, CurrentFacts DEF Placed
<1>5. k' = k
  <2>1. k \in KernelStates /\ Queued(k) /\ k.current \in Procs
    BY CurrentFacts
  <2> QED
    BY <1>1, <1>3, <1>4, <2>1, WaitOver
<1>6. \A q \in Procs : Placed(q)'
  <2> SUFFICES ASSUME NEW q \in Procs PROVE Placed(q)'
    OBVIOUS
  <2>1. CASE q = p
    BY <1>1, <1>2, <1>3, <1>5, <2>1 DEF Placed
  <2>2. CASE q # p
    BY <1>1, <1>2, <1>5, <2>2, CurrentFacts, SamePlace
  <2> QED
    BY <2>1, <2>2
<1>7. Timely'
  BY <1>1, <1>5, CurrentFacts DEF Timely
<1>8. WaitQueues'
  <2>1. ASSUME NEW r \in Sems, NEW q \in ToSet(k.wait_queue[r]) PROVE sem'[q] = r
    <3>1. q \in Procs
      BY CurrentFacts, Fields, LenProperties DEF ToSet
    <3> QED
      BY <1>2, <1>3, <3>1, CurrentFacts DEF WaitQueues
  <2> QED
    BY <1>5, <2>1, CurrentFacts DEF WaitQueues
<1>9. /\ held' \in [Procs -> [Sems -> Nat]]
      /\ \A r \in Sems : r # s => HeldUnits(r)' = HeldUnits(r)
      /\ IsFiniteSet(HeldUnits(s)')
      /\ Cardinality(HeldUnits(s)') = Cardinality(HeldUnits(s)) + 1
  BY <1>1, Counts, HeldTypes, OneMoreHeld
<1>10. Units'
  <2>1. ASSUME NEW r \in Sems, r # s PROVE Handed(r)' = Handed(r)
    <3>1. ASSUME NEW q \in Procs
          PROVE  sem'[q] = r <=> sem[q] = r
      BY <1>2, <2>1, SchedAssumption
    <3> QED
      BY <1>5, <3>1 DEF Handed
  <2>2. Handed(s)' = Handed(s) \ {p} /\ p \in Handed(s)
    <3>1. ASSUME NEW q \in Procs
          PROVE  sem'[q] = s <=> sem[q] = s /\ q # p
      BY <1>2, SchedAssumption
    <3>2. p \in Handed(s)
      BY <1>3 DEF Handed
    <3> QED
      BY <1>5, <3>1, <3>2 DEF Handed
  <2>3. Cardinality(Handed(s)') = Cardinality(Handed(s)) - 1
    <3>1. IsFiniteSet(Handed(s))
      BY Counts
    <3>2. Cardinality(Handed(s) \ {p}) = Cardinality(Handed(s)) - 1
      BY <2>2, <3>1, FS_RemoveElement
    <3> QED
      BY <2>2, <3>2
  <2>4. k'.value[s] = k.value[s]
    BY <1>5
  <2>5. k'.value[s] + Cardinality(Handed(s)') + Cardinality(HeldUnits(s)') = InitValue
    BY <1>9, <2>3, <2>4, Counts, UnitMoves
  <2>6. k'.wait_queue[s] # <<>> => k'.value[s] = 0
    BY <1>5, Counts
  <2> QED
    BY <1>5, <1>9, <2>1, <2>5, <2>6, UnitsStep
<1>11. /\ exiting' \in [Procs -> BOOLEAN] /\ left' \in [Procs -> 0 .. MaxSleep]
       /\ k' \in KernelStates /\ Queued(k') /\ k'.ok
  BY <1>1, <1>5, CurrentFacts, HeldTypes
<1> QED
  BY <1>2, <1>3, <1>5, <1>6, <1>7, <1>8, <1>9, <1>10, <1>11, RunnerStays

LEMMA UpHeldStep ==
    ASSUME Inv, NEW p \in Procs, p = k.current, NEW s \in Sems, UpHeld(p, s)
    PROVE  /\ Inv'
           /\ \A r \in Sems : \/ k'.wait_queue[r] = k.wait_queue[r]
                              \/ k'.wait_queue[r] = Tail(k.wait_queue[r])
<1>1. /\ pc[p] \in {"run", "kern"} /\ held[p][s] > 0 /\ k' = Up(k, s)
      /\ held' = [held EXCEPT ![p][s] = @ - 1]
      /\ pc' = [pc EXCEPT ![p] = Back(p)] /\ UNCHANGED <<sem, exiting, left>>
  BY DEF UpHeld, Goto, Executing
<1>2. /\ pc' \in [All -> Labels] /\ pc'[idleproc] = "run" /\ pc'[p] \in {"run", "kern"}
      /\ \A x \in Procs : x # p => pc'[x] = pc[x]
  BY <1>1, CurrentFacts DEF IdleRuns, Labels, Back
<1>3. /\ k.state[p] = "RUNNABLE" /\ k.wait_state[p] = "none" /\ Placed(p)
      /\ left[p] = 0 /\ sem[p] = NoSem
  BY <1>1, Awake, CurrentFacts
<1>4. /\ held' \in [Procs -> [Sems -> Nat]]
      /\ \A r \in Sems : r # s => HeldUnits(r)' = HeldUnits(r)
      /\ IsFiniteSet(HeldUnits(s)')
      /\ Cardinality(HeldUnits(s)') = Cardinality(HeldUnits(s)) - 1
  BY <1>1, Counts, HeldTypes, OneLessHeld
<1>5. /\ sem' \in [Procs -> Sems \cup {NoSem}] /\ exiting' \in [Procs -> BOOLEAN]
      /\ left' \in [Procs -> 0 .. MaxSleep]
  BY <1>1, CurrentFacts, HeldTypes
<1>6. CASE k.wait_queue[s] = <<>>
  <2>1. /\ k' \in KernelStates /\ Queued(k') /\ k'.ok = k.ok
        /\ k'.state = k.state /\ k'.wait_state = k.wait_state
        /\ k'.current = k.current /\ k'.timer_list = k.timer_list
        /\ k'.value = [k.value EXCEPT ![s] = @ + 1] /\ k'.wait_queue = k.wait_queue
        /\ k'.wakeup_flags = k.wakeup_flags
    BY <1>1, <1>6, CurrentFacts, UpNobodyWaits
  <2>2. \A q \in Procs : Placed(q)'
    <3> SUFFICES ASSUME NEW q \in Procs PROVE Placed(q)'
      OBVIOUS
    <3>1. CASE q = p
      BY <1>1, <1>2, <1>3, <2>1, <3>1 DEF Placed
    <3>2. CASE q # p
      BY <1>1, <1>2, <2>1, <3>2, CurrentFacts, SamePlace
    <3> QED
      BY <3>1, <3>2
  <2>3. Timely' /\ WaitQueues'
    BY <1>1, <2>1, CurrentFacts DEF Timely, WaitQueues
  <2>4. Units'
    <3>1. \A r \in Sems : k'.value[r] = IF r = s THEN k.value[s] + 1 ELSE k.value[r]
      BY <2>1, CurrentFacts, Fields
    <3>2. \A r \in Sems : Handed(r)' = Handed(r) /\ k'.wait_queue[r] = k.wait_queue[r]
      BY <1>1, <2>1 DEF Handed
    <3>3. /\ k'.value[s] = k.value[s] + 1 /\ Cardinality(Handed(s)') = Cardinality(Handed(s))
          /\ Cardinality(HeldUnits(s)') = Cardinality(HeldUnits(s)) - 1
      BY <1>4, <3>1, <3>2
    <3>4. k'.value[s] + Cardinality(Handed(s)') + Cardinality(HeldUnits(s)') = InitValue
      BY <3>3, Counts, UnitMoves
    <3> QED
      BY <1>4, <1>6, <3>1, <3>2, <3>4, UnitsStep
  <2>5. k'.ok
    BY <2>1, CurrentFacts
  <2> QED
    BY <1>2, <1>3, <1>4, <1>5, <2>1, <2>2, <2>3, <2>4, <2>5, RunnerStays
<1>7. CASE k.wait_queue[s] # <<>>
  <2> DEFINE l == k.wait_queue[s]
             h == Head(l)
  <2>1. /\ l \in Seq(Procs) /\ IsInjective(l) /\ \A q \in ToSet(l) : sem[q] = s
        /\ l # <<>>
    BY <1>7, CurrentFacts, Counts DEF WaitQueues
  <2> HIDE DEF l
  <2>2. /\ Tail(l) \in Seq(Procs) /\ IsInjective(Tail(l)) /\ h \in ToSet(l) /\ h \in Procs
        /\ ToSet(Tail(l)) = ToSet(l) \ {h}
    BY <2>1, TailOfQueue
  <2>3. /\ Placed(h) /\ h # p /\ sem[h] = s /\ s # NoSem
        /\ k.state[h] = "SLEEPING" /\ k.wait_state[h] = "WT_KSEM"
    <3>1. Placed(h) /\ sem[h] = s /\ s # NoSem
      BY <2>1, <2>2, CurrentFacts, SchedAssumption
    <3>2. k.wait_state[h] = "WT_KSEM"
      BY <2>2, <3>1 DEF Placed, l
    <3> QED
      BY <1>3, <3>1, <3>2 DEF Placed
  <2>4. /\ k' \in KernelStates /\ Queued(k') /\ k'.ok = k.ok
        /\ k'.state = [k.state EXCEPT ![h] = "RUNNABLE"]
        /\ k'.wait_state = [k.wait_state EXCEPT ![h] = "none"]
        /\ k'.current = k.current /\ k'.timer_list = k.timer_list
        /\ k'.value = k.value
        /\ k'.wait_queue = [k.wait_queue EXCEPT ![s] = Tail(@)]
        /\ k'.wakeup_flags = [k.wakeup_flags EXCEPT ![h] = "WT_KSEM"]
    <3>1. k \in KernelStates /\ Queued(k) /\ h = Head(k.wait_queue[s])
      BY CurrentFacts DEF l
    <3> HIDE DEF h
    <3>2. HandedOver(k, k', h, s)
      BY <1>1, <1>7, <2>2, <2>3, <3>1, UpHandsOver
    <3> QED
      BY <3>2 DEF HandedOver
  <2> HIDE DEF h
  <2>5. /\ k'.state[h] = "RUNNABLE" /\ k'.wait_state[h] = "none" /\ k'.wakeup_flags[h] = "WT_KSEM"
        /\ \A q \in All : q # h => /\ k'.state[q] = k.state[q]
                                  /\ k'.wait_state[q] = k.wait_state[q]
                                  /\ k'.wakeup_flags[q] = k.wakeup_flags[q]
    <3>1. k \in KernelStates /\ h \in All
      BY <2>2, CurrentFacts DEF All
    <3>2. /\ DOMAIN k.state = All /\ DOMAIN k.wait_state = All
          /\ DOMAIN k.wakeup_flags = All
      BY <3>1, Fields
    <3>3. /\ k'.state = [k.state EXCEPT ![h] = "RUNNABLE"]
          /\ k'.wait_state = [k.wait_state EXCEPT ![h] = "none"]
          /\ k'.wakeup_flags = [k.wakeup_flags EXCEPT ![h] = "WT_KSEM"]
      BY <2>4
    <3> QED
      BY <3>1, <3>2, <3>3
  <2>6. \A r \in Sems : k'.wait_queue[r] = IF r = s THEN Tail(l) ELSE k.wait_queue[r]
    BY <2>4, CurrentFacts, Fields DEF l
  <2>7. ASSUME NEW q \in Procs PROVE Placed(q)'
    <3>1. CASE q = p
      <4>1. k'.state[p] = "RUNNABLE" /\ k'.wait_state[p] = "none"
        BY <1>3, <2>3, <2>5, CurrentFacts
      <4> QED
        BY <1>1, <1>2, <1>3, <3>1, <4>1 DEF Placed
    <3>2. CASE q = h
      <4>1. /\ pc'[h] = pc[h] /\ sem'[h] = s /\ left'[h] = left[h] /\ left[h] \in Nat
            /\ exiting'[h] = exiting[h]
        BY <1>1, <1>2, <2>2, <2>3, CurrentFacts
      <4>2. ~(left[h] > 0)
        BY <2>3 DEF Placed
      <4>3. h \notin ToSet(k'.wait_queue[s])
        BY <2>2, <2>6
      <4> QED
        BY <2>3, <2>5, <3>2, <4>1, <4>2, <4>3 DEF Placed
    <3>3. CASE q # p /\ q # h
      <4>1. sem[q] # NoSem => (q \in ToSet(k'.wait_queue[sem[q]])
                                  <=> q \in ToSet(k.wait_queue[sem[q]]))
        <5>1. CASE sem[q] = s
          BY <2>2, <2>6, <3>3, <5>1 DEF l
        <5>2. CASE sem[q] # s
          BY <2>6, <5>2, CurrentFacts
        <5> QED
          BY <5>1, <5>2
      <4>2. /\ k'.state[q] = k.state[q] /\ k'.wait_state[q] = k.wait_state[q]
            /\ k'.wakeup_flags[q] = k.wakeup_flags[q] /\ Placed(q) /\ pc'[q] = pc[q]
        BY <1>2, <2>5, <3>3, CurrentFacts
      <4> QED
        BY <1>1, <4>1, <4>2, SamePlace
    <3> QED
      BY <3>1, <3>2, <3>3
  <2>8. Timely'
    BY <1>1, <2>4, CurrentFacts DEF Timely
  <2>9. WaitQueues'
    <3> SUFFICES ASSUME NEW r \in Sems
                 PROVE  /\ IsInjective(k'.wait_queue[r])
                        /\ \A q \in ToSet(k'.wait_queue[r]) : sem'[q] = r
      BY DEF WaitQueues
    <3>1. CASE r = s
      BY <1>1, <2>1, <2>2, <2>6, <3>1
    <3>2. CASE r # s
      BY <1>1, <2>6, <3>2, CurrentFacts DEF WaitQueues
    <3> QED
      BY <3>1, <3>2
  <2>10. Units'
    <3>1. \A r \in Sems : r # s => Handed(r)' = Handed(r) /\ k'.wait_queue[r] = k.wait_queue[r]
      BY <1>1, <2>6 DEF Handed
    <3>2. Handed(s)' = Handed(s) \cup {h} /\ h \notin Handed(s)
      BY <1>1, <2>2, <2>3, <2>6 DEF Handed, l
    <3>3. Cardinality(Handed(s)') = Cardinality(Handed(s)) + 1
      BY <3>2, Counts, FS_AddElement
    <3>4. k'.value = k.value
      BY <2>4
    <3>5. k'.value[s] + Cardinality(Handed(s)') + Cardinality(HeldUnits(s)') = InitValue
      BY <1>4, <3>3, <3>4, Counts, UnitMoves
    <3>6. k'.value[s] = 0
      BY <1>7, <3>4, Counts
    <3> QED
      BY <1>4, <3>1, <3>4, <3>5, <3>6, UnitsStep
  <2>11. /\ k'.ok /\ k'.state[idleproc] = k.state[idleproc] /\ k'.state[p] = "RUNNABLE"
         /\ k'.wait_state[idleproc] = k.wait_state[idleproc]
    BY <1>3, <2>2, <2>3, <2>4, <2>5, CurrentFacts
  <2>12. Inv'
    BY <1>2, <1>4, <1>5, <2>4, <2>7, <2>8, <2>9, <2>10, <2>11, RunnerStays
  <2> QED
    BY <2>6, <2>12 DEF l
<1> QED
  BY <1>6, <1>7

-----------------------------------------------------------------------------

LEMMA BootOK ==
    ASSUME NEW order \in Seq(Procs), IsInjective(order), ToSet(order) = Procs,
           NEW values \in [Sems -> Nat]
    PROVE  Boot(order, values) \in KernelStates /\ Queued(Boot(order, values))
<1> DEFINE b == Boot(order, values)
<1>1. b \in KernelStates
  BY SchedAssumption DEF Boot, KernelStates, All
<1>2. /\ b.run_list = order /\ b.current = idleproc
      /\ \A p \in Procs : b.state[p] = "RUNNABLE"
  BY DEF Boot, All
<1> HIDE DEF b
<1>3. Queued(b)
  BY <1>2, SchedAssumption DEF Queued
<1> QED
  BY <1>1, <1>3 DEF b

\* An order of the finite set of processes holds each of them.
LEMMA OrdersProcs ==
    ASSUME NEW order \in SetToSeqs(Procs)
    PROVE  order \in Seq(Procs) /\ IsInjective(order) /\ ToSet(order) = Procs
<1> DEFINE n == Cardinality(Procs)
<1>1. order \in [1 .. n -> Procs] /\ IsInjective(order)
  <2>1. order \in [1 .. n -> Procs] /\ \A i, j \in 1 .. n : i # j => order[i] # order[j]
    BY DEF SetToSeqs
  <2> HIDE DEF n
  <2> QED
    BY <2>1 DEF IsInjective
<1>2. n \in Nat /\ IsFiniteSet(1 .. n) /\ Cardinality(1 .. n) = n
  BY SchedAssumption, FS_CardinalityType, FS_Interval
<1> HIDE DEF n
<1>3. order \in Seq(Procs)
  BY <1>1, <1>2, SeqDef
<1>4. order \in Injection(1 .. n, Procs)
  BY <1>1 DEF IsInjective, Injection
<1>5. order \in Surjection(1 .. n, Procs)
  BY <1>2, <1>4, SchedAssumption, FS_Injection DEF n
<1>6. ToSet(order) = Procs
  BY <1>1, <1>5 DEF ToSet, Surjection
<1> QED
  BY <1>1, <1>3, <1>6

LEMMA InitInv == Init => Inv
<1> SUFFICES ASSUME Init PROVE Inv
  OBVIOUS
<1> DEFINE values == [s \in Sems |-> InitValue]
<1>1. PICK order \in SetToSeqs(Procs) : k = Boot(order, values)
  BY DEF Init
<1>2. order \in Seq(Procs) /\ IsInjective(order) /\ ToSet(order) = Procs
  BY OrdersProcs
<1>3. values \in [Sems -> Nat]
  BY SchedAssumption
<1>4. k \in KernelStates /\ Queued(k)
  BY <1>1, <1>2, <1>3, BootOK
<1>5. /\ k.ok /\ k.current = idleproc /\ k.timer_list = <<>>
      /\ \A p \in All : /\ k.state[p] = "RUNNABLE" /\ k.wait_state[p] = "none"
      /\ \A s \in Sems : k.value[s] = InitValue /\ k.wait_queue[s] = <<>>
  BY <1>1, <1>2 DEF Boot, All
<1>6. /\ pc = [p \in All |-> "run"] /\ sem = [p \in Procs |-> NoSem]
      /\ exiting = [p \in Procs |-> FALSE] /\ left = [p \in Procs |-> 0]
      /\ held = [p \in Procs |-> [s \in Sems |-> 0]]
  BY DEF Init
<1>7. TypeOK
  BY <1>4, <1>6, SchedAssumption DEF TypeOK, Labels
<1>8. Timely
  BY <1>5, <1>6 DEF Timely, Counted, Timed
<1>9. IdleRuns
  BY <1>5, <1>6 DEF IdleRuns, All
<1>10. ASSUME NEW p \in Procs PROVE Placed(p) /\ Switched(p)
  <2>1. /\ k.state[p] = "RUNNABLE" /\ k.wait_state[p] = "none" /\ pc[p] = "run"
        /\ sem[p] = NoSem /\ left[p] = 0 /\ p # k.current
    BY <1>5, <1>6, SchedAssumption DEF All
  <2> QED
    BY <2>1 DEF Placed, Switched
<1>11. WaitQueues
  BY <1>5 DEF WaitQueues, IsInjective, ToSet
<1>12. Units
  <2>1. ASSUME NEW s \in Sems PROVE HeldUnits(s) = {} /\ Handed(s) = {}
    <3>1. \A p \in Procs : sem[p] # s /\ 1 .. held[p][s] = {}
      BY <1>6, SchedAssumption
    <3> QED
      BY <3>1 DEF HeldUnits, Handed
  <2>2. ASSUME NEW s \in Sems
        PROVE  /\ k.value[s] + Cardinality(Handed(s)) + Cardinality(HeldUnits(s)) = InitValue
               /\ IsFiniteSet(HeldUnits(s)) /\ k.wait_queue[s] = <<>>
    <3>1. Cardinality(Handed(s)) = 0 /\ Cardinality(HeldUnits(s)) = 0 /\ IsFiniteSet(HeldUnits(s))
      BY <2>1, FS_EmptySet
    <3>2. k.value[s] = InitValue /\ InitValue \in Nat
      BY <1>5, SchedAssumption
    <3> QED
      BY <1>5, <3>1, <3>2
  <2> QED
    BY <2>2 DEF Units, UnitsAccounted, UnitsConserved, NoIdleUnits
<1> QED
  BY <1>4, <1>5, <1>7, <1>8, <1>9, <1>10, <1>11, <1>12
     DEF Inv, AssertionsHold, RunQueueExact, Queued

\* What UnitsInOrder says of the queue of one semaphore.
InOrder(s) ==
    IsPrefix(k.wait_queue[s], k'.wait_queue[s]) \/ k'.wait_queue[s] = Tail(k.wait_queue[s])

LEMMA SameIsPrefix == ASSUME NEW q PROVE IsPrefix(q, q)
BY DEF IsPrefix

LEMMA AppendIsLonger ==
    ASSUME NEW R, NEW q \in Seq(R), NEW p \in R
    PROVE  IsPrefix(q, Append(q, p))
<1> DEFINE n == Len(q)
           a == Append(q, p)
<1>1. n \in Nat /\ a \in Seq(R) /\ Len(a) = n + 1
  BY AppendProperties
<1>2. \A i \in 1 .. n : a[i] = q[i] /\ a[i] \in R /\ q[i] \in R
  BY AppendProperties, ElementOfSeq
<1> HIDE DEF n, a
<1>3. /\ SubSeq(q, 1, n) \in Seq(R) /\ Len(SubSeq(q, 1, n)) = n
      /\ \A i \in 1 .. n : SubSeq(q, 1, n)[i] = q[i]
  <2>1. /\ SubSeq(q, 1, n) \in Seq(R)
        /\ Len(SubSeq(q, 1, n)) = IF 1 <= n THEN n - 1 + 1 ELSE 0
        /\ \A i \in 1 .. n - 1 + 1 : SubSeq(q, 1, n)[i] = q[1 + i - 1]
    BY <1>1, <1>2, SubSeqProperties
  <2> QED
    BY <1>1, <2>1
<1>4. /\ SubSeq(a, 1, n) \in Seq(R) /\ Len(SubSeq(a, 1, n)) = n
      /\ \A i \in 1 .. n : SubSeq(a, 1, n)[i] = a[i]
  <2>1. /\ SubSeq(a, 1, n) \in Seq(R)
        /\ Len(SubSeq(a, 1, n)) = IF 1 <= n THEN n - 1 + 1 ELSE 0
        /\ \A i \in 1 .. n - 1 + 1 : SubSeq(a, 1, n)[i] = a[1 + i - 1]
    BY <1>1, <1>2, SubSeqProperties
  <2> QED
    BY <1>1, <2>1
<1>5. SubSeq(q, 1, n) = SubSeq(a, 1, n)
  BY <1>2, <1>3, <1>4, SeqEqual
<1> QED
  BY <1>1, <1>5 DEF IsPrefix, n, a

LEMMA NextInv == Inv /\ [Next]_vars => Inv' /\ \A s \in Sems : InOrder(s)
<1> SUFFICES ASSUME Inv, [Next]_vars PROVE Inv' /\ \A s \in Sems : InOrder(s)
  OBVIOUS
<1>1. ASSUME k'.wait_queue = k.wait_queue PROVE \A s \in Sems : InOrder(s)
  BY <1>1, SameIsPrefix DEF InOrder
<1>2. CASE UNCHANGED vars
  <2>1. Inv'
    <3>1. TypeOK' /\ AssertionsHold' /\ RunQueueExact' /\ Timely' /\ IdleRuns'
      BY <1>2, CurrentFacts
         DEF vars, Inv, TypeOK, AssertionsHold, RunQueueExact, Timely, IdleRuns
    <3>2. \A p \in Procs : Placed(p)' /\ Switched(p)'
      BY <1>2, CurrentFacts DEF vars, Placed, Switched
    <3>3. WaitQueues' /\ Units'
      BY <1>2, CurrentFacts, SameUnits DEF vars
    <3> QED
      BY <3>1, <3>2, <3>3 DEF Inv
  <2> QED
    BY <1>1, <1>2, <2>1 DEF vars
<1>3. CASE Tick(k.current)
  BY <1>1, <1>3, TickStep
<1>4. CASE Idle
  BY <1>1, <1>4, IdleStep
<1>5. ASSUME NEW p \in Procs, p = k.current, KernelStep(p) \/ ProgramStep(p)
      PROVE  Inv' /\ \A s \in Sems : InOrder(s)
  <2>1. CASE SwitchOut(p)
    BY <1>1, <1>5, <2>1, SwitchOutStep
  <2>2. CASE SleepReturns(p)
    BY <1>1, <1>5, <2>2, SleepReturnsStep
  <2>3. CASE DownEnds(p)
    BY <1>1, <1>5, <2>3, DownEndsStep
  <2>4. CASE TrapEnd(p)
    BY <1>1, <1>5, <2>4, TrapEndStep
  <2>5. CASE Sleep(p)
    BY <1>1, <1>5, <2>5, SleepStep
  <2>6. CASE Yield(p) \/ EndCall(p)
    BY <1>1, <1>5, <2>6, YieldStep
  <2>7. CASE ExitCall(p)
    <3>1. pc[p] \in {"run", "kern", "trap"} /\ Exit(p)
      BY <2>7 DEF ExitCall, Executing
    <3> QED
      BY <1>1, <1>5, <3>1, ExitStep
  <2>8. CASE \E s \in Sems : DownNow(p, s)
    BY <1>1, <1>5, <2>8, DownNowStep
  <2>9. ASSUME NEW s \in Sems, DownWaits(p, s) PROVE Inv' /\ \A r \in Sems : InOrder(r)
    <3>1. /\ Inv'
          /\ \A r \in Sems : \/ k'.wait_queue[r] = k.wait_queue[r]
                             \/ k'.wait_queue[r] = Append(k.wait_queue[r], p)
      BY <1>5, <2>9, DownWaitsStep
    <3>2. \A r \in Sems : IsPrefix(k.wait_queue[r], Append(k.wait_queue[r], p))
      BY Counts, AppendIsLonger
    <3> QED
      BY <3>1, <3>2, SameIsPrefix DEF InOrder
  <2>10. CASE \E s \in Sems : UpHeld(p, s)
    BY <1>5, <2>10, UpHeldStep, SameIsPrefix DEF InOrder
  <2>11. CASE \E q \in Procs : Kill(p, q)
    BY <1>1, <1>5, <2>11, KillStep
  <2> QED
    BY <1>5, <2>1, <2>2, <2>3, <2>4, <2>5, <2>6, <2>7, <2>8, <2>9, <2>10, <2>11
       DEF KernelStep, ProgramStep
<1> QED
  BY <1>2, <1>3, <1>4, <1>5 DEF Next

(***************************************************************************)
(* The theorems.                                                           *)
(***************************************************************************)

\* The inductive invariant, in every reachable state: where a process is in
\* do_sleep and __down, its state, its timer, its place in the queues of
\* sched.c and wait.c and the units of sem.c agree.
THEOREM Invariant == Spec => []Inv
BY InitInv, NextInv, PTL DEF Spec

\* No assertion of sched.c, default_sched.c, wait.c or sem.c fails, whoever
\* is woken by run_timer_list, by do_kill or by up().
THEOREM NoAssertionFails == Spec => []AssertionsHold
<1>1. Inv => AssertionsHold
  BY DEF Inv
<1> QED
  BY <1>1, Invariant, PTL

\* The run queue of RR_enqueue and RR_dequeue holds the runnable processes
\* but the current one, once each, and the differences that add_timer and
\* del_timer keep in the timer list add up.
THEOREM QueuesStayExact == Spec => []QueuesExact
<1>1. ASSUME Inv PROVE QueuesExact
  <2>1. /\ k.timer_list \in Seq(Timers) /\ left \in [Procs -> Nat]
        /\ Counted(k.timer_list, left)
    BY <1>1, CurrentFacts, Fields DEF Timely
  <2>2. \A i \in 1 .. Len(k.timer_list) :
           Due(k.timer_list, i) = left[k.timer_list[i].proc]
    BY <2>1, DueIsCounted
  <2>3. TimersExact
    BY <2>1, <2>2, TimerTypes DEF TimersExact
  <2> QED
    BY <1>1, <2>3 DEF Inv, QueuesExact
<1> QED
  BY <1>1, Invariant, PTL

\* No wakeup is lost in the windows of do_sleep and __down: a sleeper has a
\* timer still to run, or is in the queue of the semaphore it waits for.
THEOREM NoSleeperIsLost == Spec => []NoLostSleeper
<1>1. ASSUME Inv PROVE NoLostSleeper
  <2> SUFFICES ASSUME NEW p \in Procs, k.state[p] = "SLEEPING"
               PROVE  \/ /\ k.wait_state[p] = "WT_TIMER"
                         /\ \E i \in DOMAIN k.timer_list : k.timer_list[i].proc = p
                      \/ k.wait_state[p] = "WT_KSEM" /\ p \in ToSet(k.wait_queue[sem[p]])
    BY DEF NoLostSleeper
  <2>1. Placed(p) /\ k.wait_state[p] \in {"none", "WT_CHILD", "WT_TIMER", "WT_KSEM"}
    BY <1>1, CurrentFacts, Fields
  <2>2. CASE k.wait_state[p] = "WT_TIMER"
    <3>1. p \in Timed(k.timer_list)
      BY <1>1, <2>1, <2>2, CurrentFacts DEF Placed, Timely
    <3>2. DOMAIN k.timer_list = 1 .. Len(k.timer_list)
      BY <1>1, CurrentFacts, Fields, TimerTypes
    <3> QED
      BY <2>2, <3>1, <3>2 DEF Timed
  <2>3. CASE k.wait_state[p] = "WT_KSEM"
    BY <2>1, <2>3 DEF Placed
  <2> QED
    BY <2>1, <2>2, <2>3 DEF Placed
<1> QED
  BY <1>1, Invariant, PTL

\* A caller of do_sleep that nobody killed sleeps as long as it asked for,
\* through the timers inserted before and after its own, and those that
\* del_timer takes off the list.
THEOREM SleepsEndOnTime == Spec => []SleepsExactly
<1>1. ASSUME Inv PROVE SleepsExactly
  <2> SUFFICES ASSUME NEW p \in Procs, pc[p] \in {"sleeping", "asleep"}, ~exiting[p]
               PROVE  k.state[p] = "SLEEPING" <=> left[p] > 0
    BY DEF SleepsExactly
  <2>1. Placed(p) /\ k.wait_state[p] \in {"none", "WT_CHILD", "WT_TIMER", "WT_KSEM"}
    BY <1>1, CurrentFacts, Fields
  <2>2. k.wait_state[p] # "WT_KSEM"
    BY <2>1 DEF Placed
  <2> QED
    BY <2>1, <2>2 DEF Placed
<1> QED
  BY <1>1, Invariant, PTL

\* The units of a semaphore are conserved by __up and __down: in its value,
\* held, or handed to a waiter that did not run yet; and none is idle while
\* somebody waits.
THEOREM UnitsStayAccounted == Spec => []UnitsAccounted
<1>1. Inv => UnitsAccounted
  BY DEF Inv, Units
<1> QED
  BY <1>1, Invariant, PTL

\* No step changes the order of those who wait in __down, or lets one
\* overtake.
THEOREM WaitersServedInOrder == Spec => UnitsInOrder
<1>1. Inv /\ [Next]_vars =>
         [\A s \in Sems :
             \/ IsPrefix(k.wait_queue[s], k'.wait_queue[s])
             \/ k'.wait_queue[s] = Tail(k.wait_queue[s])]_vars
  BY NextInv DEF InOrder
<1> QED
  BY <1>1, Invariant, PTL DEF Spec, UnitsInOrder
=============================================================================
