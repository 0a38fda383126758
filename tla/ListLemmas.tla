----------------------------- MODULE ListLemmas ------------------------------
(***************************************************************************)
(* Facts about the lists of list.h where they are sequences without        *)
(* repetitions, that is, lists of links that are on at most one list once. *)
(***************************************************************************)
EXTENDS Integers, SequencesExt, SequenceTheorems, WellFoundedInduction, TLAPS

\* list_add_before the head: an entry that was not on the list is on it once.
LEMMA AppendNew ==
    ASSUME NEW R, NEW q \in Seq(R), NEW p \in R, IsInjective(q), p \notin ToSet(q)
    PROVE  /\ Append(q, p) \in Seq(R)
           /\ IsInjective(Append(q, p))
           /\ ToSet(Append(q, p)) = ToSet(q) \cup {p}
BY AppendProperties DEF IsInjective, ToSet

\* The position that RemoveFirst removes.
LEMMA FirstPosition ==
    ASSUME NEW R, NEW q \in Seq(R), NEW p \in R, IsInjective(q),
           NEW i \in 1 .. Len(q), q[i] = p
    PROVE  RemoveFirst(q, p) = SubSeq(q, 1, i - 1) \o SubSeq(q, i + 1, Len(q))
<1> DEFINE I == {j \in 1 .. Len(q) : q[j] = p}
<1>1. I = {i}
  BY DEF IsInjective
<1>2. Min(I) = i
  BY <1>1 DEF Min
<1>3. SelectInSeq(q, LAMBDA v : v = p) = i
  BY <1>1, <1>2 DEF SelectInSeq
<1> QED
  BY <1>3 DEF RemoveFirst, RemoveAt

\* list_del of the entry at position i: those behind it move up by one.
LEMMA RemoveMovesUp ==
    ASSUME NEW R, NEW q \in Seq(R), NEW p \in R, IsInjective(q),
           NEW i \in 1 .. Len(q), q[i] = p
    PROVE  /\ RemoveFirst(q, p) \in Seq(R) /\ Len(RemoveFirst(q, p)) = Len(q) - 1
           /\ \A j \in 1 .. Len(q) - 1 :
                 RemoveFirst(q, p)[j] = IF j < i THEN q[j] ELSE q[j + 1]
<1> DEFINE before == SubSeq(q, 1, i - 1)
           after == SubSeq(q, i + 1, Len(q))
           rest == before \o after
<1>1. RemoveFirst(q, p) = rest
  BY FirstPosition
<1>2. /\ before \in Seq(R) /\ Len(before) = i - 1
      /\ \A j \in 1 .. i - 1 : before[j] = q[j]
  BY SubSeqProperties
<1>3. /\ after \in Seq(R) /\ Len(after) = Len(q) - i
      /\ \A j \in 1 .. Len(q) - i : after[j] = q[i + j]
  BY SubSeqProperties
<1> HIDE DEF before, after
<1>4. /\ rest \in Seq(R) /\ Len(rest) = Len(q) - 1
      /\ \A j \in 1 .. Len(q) - 1 : rest[j] = IF j < i THEN q[j] ELSE q[j + 1]
  <2>1. Len(q) \in Nat /\ i \in 1 .. Len(q)
    OBVIOUS
  <2>2. /\ rest \in Seq(R) /\ Len(rest) = Len(before) + Len(after)
        /\ \A j \in 1 .. Len(before) + Len(after) :
              rest[j] = IF j <= Len(before) THEN before[j] ELSE after[j - Len(before)]
    BY <1>2, <1>3, ConcatProperties
  <2> HIDE DEF rest
  <2>3. Len(rest) = Len(q) - 1
    BY <1>2, <1>3, <2>1, <2>2
  <2>4. ASSUME NEW j \in 1 .. Len(q) - 1
        PROVE  rest[j] = IF j < i THEN q[j] ELSE q[j + 1]
    <3>1. j \in 1 .. Len(before) + Len(after)
      BY <1>2, <1>3, <2>1
    <3>2. rest[j] = IF j <= i - 1 THEN before[j] ELSE after[j - (i - 1)]
      BY <1>2, <2>2, <3>1
    <3>3. CASE j < i
      <4>1. j \in 1 .. i - 1
        BY <2>1, <3>3
      <4> QED
        BY <1>2, <3>2, <3>3, <4>1
    <3>4. CASE ~(j < i)
      <4>1. rest[j] = after[j - (i - 1)] /\ j - (i - 1) \in 1 .. Len(q) - i
        BY <2>1, <3>2, <3>4
      <4>2. i + (j - (i - 1)) = j + 1
        BY <2>1
      <4> QED
        BY <1>3, <3>4, <4>1, <4>2
    <3> QED
      BY <3>3, <3>4
  <2> QED
    BY <2>2, <2>3, <2>4
<1> QED
  BY <1>1, <1>4

\* list_del: what is left is what was there, without p.
LEMMA RemoveOne ==
    ASSUME NEW R, NEW q \in Seq(R), NEW p \in R, IsInjective(q)
    PROVE  /\ RemoveFirst(q, p) \in Seq(R)
           /\ IsInjective(RemoveFirst(q, p))
           /\ ToSet(RemoveFirst(q, p)) = ToSet(q) \ {p}
           /\ p \in ToSet(q) => Len(RemoveFirst(q, p)) = Len(q) - 1
<1>1. CASE p \notin ToSet(q)
  <2>1. ~\E i \in 1 .. Len(q) : q[i] = p
    BY <1>1 DEF ToSet
  <2> QED
    BY <1>1, <2>1 DEF RemoveFirst
<1>2. CASE p \in ToSet(q)
  <2>1. PICK i \in 1 .. Len(q) : q[i] = p
    BY <1>2 DEF ToSet
  <2> DEFINE rest == RemoveFirst(q, p)
  <2>2. /\ rest \in Seq(R) /\ Len(rest) = Len(q) - 1
        /\ \A j \in 1 .. Len(q) - 1 : rest[j] = IF j < i THEN q[j] ELSE q[j + 1]
    BY <2>1, RemoveMovesUp
  <2> HIDE DEF rest
  <2>3. ASSUME NEW a \in DOMAIN rest, NEW b \in DOMAIN rest, rest[a] = rest[b]
        PROVE  a = b
    <3>1. a \in 1 .. Len(q) - 1 /\ b \in 1 .. Len(q) - 1 /\ Len(q) \in Nat
      BY <2>2
    <3>2. DOMAIN q = 1 .. Len(q)
      OBVIOUS
    <3> DEFINE at(j) == IF j < i THEN j ELSE j + 1
    <3>3. /\ at(a) \in DOMAIN q /\ at(b) \in DOMAIN q
          /\ rest[a] = q[at(a)] /\ rest[b] = q[at(b)]
      BY <2>2, <3>1, <3>2
    <3>4. at(a) = at(b)
      <4> HIDE DEF at
      <4> QED
        BY <2>3, <3>3 DEF IsInjective
    <3> QED
      BY <3>1, <3>4
  <2>4. ToSet(rest) = ToSet(q) \ {p}
    <3>1. ASSUME NEW j \in 1 .. Len(q), q[j] # p
          PROVE  q[j] \in ToSet(rest)
      <4>1. j # i
        BY <2>1, <3>1
      <4>2. CASE j < i
        <5>1. j \in 1 .. Len(q) - 1 /\ rest[j] = q[j]
          BY <2>2, <4>2
        <5> QED
          BY <2>2, <5>1 DEF ToSet
      <4>3. CASE j > i
        <5>1. j - 1 \in 1 .. Len(q) - 1 /\ rest[j - 1] = q[j]
          BY <2>2, <4>3
        <5> QED
          BY <2>2, <5>1 DEF ToSet
      <4> QED
        BY <4>1, <4>2, <4>3
    <3>2. ASSUME NEW j \in 1 .. Len(q) - 1
          PROVE  rest[j] \in ToSet(q) /\ rest[j] # p
      <4>1. PICK l \in 1 .. Len(q) : l # i /\ rest[j] = q[l]
        <5>1. CASE j < i
          BY <2>2, <5>1
        <5>2. CASE ~(j < i)
          <6>1. j + 1 \in 1 .. Len(q) /\ j + 1 # i /\ rest[j] = q[j + 1]
            BY <2>2, <5>2
          <6> QED
            BY <6>1
        <5> QED
          BY <5>1, <5>2
      <4> QED
        BY <2>1, <4>1 DEF ToSet, IsInjective
    <3>3. DOMAIN rest = 1 .. Len(q) - 1 /\ DOMAIN q = 1 .. Len(q)
      BY <2>2
    <3> QED
      BY <3>1, <3>2, <3>3 DEF ToSet
  <2> QED
    BY <1>2, <2>2, <2>3, <2>4 DEF IsInjective, rest
<1> QED
  BY <1>1, <1>2

\* list_add behind the head.
LEMMA PushNew ==
    ASSUME NEW R, NEW q \in Seq(R), NEW p \in R, IsInjective(q), p \notin ToSet(q)
    PROVE  /\ <<p>> \o q \in Seq(R)
           /\ IsInjective(<<p>> \o q)
           /\ ToSet(<<p>> \o q) = ToSet(q) \cup {p}
           /\ Len(<<p>> \o q) = Len(q) + 1
<1> DEFINE r == <<p>> \o q
<1>1. /\ r \in Seq(R) /\ Len(r) = Len(q) + 1
      /\ \A j \in 1 .. Len(q) + 1 : r[j] = IF j = 1 THEN p ELSE q[j - 1]
  BY ConcatProperties
<1> HIDE DEF r
<1>2. DOMAIN r = 1 .. Len(q) + 1 /\ DOMAIN q = 1 .. Len(q)
  BY <1>1
<1>3. ASSUME NEW j \in DOMAIN r, j # 1
      PROVE  j - 1 \in DOMAIN q /\ r[j] = q[j - 1]
  BY <1>1, <1>2, <1>3
<1>4. r[1] = p /\ 1 \in DOMAIN r
  BY <1>1, <1>2
<1>5. ASSUME NEW a \in DOMAIN r, NEW b \in DOMAIN r, r[a] = r[b]
      PROVE  a = b
  <2>1. CASE a = 1 \/ b = 1
    BY <1>3, <1>4, <1>5, <2>1 DEF ToSet
  <2>2. CASE a # 1 /\ b # 1
    <3>1. a - 1 = b - 1
      BY <1>3, <1>5, <2>2 DEF IsInjective
    <3> QED
      BY <1>2, <3>1
  <2> QED
    BY <2>1, <2>2
<1>6. ToSet(r) = ToSet(q) \cup {p}
  <2>1. ASSUME NEW j \in DOMAIN q
        PROVE  q[j] \in ToSet(r)
    <3>1. j + 1 \in DOMAIN r /\ r[j + 1] = q[j]
      BY <1>1, <1>2
    <3> QED
      BY <3>1 DEF ToSet
  <2> QED
    BY <1>3, <1>4, <2>1 DEF ToSet
<1> QED
  BY <1>1, <1>5, <1>6 DEF IsInjective, r

\* The first free page, the first position: Min chooses an element of its argument.
LEMMA LeastOfNat ==
    ASSUME NEW S, S \subseteq Nat, S # {}
    PROVE  Min(S) \in S /\ \A x \in S : Min(S) <= x
<1>1. \E x \in S : \A y \in S : ~(<<y, x>> \in OpToRel(<, Nat))
  BY NatLessThanWellFounded, WFMin
<1>2. \A x, y \in S : <<y, x>> \in OpToRel(<, Nat) <=> y < x
  BY DEF OpToRel
<1>3. \E x \in S : \A y \in S : ~(y < x)
  BY <1>1, <1>2, Zenon
<1>4. \E x \in S : \A y \in S : x <= y
  BY <1>3
<1> QED
  BY <1>4 DEF Min
=============================================================================
