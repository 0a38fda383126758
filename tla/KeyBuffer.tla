----------------------------- MODULE KeyBuffer ------------------------------
(***************************************************************************)
(* What the keyboard device of lab8 promises its readers: the characters   *)
(* typed are handed out once each, in the order of the buffer.  A          *)
(* character that finds the buffer full takes the place of the oldest.     *)
(***************************************************************************)
EXTENDS Naturals, SequencesExt

CONSTANTS Readers, STDIN_BUFSIZE, MaxTyped

VARIABLES
    typed,          \* characters typed so far; the next one is typed + 1
    keys,           \* those in the buffer, the oldest first
    received        \* for each reader, those it has read

Init ==
    /\ typed = 0
    /\ keys = <<>>
    /\ received = [p \in Readers |-> <<>>]

Key ==
    /\ typed < MaxTyped
    /\ typed' = typed + 1
    /\ keys' = IF Len(keys) < STDIN_BUFSIZE THEN Append(keys, typed')
               ELSE [keys EXCEPT ![1] = typed']
    /\ UNCHANGED received

Take(p, n) ==
    /\ received' = [received EXCEPT ![p] = @ \o SubSeq(keys, 1, n)]
    /\ keys' = SubSeq(keys, n + 1, Len(keys))
    /\ UNCHANGED typed

Next == Key \/ \E p \in Readers : \E n \in 1 .. Len(keys) : Take(p, n)

Spec == Init /\ [][Next]_<<typed, keys, received>>
=============================================================================
