--------------------------------- MODULE Heap ---------------------------------
(***************************************************************************)
(* What kmalloc and kfree promise: a block of the size asked for that      *)
(* overlaps no other block in use, or nothing, until it is given back.     *)
(***************************************************************************)
EXTENDS Integers

CONSTANTS Sizes, Unit, MaxAddr     \* sizes in bytes, addresses 0 .. MaxAddr in units of Unit bytes

VARIABLE live                   \* the size of each block in use, by its address

Extent(p, n) == p .. p + (n + Unit - 1) \div Unit - 1

Init == live = [p \in {} |-> 0]

kmalloc(n) == \E p \in 0 .. MaxAddr :
    /\ live' = [q \in DOMAIN live \cup {p} |-> IF q = p THEN n ELSE live[q]]
    /\ \A q \in DOMAIN live : Extent(p, n) \cap Extent(q, live[q]) = {}

kfree(p) ==
    live' = [q \in DOMAIN live \ {p} |-> live[q]]

Next == (\E n \in Sizes : kmalloc(n)) \/ (\E p \in DOMAIN live : kfree(p))

Spec == Init /\ [][Next]_live
=============================================================================
