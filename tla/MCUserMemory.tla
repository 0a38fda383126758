----------------------------- MODULE MCUserMemory -----------------------------
\* UserMemory with three processes, a read-only, a writable and a stack page each.
EXTENDS UserMemory, TLC

Symmetric == Permutations(Proc) \cup Permutations(Frame)
=============================================================================
