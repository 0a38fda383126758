------------------------------- MODULE MCFiles -------------------------------
\* Files with two processes, two descriptors, two directories, a file and stdin.
EXTENDS Files, TLC

CONSTANTS p1, p2, root, dir, file, stdin

MCProc == {p1, p2}
MCDirs == {root, dir}
MCRegular == {file}
MCDevices == {stdin}
Symmetric == Permutations(MCProc)
=============================================================================
