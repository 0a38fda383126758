------------------------------ MODULE MCStdin -------------------------------
(* Readers at a buffer of two characters; they differ in nothing. *)
EXTENDS Stdin, TLC

ReaderSymmetry == Permutations(Readers)
=============================================================================
