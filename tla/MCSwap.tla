------------------------------- MODULE MCSwap -------------------------------
(* More pages than frames. *)
EXTENDS Swap
=============================================================================
