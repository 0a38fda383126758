--------------------------- MODULE MCPhilosophers ---------------------------
(* Small tables; the code has five philosophers that eat four times. *)
EXTENDS Philosophers
=============================================================================
