------------------------------ MODULE MCFrames ------------------------------
(* A memory of few frames; the callers ask for up to half of it. *)
EXTENDS Frames
=============================================================================
