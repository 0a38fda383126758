----------------------------- MODULE MCProcess -----------------------------
(* Idle, init and a few user processes. *)
EXTENDS Process
=============================================================================
