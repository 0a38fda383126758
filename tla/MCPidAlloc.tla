----------------------------- MODULE MCPidAlloc -----------------------------
(* get_pid with room for four processes besides idle and seven pids. *)
EXTENDS PidAlloc
=============================================================================
