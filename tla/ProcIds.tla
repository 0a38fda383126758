------------------------------- MODULE ProcIds -------------------------------
(***************************************************************************)
(* The process identifiers that the life cycle and its abstraction share.  *)
(***************************************************************************)
EXTENDS Naturals

CONSTANTS
    UserPids,   \* pids get_pid can hand out after init's
    initproc,   \* the pid of init
    NULL

\* do_wait(0) waits for any child; 0 is also the pid of idle.
AnyChild == 0

ASSUME ProcAssumption ==
    /\ initproc \notin UserPids
    /\ NULL \notin UserPids \cup {initproc, AnyChild}
    /\ AnyChild \notin UserPids \cup {initproc}
=============================================================================
