------------------------------ MODULE MCSched ------------------------------
(* User processes, a kernel thread and one semaphore.  User processes are *)
(* interchangeable; the liveness configuration does not use the symmetry. *)
EXTENDS Sched, TLC

UserSymmetry == Permutations(Procs \ KThreads)
=============================================================================
