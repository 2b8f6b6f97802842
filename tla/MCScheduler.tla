------------------------------ MODULE MCScheduler ------------------------------
(* Instance of Scheduler.                                                   *)
EXTENDS Scheduler
=============================================================================
