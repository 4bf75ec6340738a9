-------------------------- MODULE MCTaskCompletion --------------------------
(***************************************************************************)
(* The TLC instance of TaskCompletion, given by TaskCompletion.cfg.  Three *)
(* tasks are enough for a queue to be dropped with tasks in flight, for    *)
(* two tasks to be posted before one is reaped, and for a blocking await   *)
(* to run beside them.  One queue: queues do not interact, and the proofs  *)
(* cover any number of them.                                               *)
(***************************************************************************)
EXTENDS TaskCompletion
=============================================================================
