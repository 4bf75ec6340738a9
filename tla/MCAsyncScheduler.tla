-------------------------- MODULE MCAsyncScheduler --------------------------
(***************************************************************************)
(* The TLC instance of AsyncScheduler, given by AsyncScheduler.cfg.  Three *)
(* fibers can await one another in a chain, in a fan-in and in a cycle     *)
(* that leaves the root out; two task handles and one submission more than *)
(* handles let an address come back after task-free.                       *)
(***************************************************************************)
EXTENDS AsyncScheduler
=============================================================================
