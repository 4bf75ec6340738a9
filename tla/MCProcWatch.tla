----------------------------- MODULE MCProcWatch -----------------------------
(***************************************************************************)
(* The TLC instances of ProcWatch.  Three tasks on one process and one     *)
(* watcher: two waiters and a close of the same handle.  Three events are  *)
(* enough for a backlog of two and one that goes to a waiter.              *)
(***************************************************************************)
EXTENDS ProcWatch
=============================================================================
