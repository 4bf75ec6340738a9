---------------------------- MODULE MCTaskRuntime ----------------------------
(***************************************************************************)
(* TLC instances of TaskRuntime.  Two workers race each other, the loop    *)
(* thread and Stop with one task each, so that one task can be in Drain's  *)
(* batch while the other is on its way; one of them may never end; two     *)
(* starts show what a restart inherits.                                    *)
(***************************************************************************)
EXTENDS TaskRuntime
=============================================================================
