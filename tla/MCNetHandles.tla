---------------------------- MODULE MCNetHandles ----------------------------
(***************************************************************************)
(* The TLC instances of NetHandles.  One listener, two connections and     *)
(* three tasks: two readers queued on one stream beside its close, an      *)
(* acceptor parked while the signal arrives, an accept still in the inbox  *)
(* when the listener is gone, two connections in the backlog at once.      *)
(***************************************************************************)
EXTENDS NetHandles
=============================================================================
