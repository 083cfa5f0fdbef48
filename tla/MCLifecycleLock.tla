--------------------------- MODULE MCLifecycleLock ---------------------------
(***************************************************************************)
(* Three orchestrator processes on one branch: one to leave a lock behind  *)
(* and two to compete for it.                                              *)
(***************************************************************************)
EXTENDS LifecycleLock

ThreeProcs == 1..3
TwoProcs == 1..2
=============================================================================
