-------------------------- MODULE MCSnapshotEngine --------------------------
(***************************************************************************)
(* SnapshotEngine with two tasks and a status buffer for both, and with    *)
(* counters small enough to wrap.                                          *)
(***************************************************************************)
EXTENDS SnapshotEngine, TLC

Symmetry == Permutations(TaskIds)
=============================================================================
