---------------------------- MODULE MCLifecycle -----------------------------
(***************************************************************************)
(* Lifecycle with two application tasks, each of which may initialise,     *)
(* start and stop the agent at any time, whatever the other one is doing.  *)
(***************************************************************************)
EXTENDS Lifecycle, TLC

CONSTANTS app, power

MCCallers == {app, power}

(* Two tasks at once, or an initialisation beside a task, are followed      *)
(* while no more than this many cycles have been run.                       *)
MaxDoubledCycles == 1

DoubledBound == OneAtATime \/ cycles <= MaxDoubledCycles

Symmetry == Permutations(MCCallers)
=============================================================================
