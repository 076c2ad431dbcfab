------------------------------- MODULE MCSwarm -------------------------------
(***************************************************************************)
(* Instances of Swarm for TLC: the names of the callers and teams are      *)
(* model values, and the two teams of an instance are interchangeable.     *)
(***************************************************************************)
EXTENDS Swarm, TLC

TeamSymmetry == Permutations(Teams)
=============================================================================
