-------------------------- MODULE MCSessionRegistry --------------------------
(***************************************************************************)
(* Instances of SessionRegistry for TLC.                                   *)
(***************************************************************************)
EXTENDS SessionRegistry, TLC

Symmetry == Permutations(Ids) \cup Permutations(Connections)
=============================================================================
