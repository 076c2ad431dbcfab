----------------------------- MODULE MCSessionLog -----------------------------
(***************************************************************************)
(* Instances of SessionLog for TLC.                                        *)
(***************************************************************************)
EXTENDS SessionLog, TLC

Symmetry == Permutations(Callers) \cup Permutations(Titles)
=============================================================================
