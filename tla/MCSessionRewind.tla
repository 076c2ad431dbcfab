---------------------------- MODULE MCSessionRewind ----------------------------
(***************************************************************************)
(* Instances of SessionRewind for TLC.                                     *)
(***************************************************************************)
EXTENDS SessionRewind, TLC

Symmetry == Permutations(Files) \cup Permutations(Contents) \cup Permutations(Turns)
=============================================================================
