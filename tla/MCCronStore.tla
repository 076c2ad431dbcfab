------------------------------ MODULE MCCronStore ------------------------------
(***************************************************************************)
(* Instances of CronStore for TLC: schedulers and commands are model       *)
(* values.                                                                 *)
(***************************************************************************)
EXTENDS CronStore, TLC

Symmetry == Permutations(Schedulers) \cup Permutations(Commands)
=============================================================================
