--------------------------- MODULE MCDaemonInstance ---------------------------
(***************************************************************************)
(* Instances of DaemonInstance for TLC.                                    *)
(***************************************************************************)
EXTENDS DaemonInstance, TLC

Symmetry == Permutations(Daemons)
=============================================================================
