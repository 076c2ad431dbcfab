------------------------------- MODULE MCMailbox -------------------------------
(***************************************************************************)
(* Instances of Mailbox for TLC: calls are model values.                   *)
(***************************************************************************)
EXTENDS Mailbox, TLC

Symmetry == Permutations(Senders) \cup Permutations(Readers)
=============================================================================
