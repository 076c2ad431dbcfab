----------------------------- MODULE MCAgentLoop -----------------------------
(***************************************************************************)
(* Instances of AgentLoop for TLC.                                         *)
(***************************************************************************)
EXTENDS AgentLoop

\* Two reads that run together and a write after them; a read that has to wait
\* for a write.
MCBatches == {<<"read", "read", "write">>, <<"write", "read">>}
=============================================================================
