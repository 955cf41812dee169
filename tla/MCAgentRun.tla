----------------------------- MODULE MCAgentRun -----------------------------
(* AgentRun for TLC. *)
EXTENDS AgentRun
=============================================================================
