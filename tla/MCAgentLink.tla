---------------------------- MODULE MCAgentLink -----------------------------
(* A few requests to one agent for TLC. *)
EXTENDS AgentLink
=============================================================================
