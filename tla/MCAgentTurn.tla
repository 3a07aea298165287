----------------------------- MODULE MCAgentTurn -----------------------------
(* AgentTurn on small instances. *)
EXTENDS AgentTurn

=============================================================================
