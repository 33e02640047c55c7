---------------------------- MODULE MCAgentClient ----------------------------
(* A bounded instance of AgentClient for TLC: a git status and a service restart. *)
EXTENDS AgentClient, TLC

CONSTANTS g1, g2, a1, a2

StatusAndRestart == (a1 :> 1) @@ (a2 :> 2)
=============================================================================
