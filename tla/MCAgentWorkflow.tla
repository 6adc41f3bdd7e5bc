-------------------------- MODULE MCAgentWorkflow --------------------------
(* A small instance of AgentWorkflow for TLC. *)
EXTENDS AgentWorkflow

CONSTANTS c1, c2

TwoCalls == {c1, c2}
=============================================================================
