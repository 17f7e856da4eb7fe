-------------------------- MODULE MCAgentResidency --------------------------
(***************************************************************************)
(* Instances of AgentResidency for TLC.                                    *)
(***************************************************************************)
EXTENDS AgentResidency
=============================================================================
