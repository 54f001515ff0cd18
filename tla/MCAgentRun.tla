------------------------------ MODULE MCAgentRun ------------------------------
(***************************************************************************)
(* A small instance of AgentRun: two runs of one session that speculate,   *)
(* retry, fail and are cut off.                                            *)
(***************************************************************************)
EXTENDS AgentRun

=============================================================================
