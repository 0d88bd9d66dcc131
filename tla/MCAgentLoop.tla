----------------------------- MODULE MCAgentLoop -----------------------------
(* Two turns that investigate with one agent.  Two steps of the first stay   *)
(* within the token budget and one step of the second does not.              *)
EXTENDS AgentLoop, TLC

CONSTANTS short, long

TwoTurns == {short, long}

CostOf == (short :> {1}) @@ (long :> {3})
=============================================================================
