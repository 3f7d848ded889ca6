----------------------------- MODULE MCAgentRun -----------------------------
(* Small instances of AgentRun for TLC. *)
EXTENDS AgentRun, TLC

CONSTANTS r1, r2, w1, w2

Symmetry == Permutations(Runs) \cup Permutations(Workers)
=============================================================================
