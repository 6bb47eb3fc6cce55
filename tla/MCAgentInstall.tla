--------------------------- MODULE MCAgentInstall ---------------------------
(* Model-checking instance of AgentInstall. *)
EXTENDS AgentInstall, TLC

CONSTANTS c1, c2
MCCandidates == {c1, c2}
MCSymmetry == Permutations(MCCandidates)
=============================================================================
