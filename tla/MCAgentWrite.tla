----------------------------- MODULE MCAgentWrite -----------------------------
(* Instances of AgentWrite for TLC. *)
EXTENDS AgentWrite

CONSTANTS small, large     \* a content of one chunk, and one of two

SmallAndLarge == [c \in Content |-> IF c = large THEN 2 ELSE 1]
=============================================================================
