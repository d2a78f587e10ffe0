--------------------------- MODULE MCAgentDriver ---------------------------
(* AgentDriver on a handful of interchangeable messages. *)
EXTENDS AgentDriver, TLC

Symmetry == Permutations(Msgs)
=============================================================================
