--------------------------- MODULE MCAgentProcess ---------------------------
(* Small instances of AgentProcess.                                        *)
EXTENDS AgentProcess, TLC

(* The sessions and the connections of the instances are interchangeable.  *)
Symmetry == Permutations(Sessions) \cup Permutations(Conns)
=============================================================================
