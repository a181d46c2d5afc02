---------------------------- MODULE MC_AgentImage ----------------------------
(* Two runs at a time on one host, any number after each other.            *)
EXTENDS AgentImage, TLC
CONSTANTS r1, r2
TwoRuns   == {r1, r2}
Alike     == Permutations(TwoRuns)
=============================================================================
