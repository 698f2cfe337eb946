-------------------------- MODULE MCMutationEngine --------------------------
(* A replaced file, one the plan leaves as it is, and a created one.        *)
EXTENDS MutationEngine

CONSTANTS a0, a1, absent, stray

MCPre == <<a0, a0, absent>>
MCPost == <<a1, a0, a1>>
=============================================================================
