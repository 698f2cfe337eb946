------------------------------ MODULE MCMarket ------------------------------
(* A market of three runners under every policy.                            *)
EXTENDS Market
\* Runners are told apart by the policy and the bids alone.
RunnerSymmetry == Permutations(Runners)
=============================================================================
