------------------------------ MODULE MCFanout ------------------------------
(* Two calls that share one engine and one pool.                            *)
EXTENDS Fanout
LimitTwo == [s \in Seats |-> 2]
=============================================================================
