------------------------------ MODULE MCServer ------------------------------
(* A server busy with two clients, one busy with its trigger, and one with a *)
(* little of both.                                                           *)
EXTENDS Server

Load(mode_, connects, requests, triggers, writes, polls) ==
  [mode |-> mode_, connects |-> connects, requests |-> requests, triggers |-> triggers,
   writes |-> writes, polls |-> polls]

MCLoads ==
  {Load(m, 2, 1, 0, 0, 0) : m \in ThreadModes} \cup {Load(m, 1, 2, 0, 0, 0) : m \in ThreadModes}
    \cup {Load("Coop", 1, 0, 1, 2, 0), Load("Spawn", 0, 0, 1, 4, 1)}
=============================================================================
