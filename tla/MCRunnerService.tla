-------------------------- MODULE MCRunnerService --------------------------
EXTENDS RunnerService

Obs(k, a) == [kind |-> k, arg |-> a]

Reports ==
  {Obs("start", NoArg), Obs("mutation-committed", NoArg), Obs("source-deck-current", PolicyDeck),
   Obs("parent-accepted", NoArg), Obs("succeed", NoArg), Obs("fail", NoArg)}
=============================================================================
