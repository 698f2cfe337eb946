-------------------------------- MODULE Market --------------------------------
(***************************************************************************)
(* execute_market of sim-lib-agent's runner/market: one model request run   *)
(* under a MarketPolicy over a set of runners, and the MarketDecision it    *)
(* records.  Each realization of a runner is one step.                      *)
(*                                                                          *)
(* Scores, latencies, cards and bids are abstracted to what they decide:    *)
(* which runners are accepted and in which order they come.  A response is  *)
(* "good", "poor" (shape failure or low confidence), "error" (stop reason   *)
(* error), "retryable" (an error marked so); "err" is a failed call.        *)
(***************************************************************************)
EXTENDS Naturals, Sequences, FiniteSets, SequencesExt

CONSTANTS Runners, None

ASSUME RunnersAssumption == IsFiniteSet(Runners) /\ None \notin Runners

VARIABLES
    policy,         \* MarketPolicy: mode, fallback, verify_with, judge, quorum
    branching,      \* request_allows_branching(request)
    mode,           \* the mode that runs
    pc,
    candidates,     \* accepted runners, cheapest first
    turn,           \* candidates still to realize in this phase
    tried,          \* decision.runs with what came back
    answers,        \* responses kept: debate answers, parallel rows, the
                    \* expensive branch, the last escalated response
    hold,           \* the response or error in hand
    selected, fallback_used, verified_by, cancelled,   \* MarketDecision
    outcome         \* what execute_market returned

decision == <<selected, fallback_used, verified_by, cancelled>>
asked == <<policy, branching>>
vars == <<asked, mode, pc, candidates, turn, tried, answers, hold, decision, outcome>>

Modes == {"select", "race", "speculate", "debate", "escalate",
          "parallel-all", "parallel-first-good", "parallel-quorum"}
Parallel == {"parallel-all", "parallel-first-good", "parallel-quorum"}
Classes == {"good", "poor", "error", "retryable", "err"}
Response(r, k) == [runner |-> r, class |-> k]
Nothing == Response(None, "err")

Policies == [mode : Modes, fallback : Runners \cup {None},
             verify_with : Runners \cup {None}, judge : Runners \cup {None},
             quorum : 0..Cardinality(Runners)]

\* Mutant: a declared judge does not stand in for a missing verifier.
VerifyWithOnly == policy.verify_with

verify_symbol == IF policy.verify_with # None THEN policy.verify_with ELSE policy.judge
judge_symbol == IF policy.judge # None THEN policy.judge ELSE policy.verify_with

response_should_escalate(k) == k \in {"poor", "error", "retryable"}

Init ==
    /\ policy \in Policies /\ branching \in BOOLEAN
    /\ mode = policy.mode /\ pc = "start"
    /\ candidates = <<>> /\ turn = <<>> /\ tried = <<>> /\ answers = <<>>
    /\ hold = Nothing
    /\ selected = None /\ fallback_used = None /\ verified_by = None
    /\ cancelled = {} /\ outcome = Nothing

Done(response) == pc' = "done" /\ outcome' = response
Fails == Done(Response(None, "err"))
Goto(place) == pc' = place /\ UNCHANGED outcome
-----------------------------------------------------------------------------
\* Mutant: every mode branches, idempotent request or not.
StartBranching ==
    /\ pc = "start"
    /\ mode' = policy.mode
    /\ Goto("bid")
    /\ UNCHANGED <<asked, candidates, turn, tried, answers, hold, decision>>

\* A request that may not branch falls back to select, escalate excepted; a
\* debate needs a judge.
Start ==
    /\ pc = "start"
    /\ mode' = IF branching \/ policy.mode = "escalate" THEN policy.mode ELSE "select"
    /\ IF mode' = "debate" /\ judge_symbol = None THEN Fails ELSE Goto("bid")
    /\ UNCHANGED <<asked, candidates, turn, tried, answers, hold, decision>>

\* candidates() and branch_candidates(): ask every runner for its card and
\* bid; the accepted ones in the order this mode tries them.  A runner without
\* a card fails the whole call.
Bid ==
    /\ pc = "bid"
    /\ \/ Fails /\ UNCHANGED <<candidates, turn>>
       \/ \E accepted \in SUBSET Runners :
            \E order \in SetToSeqs(accepted) :
              LET branch == SelectSeq(order, LAMBDA r : r \notin {verify_symbol, judge_symbol})
                  debaters == SelectSeq(order, LAMBDA r : r # judge_symbol)
              IN /\ candidates' = IF mode \in Parallel \cup {"speculate"} THEN branch ELSE order
                 /\ CASE mode = "select" ->
                           /\ IF order = <<>> THEN Fails ELSE Goto("select")
                           /\ turn' = <<>>
                      [] mode = "speculate" ->
                           /\ IF branch = <<>> THEN Fails ELSE Goto("expensive")
                           /\ turn' = <<>>
                      [] mode = "debate" ->
                           /\ IF judge_symbol \in accepted THEN Goto("debate") ELSE Fails
                           /\ turn' = debaters
                      [] mode = "race" -> Goto("race") /\ turn' \in SetToSeqs(accepted)
                      [] mode = "escalate" -> Goto("escalate") /\ turn' = order
                      [] OTHER -> Goto("parallel") /\ turn' = branch
    /\ UNCHANGED <<asked, mode, tried, answers, hold, decision>>

\* realize_candidate: run r; only an answer that need not escalate is selected.
realize_candidate(r, k) ==
    /\ tried' = Append(tried, Response(r, k))
    /\ selected' = IF k # "err" /\ ~response_should_escalate(k) THEN r ELSE selected

\* execute_select, before its fallback.
Select ==
    /\ pc = "select"
    /\ \E k \in Classes :
        /\ realize_candidate(candidates[1], k)
        /\ hold' = Response(candidates[1], k)
        /\ Goto(IF k \in {"err", "retryable"} THEN "fallback" ELSE "verify")
    /\ UNCHANGED <<asked, mode, candidates, turn, answers, fallback_used,
                   verified_by, cancelled>>

\* realize_fallback has a runner: it is named, not skipped and accepted.
HasFallback ==
    /\ policy.fallback # None
    /\ mode = "select" => policy.fallback # candidates[1]
    /\ policy.fallback \in ToSet(candidates)

\* The fallback answers.  In select a retryable answer to a failed call is
\* handed to the fallback once more.
Fallback ==
    /\ pc = "fallback" /\ HasFallback
    /\ fallback_used' = policy.fallback
    /\ \E k \in Classes :
        /\ realize_candidate(policy.fallback, k)
        /\ hold' = Response(policy.fallback, k)
        /\ CASE k = "err" -> Fails
             [] k = "retryable" /\ mode = "select" /\ hold.class = "err" -> Goto("fallback")
             [] k # "err" /\ mode = "select" /\ ~(k = "retryable" /\ hold.class = "err")
                    -> Goto("verify")
             [] OTHER -> Done(hold')
    /\ UNCHANGED <<asked, mode, candidates, turn, answers, verified_by, cancelled>>

\* No fallback: select keeps a response it has, race fails, escalate returns
\* its last response.
NoFallback ==
    /\ pc = "fallback" /\ ~HasFallback
    /\ CASE mode = "select" /\ hold.class # "err" -> Goto("verify")
         [] mode = "escalate" /\ answers # <<>> -> Done(Last(answers))
         [] OTHER -> Fails
    /\ UNCHANGED <<asked, mode, candidates, turn, tried, answers, hold, decision>>

\* verify_selected: bids are asked again; the verifier is found and answers,
\* or the failure is only recorded.
VerifySelected ==
    /\ pc = "verify"
    /\ \/ Done(hold) /\ UNCHANGED verified_by
       \/ policy.verify_with # None /\ Done(hold) /\ verified_by' = policy.verify_with
       \/ policy.verify_with # None /\ Fails /\ UNCHANGED verified_by
    /\ UNCHANGED <<asked, mode, candidates, turn, tried, answers, hold,
                   selected, fallback_used, cancelled>>

\* execute_race: candidates by latency, the first good answer wins.
Race ==
    /\ pc = "race"
    /\ IF turn = <<>>
       THEN Goto("fallback") /\ UNCHANGED <<turn, tried, selected, cancelled>>
       ELSE \E k \in Classes :
            /\ realize_candidate(Head(turn), k)
            /\ turn' = Tail(turn)
            /\ IF k = "good"
               THEN /\ Done(Response(Head(turn), k))
                    /\ cancelled' = cancelled \cup ToSet(turn')
               ELSE Goto("race") /\ UNCHANGED cancelled
    /\ UNCHANGED <<asked, mode, candidates, answers, hold, fallback_used, verified_by>>

\* execute_speculate: the second candidate runs first, when there is one.
SpeculateExpensive ==
    /\ pc = "expensive" /\ Goto("cheap")
    /\ IF Len(candidates) < 2
       THEN UNCHANGED <<answers, tried, selected>>
       ELSE \E k \in Classes :
            /\ realize_candidate(candidates[2], k)
            /\ answers' = <<Response(candidates[2], k)>>
    /\ UNCHANGED <<asked, mode, candidates, turn, hold, fallback_used,
                   verified_by, cancelled>>

\* The expensive branch is all that is left; without one the call fails.
ReturnExpensive ==
    IF answers # <<>> /\ answers[1].class # "err" THEN Done(answers[1]) ELSE Fails

SpeculateCheap ==
    /\ pc = "cheap"
    /\ \E k \in Classes :
        /\ realize_candidate(candidates[1], k)
        /\ hold' = Response(candidates[1], k)
        /\ IF k = "good" THEN Goto("verify-cheap") ELSE ReturnExpensive
    /\ UNCHANGED <<asked, mode, candidates, turn, answers, fallback_used,
                   verified_by, cancelled>>

CheapVerified ==
    /\ Done(hold) /\ selected' = hold.runner
    /\ cancelled' = IF answers # <<>> THEN cancelled \cup {answers[1].runner} ELSE cancelled

CheapRejected == ReturnExpensive /\ UNCHANGED <<selected, cancelled>>

\* verify_candidate: accepted without a verifier; rejected when the verifier
\* is not accepted in a second round of bids; otherwise the verifier's word.
VerifyCheap ==
    /\ pc = "verify-cheap"
    /\ \/ verify_symbol = None /\ CheapVerified /\ UNCHANGED verified_by
       \/ verify_symbol # None /\ CheapRejected /\ UNCHANGED verified_by
       \/ verify_symbol # None /\ CheapVerified /\ verified_by' = verify_symbol
       \/ verify_symbol # None /\ CheapRejected /\ verified_by' = verify_symbol
       \/ verify_symbol # None /\ Fails /\ UNCHANGED <<verified_by, selected, cancelled>>
    /\ UNCHANGED <<asked, mode, candidates, turn, tried, answers, hold, fallback_used>>

\* execute_debate: every candidate but the judge answers; errors are dropped.
Debate ==
    /\ pc = "debate" /\ turn # <<>>
    /\ \E k \in Classes :
        /\ realize_candidate(Head(turn), k)
        /\ turn' = Tail(turn)
        /\ answers' = IF k \in {"good", "poor"}
                      THEN Append(answers, Response(Head(turn), k)) ELSE answers
    /\ UNCHANGED <<asked, mode, pc, candidates, hold, fallback_used,
                   verified_by, cancelled, outcome>>

\* Mutant: the judge rules on no answers at all.
JudgeUnconditionally ==
    /\ pc = "debate" /\ turn = <<>>
    /\ \E k \in Classes \ {"err"} :
            /\ Done(Response(judge_symbol, k)) /\ selected' = judge_symbol
    /\ UNCHANGED <<asked, mode, candidates, turn, tried, answers, hold,
                   fallback_used, verified_by, cancelled>>

\* The judge turns the answers into the response.
Judge ==
    /\ pc = "debate" /\ turn = <<>>
    /\ \/ Fails /\ UNCHANGED selected
       \/ /\ answers # <<>>
          /\ \E k \in Classes \ {"err"} :
                Done(Response(judge_symbol, k)) /\ selected' = judge_symbol
    /\ UNCHANGED <<asked, mode, candidates, turn, tried, answers, hold,
                   fallback_used, verified_by, cancelled>>

\* execute_escalate: candidates by cost until one need not escalate.
Escalate ==
    /\ pc = "escalate"
    /\ IF turn = <<>>
       THEN Goto("fallback") /\ UNCHANGED <<turn, tried, selected, answers, fallback_used>>
       ELSE /\ fallback_used' = IF policy.fallback = Head(turn)
                                THEN policy.fallback ELSE fallback_used
            /\ turn' = Tail(turn)
            /\ \E k \in Classes :
                /\ realize_candidate(Head(turn), k)
                /\ answers' = IF response_should_escalate(k)
                              THEN Append(answers, Response(Head(turn), k)) ELSE answers
                /\ IF k = "good" THEN Done(Response(Head(turn), k)) ELSE Goto("escalate")
    /\ UNCHANGED <<asked, mode, candidates, hold, verified_by, cancelled>>

\* execute_parallel: the serialized seats of a fan-out run in candidate order.
ParallelRow ==
    /\ pc = "parallel" /\ turn # <<>>
    /\ \E k \in Classes :
        /\ tried' = Append(tried, Response(Head(turn), k))
        /\ answers' = IF k # "err" THEN Append(answers, Response(Head(turn), k)) ELSE answers
    /\ turn' = Tail(turn)
    /\ UNCHANGED <<asked, mode, pc, candidates, hold, decision, outcome>>

required == CASE mode = "parallel-all" -> Len(candidates)
              [] mode = "parallel-quorum" -> policy.quorum
              [] OTHER -> 1


\* Enough rows answered: the first of them is the response.
ParallelEnd ==
    /\ pc = "parallel" /\ turn = <<>>
    /\ IF Len(answers) >= required /\ answers # <<>>
       THEN Done(answers[1]) /\ selected' = answers[1].runner
       ELSE Fails /\ UNCHANGED selected
    /\ UNCHANGED <<asked, mode, candidates, turn, tried, answers, hold,
                   fallback_used, verified_by, cancelled>>

Finished == pc = "done" /\ UNCHANGED vars

Next ==
    \/ Start \/ Bid \/ Select \/ Fallback \/ NoFallback \/ VerifySelected
    \/ Race \/ SpeculateExpensive \/ SpeculateCheap \/ VerifyCheap
    \/ Debate \/ Judge \/ Escalate \/ ParallelRow \/ ParallelEnd \/ Finished

Spec == Init /\ [][Next]_vars
-----------------------------------------------------------------------------
Responses == [runner : Runners \cup {None}, class : Classes]

Answered == pc = "done" /\ outcome.class # "err"

\* The response returned is one that a realized candidate gave (or the judge's
\* ruling on at least one kept answer): no path invents, mixes up or resurrects
\* a failed call.
AnswerWasGiven ==
    Answered =>
        \/ outcome \in ToSet(tried)
        \/ mode = "debate" /\ outcome.runner = judge_symbol /\ answers # <<>>


\* A speculated cheap answer is returned only when it is good and no verifier
\* is declared or the verifier ruled on it.
CheapAnswerIsVerified ==
    Answered /\ mode = "speculate" /\ outcome.runner = candidates[1] =>
        /\ outcome.class = "good"
        /\ {policy.verify_with, policy.judge} # {None} => verified_by # None

\* A request that may not branch reaches another runner only after the one
\* before it failed or asked to be retried, unless the policy escalates.
NoBranchWithoutPermission ==
    ~branching /\ policy.mode # "escalate" =>
        \A n \in 1..(Len(tried) - 1) : tried[n].class \in {"err", "retryable"}

=============================================================================
