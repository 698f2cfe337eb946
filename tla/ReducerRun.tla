----------------------------- MODULE ReducerRun -----------------------------
(* One phase run fed by an adapter that delivers observations in any order, *)
(* repeats old ones and mislabels others.  "run" is the reducer's           *)
(* Transition; the other variables remember, independently of it, what the  *)
(* run was ever told and which effects it ever asked for.                   *)
EXTENDS ExecReducer

CONSTANT Heads, OpeningHead

ASSUME HeadsAssumption == OpeningHead \in Heads

VARIABLES
  run,       \* Transition
  heard,     \* the accepted observations
  latest,    \* the last accepted discharge of each promise
  lastDeck,  \* the last accepted source deck
  asked      \* how often each effect was requested

vars == <<run, heard, latest, lastDeck, asked>>

Init ==
  /\ run = planned(OpeningHead)
  /\ heard = {}
  /\ latest = [p \in Promises |-> "none"]
  /\ lastDeck = NoDeck
  /\ asked = [k \in Effects |-> 0]

(* reduce on an accepted event; a refused one changes nothing.              *)
Deliver(e) ==
  /\ Accepts(run, e)
  /\ run' = reduce(run, e)
  /\ heard' = heard \cup {[kind |-> e.kind, arg |-> e.arg]}
  /\ latest' = IF e.kind = "promise-discharged"
               THEN [latest EXCEPT ![e.arg[1]] = e.arg[2]] ELSE latest
  /\ lastDeck' = IF e.kind = "source-deck-current" THEN e.arg ELSE lastDeck
  /\ asked' = [k \in Effects |-> IF k \in run'.effects THEN asked[k] + 1 ELSE asked[k]]

Next == \E obs \in Observations, h \in Heads, addressed, mutation, cursor \in BOOLEAN :
          Deliver(Event(obs, h, addressed, mutation, cursor))

Spec == Init /\ [][Next]_vars

Transitions ==
  [state : States, head : Heads, images : SUBSET PostImages,
   discharges : [Promises -> Statuses \cup {"none"}], unresolved : SUBSET BOOLEAN,
   deck : Decks \cup {NoDeck}, parent : BOOLEAN, effects : SUBSET Effects,
   receipt : [head : Heads, images : SUBSET PostImages,
              discharges : [Promises -> Statuses \cup {"none"}]] \cup {NoReceipt}]

(* Every variable has its type: reduce (reduce.rs:6) only ever commits      *)
(* images of the plan and keeps one status per promise.                     *)
TypeOK ==
  /\ run \in Transitions
  /\ heard \subseteq Observations
  /\ latest \in [Promises -> Statuses \cup {"none"}]
  /\ lastDeck \in Decks \cup {NoDeck}
  /\ asked \in [Effects -> Nat]

(* A phase succeeds (reduce.rs:167, succeed) only when the run was really   *)
(* told everything success rests on, and nothing it was told since takes it *)
(* back: every postimage of the plan was observed, the last word on each    *)
(* required promise is a proof with evidence, no mandatory proof was ever   *)
(* left unresolved, the last deck seen is the policy's, and the parent      *)
(* accepted - however the events were reordered and repeated on the way.    *)
SuccessIsJustified ==
  run.state = "succeeded" =>
    /\ \A i \in PostImages : [kind |-> "image-observed", arg |-> i] \in heard
    /\ \A p \in Required : latest[p] = "proven"
    /\ [kind |-> "proof-unresolved", arg |-> TRUE] \notin heard
    /\ lastDeck = PolicyDeck
    /\ \E o \in heard : o.kind = "parent-accepted"

(* A terminal state is final, and only a succeeded run holds a receipt,     *)
(* minted for exactly the evidence it ended with: no late, repeated or      *)
(* contradicting observation changes the outcome (reduce.rs:20-83).         *)
TerminalIsFinal ==
  /\ [][run.state \in Terminal => UNCHANGED run]_vars
  /\ [](run.receipt # NoReceipt =>
          /\ run.state = "succeeded"
          /\ run.receipt = [head |-> run.head, images |-> run.images,
                            discharges |-> run.discharges])

(* Each effect is requested at most once, and the proof only after the      *)
(* mutation (reduce.rs:21-50), so a repeated observation cannot make the    *)
(* runner apply the plan or launch its proof twice.                         *)
EffectsRequestedOnce ==
  /\ asked["run-proof"] <= asked["apply-mutation"]
  /\ asked["apply-mutation"] <= 1
=============================================================================
