-------------------------- MODULE ReducerRunProofs --------------------------
(* Machine-checked proofs about ReducerRun, for every mutation plan, every  *)
(* policy and every set of journal heads.                                   *)
EXTENDS ReducerRun, TLAPS

Kinds == {"start", "image-observed", "mutation-committed", "promise-discharged",
          "proof-unresolved", "source-deck-current", "parent-accepted", "succeed",
          "fail", "cancel"}

(* What the run holds is what it was told.                                  *)
HoldsWhatItHeard ==
  /\ \A i \in run.images : [kind |-> "image-observed", arg |-> i] \in heard
  /\ latest = run.discharges
  /\ lastDeck = run.deck
  /\ [kind |-> "proof-unresolved", arg |-> TRUE] \in heard => TRUE \in run.unresolved
  /\ run.parent => \E o \in heard : o.kind = "parent-accepted"

ReceiptFits ==
  run.receipt # NoReceipt =>
    /\ run.state = "succeeded"
    /\ run.receipt = [head |-> run.head, images |-> run.images,
                      discharges |-> run.discharges]

EffectsFitTheState ==
  /\ run.state = "planned" => asked["apply-mutation"] = 0
  /\ run.state \in {"planned", "running"} => asked["run-proof"] = 0
  /\ run.state = "running" => asked["apply-mutation"] = 1
  /\ EffectsRequestedOnce

IInv ==
  /\ TypeOK
  /\ HoldsWhatItHeard
  /\ run.state = "succeeded" => MaySucceed(run)
  /\ ReceiptFits
  /\ EffectsFitTheState

(* What an observation of each kind carries.                                *)
LEMMA ObservationArgs ==
  ASSUME NEW o \in Observations
  PROVE  /\ o.kind \in Kinds
         /\ o = [kind |-> o.kind, arg |-> o.arg]
         /\ o.kind = "image-observed" => o.arg \in Images \cup {NoArg}
         /\ o.kind = "promise-discharged" /\ o.arg # NoArg =>
              o.arg[1] \in Promises /\ o.arg[2] \in Statuses
         /\ o.kind = "proof-unresolved" /\ o.arg # NoArg => o.arg \in BOOLEAN
         /\ o.kind = "source-deck-current" => o.arg \in Decks \cup {NoDeck}
<1>1. CASE \E k \in {"start", "image-observed", "mutation-committed", "promise-discharged",
                     "proof-unresolved", "parent-accepted", "succeed", "fail", "cancel"} :
             o = [kind |-> k, arg |-> NoArg]
  BY <1>1 DEF Kinds
<1>2. CASE \E i \in Images : o = [kind |-> "image-observed", arg |-> i]
  BY <1>2 DEF Kinds
<1>3. CASE \E q \in Promises, s \in Statuses :
             o = [kind |-> "promise-discharged", arg |-> <<q, s>>]
  BY <1>3 DEF Kinds
<1>4. CASE \E m \in BOOLEAN : o = [kind |-> "proof-unresolved", arg |-> m]
  BY <1>4 DEF Kinds
<1>5. CASE \E d \in Decks \cup {NoDeck} : o = [kind |-> "source-deck-current", arg |-> d]
  BY <1>5 DEF Kinds
<1> QED BY <1>1, <1>2, <1>3, <1>4, <1>5 DEF Observations

LEMMA InitHolds == Init => IInv
BY HeadsAssumption DEF Init, IInv, TypeOK, HoldsWhatItHeard, ReceiptFits,
   EffectsFitTheState, EffectsRequestedOnce, planned, Transitions, States, Effects, Statuses

(* An accepted event preserves the invariant, kind by kind.                 *)
LEMMA DeliverPreserves ==
  ASSUME IInv,
         NEW obs \in Observations, NEW h \in Heads,
         NEW addressed \in BOOLEAN, NEW mutation \in BOOLEAN, NEW cursor \in BOOLEAN,
         Deliver(Event(obs, h, addressed, mutation, cursor))
  PROVE  IInv'
<1> DEFINE e == Event(obs, h, addressed, mutation, cursor)
<1>1. /\ e.kind = obs.kind /\ e.arg = obs.arg /\ e.head = h
      /\ [kind |-> e.kind, arg |-> e.arg] = obs
  BY ObservationArgs DEF Event
<1>2. /\ run \in Transitions /\ Admits(run, e) /\ run' = reduce(run, e)
      /\ heard' = heard \cup {obs}
      /\ latest' = IF e.kind = "promise-discharged"
                   THEN [latest EXCEPT ![e.arg[1]] = e.arg[2]] ELSE latest
      /\ lastDeck' = IF e.kind = "source-deck-current" THEN e.arg ELSE lastDeck
      /\ asked' = [k \in Effects |-> IF k \in run'.effects THEN asked[k] + 1 ELSE asked[k]]
  BY <1>1 DEF Deliver, IInv, TypeOK, Accepts
<1> HIDE DEF e
<1>a. /\ heard' \subseteq Observations
      /\ latest' \in [Promises -> Statuses \cup {"none"}]
      /\ lastDeck' \in Decks \cup {NoDeck}
      /\ asked' \in [Effects -> Nat]
  <2>1. heard' \subseteq Observations /\ lastDeck' \in Decks \cup {NoDeck}
    BY <1>1, <1>2, ObservationArgs DEF IInv, TypeOK
  <2>2. latest' \in [Promises -> Statuses \cup {"none"}]
    BY <1>1, <1>2, ObservationArgs DEF IInv, TypeOK, Admits, NeedsArg
  <2>3. asked' \in [Effects -> Nat]
    BY <1>2 DEF IInv, TypeOK
  <2> QED BY <2>1, <2>2, <2>3
<1> DEFINE s == Stays(run, e)
<1>s. /\ s \in Transitions /\ s.state = run.state /\ s.head = h /\ s.images = run.images
      /\ s.discharges = run.discharges /\ s.unresolved = run.unresolved /\ s.deck = run.deck
      /\ s.parent = run.parent /\ s.effects = {} /\ s.receipt = run.receipt
  BY <1>1, <1>2 DEF Stays, Transitions
<1> HIDE DEF s
\* What the event does not touch keeps what it was told ...
<1>h. ASSUME run'.images = run.images, run'.discharges = run.discharges,
             run'.unresolved = run.unresolved, run'.deck = run.deck, run'.parent = run.parent,
             e.kind \notin {"promise-discharged", "proof-unresolved", "source-deck-current"}
      PROVE  HoldsWhatItHeard'
  BY <1>1, <1>2, <1>h DEF IInv, HoldsWhatItHeard
\* ... a run that has not succeeded has no receipt ...
<1>r. ASSUME run.state # "succeeded", run'.state # "succeeded", run'.receipt = run.receipt
      PROVE  (run.state = "succeeded" => MaySucceed(run))' /\ ReceiptFits'
  BY <1>r DEF IInv, ReceiptFits
\* ... and an event that asks for no effect keeps the count of them.
<1>e. ASSUME run'.effects = {}, run'.state = run.state \/ run'.state \in Terminal
      PROVE  EffectsFitTheState'
  <2>1. asked' = asked
    BY <1>2, <1>e DEF IInv, TypeOK
  <2> QED BY <1>e, <2>1 DEF IInv, EffectsFitTheState, EffectsRequestedOnce, Terminal
<1>3. CASE e.kind = "start"
  <2>0. run' = [s EXCEPT !.state = "running", !.effects = {"apply-mutation"}]
    BY <1>2, <1>3 DEF s, reduce
  <2>a. run.state \in {"planned"}
    BY <1>2, <1>3 DEF Admits, AdmittedIn, States, Terminal
  <2>1. run' \in Transitions
    BY <1>s, <2>0 DEF Transitions, States, Effects
  <2>2. /\ run'.state = "running" /\ run'.images = run.images
        /\ run'.discharges = run.discharges /\ run'.unresolved = run.unresolved
        /\ run'.deck = run.deck /\ run'.parent = run.parent
        /\ run'.effects = {"apply-mutation"} /\ run'.receipt = run.receipt
    BY <1>s, <2>0 DEF Transitions
  <2>3. HoldsWhatItHeard'
    BY <1>3, <1>h, <2>2
  <2>4. (run.state = "succeeded" => MaySucceed(run))' /\ ReceiptFits'
    BY <1>r, <2>a, <2>2
  <2>5. EffectsFitTheState'
    <3>1. \A k \in Effects : asked'[k] = IF k = "apply-mutation" THEN asked[k] + 1 ELSE asked[k]
      BY <1>2, <2>2
    <3> QED BY <1>2, <2>a, <2>2, <3>1 DEF IInv, EffectsFitTheState, EffectsRequestedOnce, TypeOK, Effects
  <2> QED BY <1>a, <2>1, <2>3, <2>4, <2>5 DEF IInv, TypeOK
<1>4. CASE e.kind = "image-observed"
  <2>0. e.arg \in Images /\ classify(e.arg) # "foreign" /\ run' = observe_image(run, e)
    BY <1>1, <1>2, <1>4, ObservationArgs DEF Admits, NeedsArg, reduce
  <2>a. run.state \in {"running", "reconciling"}
    BY <1>2, <1>4 DEF Admits, AdmittedIn
  <2>b. \/ run' = s
        \/ e.arg \in PostImages /\ run' = [s EXCEPT !.images = @ \cup {e.arg}]
    BY <2>0 DEF observe_image, classify, s
  <2>1. run' \in Transitions
    BY <1>s, <2>b DEF Transitions
  <2>2. /\ run'.state = run.state /\ run'.images \subseteq run.images \cup {e.arg}
        /\ run'.discharges = run.discharges /\ run'.unresolved = run.unresolved
        /\ run'.deck = run.deck /\ run'.parent = run.parent
        /\ run'.effects = {} /\ run'.receipt = run.receipt
    BY <1>s, <2>b DEF Transitions
  <2>3. HoldsWhatItHeard'
    BY <1>1, <1>2, <1>4, <2>2 DEF IInv, HoldsWhatItHeard
  <2>4. (run.state = "succeeded" => MaySucceed(run))' /\ ReceiptFits'
    BY <1>r, <2>a, <2>2
  <2>5. EffectsFitTheState'
    BY <1>e, <2>2
  <2> QED BY <1>a, <2>1, <2>3, <2>4, <2>5 DEF IInv, TypeOK
<1>5. CASE e.kind = "mutation-committed"
  <2>0. run' = [s EXCEPT !.state = "reconciling", !.effects = {"run-proof"}]
    BY <1>2, <1>5 DEF s, reduce
  <2>a. run.state \in {"running"}
    BY <1>2, <1>5 DEF Admits, AdmittedIn, States, Terminal
  <2>1. run' \in Transitions
    BY <1>s, <2>0 DEF Transitions, States, Effects
  <2>2. /\ run'.state = "reconciling" /\ run'.images = run.images
        /\ run'.discharges = run.discharges /\ run'.unresolved = run.unresolved
        /\ run'.deck = run.deck /\ run'.parent = run.parent
        /\ run'.effects = {"run-proof"} /\ run'.receipt = run.receipt
    BY <1>s, <2>0 DEF Transitions
  <2>3. HoldsWhatItHeard'
    BY <1>5, <1>h, <2>2
  <2>4. (run.state = "succeeded" => MaySucceed(run))' /\ ReceiptFits'
    BY <1>r, <2>a, <2>2
  <2>5. EffectsFitTheState'
    <3>1. \A k \in Effects : asked'[k] = IF k = "run-proof" THEN asked[k] + 1 ELSE asked[k]
      BY <1>2, <2>2
    <3> QED BY <1>2, <2>a, <2>2, <3>1 DEF IInv, EffectsFitTheState, EffectsRequestedOnce, TypeOK, Effects
  <2> QED BY <1>a, <2>1, <2>3, <2>4, <2>5 DEF IInv, TypeOK
<1>6. CASE e.kind = "promise-discharged"
  <2>0. run' = [s EXCEPT !.discharges[e.arg[1]] = e.arg[2]]
    BY <1>2, <1>6 DEF s, reduce, Discharged
  <2>a. run.state \in {"reconciling"}
    BY <1>2, <1>6 DEF Admits, AdmittedIn, States, Terminal
  <2>n. e.arg[1] \in Promises /\ e.arg[2] \in Statuses
    BY <1>1, <1>2, <1>6, ObservationArgs DEF Admits, NeedsArg
  <2>1. run' \in Transitions
    BY <1>s, <2>0, <2>n DEF Transitions, States, Effects
  <2>2. /\ run'.state = run.state /\ run'.images = run.images
        /\ run'.discharges = [run.discharges EXCEPT ![e.arg[1]] = e.arg[2]] /\ run'.unresolved = run.unresolved
        /\ run'.deck = run.deck /\ run'.parent = run.parent
        /\ run'.effects = {} /\ run'.receipt = run.receipt
    BY <1>s, <2>0, <2>n DEF Transitions
  <2>3. HoldsWhatItHeard'
    BY <1>1, <1>2, <1>6, <2>2 DEF IInv, HoldsWhatItHeard
  <2>4. (run.state = "succeeded" => MaySucceed(run))' /\ ReceiptFits'
    BY <1>r, <2>a, <2>2
  <2>5. EffectsFitTheState'
    BY <1>e, <2>a, <2>2 DEF Terminal
  <2> QED BY <1>a, <2>1, <2>3, <2>4, <2>5 DEF IInv, TypeOK
<1>7. CASE e.kind = "proof-unresolved"
  <2>0. run' = [s EXCEPT !.unresolved = @ \cup {e.arg}]
    BY <1>2, <1>7 DEF s, reduce
  <2>a. run.state \in {"reconciling"}
    BY <1>2, <1>7 DEF Admits, AdmittedIn, States, Terminal
  <2>n. e.arg \in BOOLEAN
    BY <1>1, <1>2, <1>7, ObservationArgs DEF Admits, NeedsArg
  <2>1. run' \in Transitions
    BY <1>s, <2>0, <2>n DEF Transitions, States, Effects
  <2>2. /\ run'.state = run.state /\ run'.images = run.images
        /\ run'.discharges = run.discharges /\ run'.unresolved = run.unresolved \cup {e.arg}
        /\ run'.deck = run.deck /\ run'.parent = run.parent
        /\ run'.effects = {} /\ run'.receipt = run.receipt
    BY <1>s, <2>0, <2>n DEF Transitions
  <2>3. HoldsWhatItHeard'
    BY <1>1, <1>2, <1>7, <2>2 DEF IInv, HoldsWhatItHeard
  <2>4. (run.state = "succeeded" => MaySucceed(run))' /\ ReceiptFits'
    BY <1>r, <2>a, <2>2
  <2>5. EffectsFitTheState'
    BY <1>e, <2>a, <2>2 DEF Terminal
  <2> QED BY <1>a, <2>1, <2>3, <2>4, <2>5 DEF IInv, TypeOK
<1>8. CASE e.kind = "source-deck-current"
  <2>0. run' = [s EXCEPT !.deck = e.arg]
    BY <1>2, <1>8 DEF s, reduce
  <2>a. run.state \in {"reconciling"}
    BY <1>2, <1>8 DEF Admits, AdmittedIn, States, Terminal
  <2>n. e.arg \in Decks \cup {NoDeck}
    BY <1>1, <1>2, <1>8, ObservationArgs DEF Admits, NeedsArg
  <2>1. run' \in Transitions
    BY <1>s, <2>0, <2>n DEF Transitions, States, Effects
  <2>2. /\ run'.state = run.state /\ run'.images = run.images
        /\ run'.discharges = run.discharges /\ run'.unresolved = run.unresolved
        /\ run'.deck = e.arg /\ run'.parent = run.parent
        /\ run'.effects = {} /\ run'.receipt = run.receipt
    BY <1>s, <2>0, <2>n DEF Transitions
  <2>3. HoldsWhatItHeard'
    BY <1>1, <1>2, <1>8, <2>2 DEF IInv, HoldsWhatItHeard
  <2>4. (run.state = "succeeded" => MaySucceed(run))' /\ ReceiptFits'
    BY <1>r, <2>a, <2>2
  <2>5. EffectsFitTheState'
    BY <1>e, <2>a, <2>2 DEF Terminal
  <2> QED BY <1>a, <2>1, <2>3, <2>4, <2>5 DEF IInv, TypeOK
<1>9. CASE e.kind = "parent-accepted"
  <2>0. run' = [s EXCEPT !.parent = TRUE]
    BY <1>2, <1>9 DEF s, reduce
  <2>a. run.state \in {"reconciling"}
    BY <1>2, <1>9 DEF Admits, AdmittedIn, States, Terminal
  <2>1. run' \in Transitions
    BY <1>s, <2>0 DEF Transitions, States, Effects
  <2>2. /\ run'.state = run.state /\ run'.images = run.images
        /\ run'.discharges = run.discharges /\ run'.unresolved = run.unresolved
        /\ run'.deck = run.deck /\ run'.parent = TRUE
        /\ run'.effects = {} /\ run'.receipt = run.receipt
    BY <1>s, <2>0 DEF Transitions
  <2>3. HoldsWhatItHeard'
    BY <1>1, <1>2, <1>9, <2>2 DEF IInv, HoldsWhatItHeard
  <2>4. (run.state = "succeeded" => MaySucceed(run))' /\ ReceiptFits'
    BY <1>r, <2>a, <2>2
  <2>5. EffectsFitTheState'
    BY <1>e, <2>a, <2>2 DEF Terminal
  <2> QED BY <1>a, <2>1, <2>3, <2>4, <2>5 DEF IInv, TypeOK
<1>10. CASE e.kind = "succeed"
  <2>0. run' = [s EXCEPT !.state = "succeeded",
                     !.receipt = [head |-> h, images |-> run.images,
                                  discharges |-> run.discharges]]
    BY <1>1, <1>2, <1>10 DEF s, reduce, succeed
  <2>a. run.state \in {"reconciling"}
    BY <1>2, <1>10 DEF Admits, AdmittedIn, States, Terminal
  <2>1. run' \in Transitions
    BY <1>s, <2>0 DEF Transitions, States, Effects
  <2>2. /\ run'.state = "succeeded" /\ run'.images = run.images
        /\ run'.discharges = run.discharges /\ run'.unresolved = run.unresolved
        /\ run'.deck = run.deck /\ run'.parent = run.parent
        /\ run'.effects = {} /\ run'.receipt = [head |-> h, images |-> run.images, discharges |-> run.discharges]
    BY <1>s, <2>0 DEF Transitions
  <2>3. HoldsWhatItHeard'
    BY <1>10, <1>h, <2>2
  <2>4. (run.state = "succeeded" => MaySucceed(run))' /\ ReceiptFits'
    <3>1. MaySucceed(run) /\ run'.head = h
      BY <1>2, <1>10, <1>s, <2>0 DEF Admits, Transitions
    <3> QED BY <2>2, <3>1 DEF MaySucceed, ReceiptFits
  <2>5. EffectsFitTheState'
    BY <1>e, <2>a, <2>2 DEF Terminal
  <2> QED BY <1>a, <2>1, <2>3, <2>4, <2>5 DEF IInv, TypeOK
<1>11. CASE e.kind = "fail"
  <2>0. run' = [s EXCEPT !.state = "failed"]
    BY <1>2, <1>11 DEF s, reduce
  <2>a. run.state \in {"running", "reconciling"}
    BY <1>2, <1>11 DEF Admits, AdmittedIn, States, Terminal
  <2>1. run' \in Transitions
    BY <1>s, <2>0 DEF Transitions, States, Effects
  <2>2. /\ run'.state = "failed" /\ run'.images = run.images
        /\ run'.discharges = run.discharges /\ run'.unresolved = run.unresolved
        /\ run'.deck = run.deck /\ run'.parent = run.parent
        /\ run'.effects = {} /\ run'.receipt = run.receipt
    BY <1>s, <2>0 DEF Transitions
  <2>3. HoldsWhatItHeard'
    BY <1>11, <1>h, <2>2
  <2>4. (run.state = "succeeded" => MaySucceed(run))' /\ ReceiptFits'
    BY <1>r, <2>a, <2>2
  <2>5. EffectsFitTheState'
    BY <1>e, <2>a, <2>2 DEF Terminal
  <2> QED BY <1>a, <2>1, <2>3, <2>4, <2>5 DEF IInv, TypeOK
<1>12. CASE e.kind = "cancel"
  <2>0. run' = [s EXCEPT !.state = "cancelled"]
    BY <1>2, <1>12 DEF s, reduce
  <2>a. run.state \in States \ Terminal
    BY <1>2, <1>12 DEF Admits, AdmittedIn, States, Terminal
  <2>1. run' \in Transitions
    BY <1>s, <2>0 DEF Transitions, States, Effects
  <2>2. /\ run'.state = "cancelled" /\ run'.images = run.images
        /\ run'.discharges = run.discharges /\ run'.unresolved = run.unresolved
        /\ run'.deck = run.deck /\ run'.parent = run.parent
        /\ run'.effects = {} /\ run'.receipt = run.receipt
    BY <1>s, <2>0 DEF Transitions
  <2>3. HoldsWhatItHeard'
    BY <1>12, <1>h, <2>2
  <2>4. (run.state = "succeeded" => MaySucceed(run))' /\ ReceiptFits'
    BY <1>r, <2>a, <2>2 DEF Terminal
  <2>5. EffectsFitTheState'
    BY <1>e, <2>a, <2>2 DEF Terminal
  <2> QED BY <1>a, <2>1, <2>3, <2>4, <2>5 DEF IInv, TypeOK
<1> QED BY <1>1, <1>3, <1>4, <1>5, <1>6, <1>7, <1>8, <1>9, <1>10, <1>11, <1>12,
           ObservationArgs DEF Kinds

LEMMA NextPreserves == IInv /\ [Next]_vars => IInv'
<1> SUFFICES ASSUME IInv, [Next]_vars PROVE IInv'
  OBVIOUS
<1>1. CASE Next
  BY <1>1, DeliverPreserves DEF Next
<1>2. CASE UNCHANGED vars
  BY <1>2 DEF vars, IInv, TypeOK, HoldsWhatItHeard, MaySucceed, ReceiptFits,
     EffectsFitTheState, EffectsRequestedOnce
<1> QED BY <1>1, <1>2

LEMMA AlwaysIInv == Spec => []IInv
BY InitHolds, NextPreserves, PTL DEF Spec

(* For every plan and policy, reduce keeps the run well typed.              *)
THEOREM RunTypeOK == Spec => []TypeOK
<1>1. IInv => TypeOK
  BY DEF IInv
<1> QED BY <1>1, AlwaysIInv, PTL

(* For every plan, policy and sequence of accepted events, the receipt of a *)
(* phase is minted only on evidence the run was really given and that       *)
(* nothing it heard later took back (reduce.rs:167, succeed).               *)
THEOREM RunSuccessIsJustified == Spec => []SuccessIsJustified
<1>1. IInv => SuccessIsJustified
  BY PolicyAssumption DEF IInv, TypeOK, HoldsWhatItHeard, MaySucceed, SuccessIsJustified
<1> QED BY <1>1, AlwaysIInv, PTL

(* No order or repetition of observations makes the reducer request an      *)
(* effect twice (reduce.rs:21-50).                                          *)
THEOREM RunEffectsRequestedOnce == Spec => []EffectsRequestedOnce
<1>1. IInv => EffectsRequestedOnce
  BY DEF IInv, EffectsFitTheState
<1> QED BY <1>1, AlwaysIInv, PTL

(* The outcome of a phase is final: once succeeded, failed or cancelled, no *)
(* observation changes the run, and only a succeeded run holds a receipt,   *)
(* the one for its own evidence (reduce.rs:20-83).                          *)
THEOREM RunTerminalIsFinal == Spec => TerminalIsFinal
<1>1. IInv /\ [Next]_vars => [run.state \in Terminal => UNCHANGED run]_vars
  <2> SUFFICES ASSUME IInv, Next, run.state \in Terminal PROVE UNCHANGED run
    BY DEF vars
  <2>1. PICK obs \in Observations, h \in Heads, a, m, c \in BOOLEAN :
          Deliver(Event(obs, h, a, m, c))
    BY DEF Next
  <2>2. Admits(run, Event(obs, h, a, m, c)) /\ Event(obs, h, a, m, c).kind \in Kinds
    BY <2>1, ObservationArgs DEF Deliver, Accepts, Event
  <2> QED BY <2>2 DEF Admits, AdmittedIn, Kinds, Terminal, States
<1>2. IInv => ReceiptFits
  BY DEF IInv
<1> QED BY <1>1, <1>2, AlwaysIInv, PTL DEF Spec, TerminalIsFinal, ReceiptFits
=============================================================================
