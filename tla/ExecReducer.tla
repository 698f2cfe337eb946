---------------------------- MODULE ExecReducer ----------------------------
(* The pure reducer of sim-roadmap-exec-core: one phase of a roadmap is     *)
(* driven by observations, and only the reducer turns an observation into   *)
(* state.  A Transition is the record t; an event is a record whose "arg"   *)
(* carries the one typed field its kind needs (an image, a discharge, a     *)
(* deck, whether an unresolved proof is mandatory).                         *)
EXTENDS Integers, FiniteSets

CONSTANTS
  PreImages, PostImages, \* the images of the sealed mutation plan
  StrayImages,           \* images that belong to neither side
  Promises, Required,    \* promises, and the ones the policy requires
  Decks, PolicyDeck,     \* source decks, and the deck the policy pins
  NoArg, NoDeck, NoReceipt \* the Option::None of the optional fields

ASSUME PolicyAssumption ==
  /\ Required \subseteq Promises
  /\ PolicyDeck \in Decks
  /\ NoDeck \notin Decks
  /\ StrayImages \cap (PreImages \cup PostImages) = {}

Images == PreImages \cup PostImages \cup StrayImages

(* "proven" is a proven status with evidence; "claimed" the same status     *)
(* without it, which proven() refuses; "none" is a promise never discharged.*)
Statuses == {"proven", "claimed", "refuted"}

States == {"planned", "running", "reconciling", "succeeded", "failed", "cancelled"}

Terminal == {"succeeded", "failed", "cancelled"}

Effects == {"apply-mutation", "run-proof"}

planned(h) ==
  [state |-> "planned", head |-> h, images |-> {},
   discharges |-> [p \in Promises |-> "none"], unresolved |-> {},
   deck |-> NoDeck, parent |-> FALSE, effects |-> {}, receipt |-> NoReceipt]

(* The observations the reducer knows.  A missing typed field (NoArg) is    *)
(* InvalidObservation.                                                      *)
Observations ==
  {[kind |-> k, arg |-> NoArg] :
     k \in {"start", "image-observed", "mutation-committed", "promise-discharged",
            "proof-unresolved", "parent-accepted", "succeed", "fail", "cancel"}}
    \cup {[kind |-> "image-observed", arg |-> i] : i \in Images}
    \cup {[kind |-> "promise-discharged", arg |-> <<p, s>>] : p \in Promises, s \in Statuses}
    \cup {[kind |-> "proof-unresolved", arg |-> m] : m \in BOOLEAN}
    \cup {[kind |-> "source-deck-current", arg |-> d] : d \in Decks \cup {NoDeck}}

(* An event: the observation, whether execution, phase and attempt are this *)
(* run's ("addressed"), its journal head, whether its mutation id (when it  *)
(* has one) is the plan's, and whether its proof cursor (when it has one)   *)
(* names the current head with a sequence above zero.                       *)
Event(obs, h, addressed, mutation, cursor) ==
  [kind |-> obs.kind, arg |-> obs.arg, head |-> h,
   addressed |-> addressed, mutation |-> mutation, cursor |-> cursor]

correlate(t, e) == e.addressed /\ e.head # t.head /\ e.mutation /\ e.cursor

Stays(t, e) == [t EXCEPT !.head = e.head, !.effects = {}]

classify(i) ==
  CASE i \in PreImages \ PostImages -> "preimage"
    [] i \in PostImages             -> "postimage"
    [] OTHER                        -> "foreign"

observe_image(t, e) ==
  IF classify(e.arg) = "postimage"
  THEN [Stays(t, e) EXCEPT !.images = @ \cup {e.arg}]
  ELSE Stays(t, e)

\* Mutant: a discharge is pushed without removing the promise's earlier one,
\* so a proven discharge survives a later refutation.
DischargedPushed(t, e) ==
  IF t.discharges[e.arg[1]] = "proven" THEN Stays(t, e)
  ELSE [Stays(t, e) EXCEPT !.discharges[e.arg[1]] = e.arg[2]]

Discharged(t, e) ==
  [Stays(t, e) EXCEPT !.discharges[e.arg[1]] = e.arg[2]]

\* Mutant: success no longer waits for the parent's acceptance.
MaySucceedOrphan(t) ==
  /\ t.images = PostImages
  /\ t.deck = PolicyDeck
  /\ \A p \in Required : t.discharges[p] = "proven"
  /\ TRUE \notin t.unresolved

MaySucceed(t) ==
  /\ t.images = PostImages
  /\ t.deck = PolicyDeck
  /\ \A p \in Required : t.discharges[p] = "proven"
  /\ t.parent
  /\ TRUE \notin t.unresolved

succeed(t, e) ==
  [Stays(t, e) EXCEPT
     !.state = "succeeded",
     !.receipt = [head |-> e.head, images |-> t.images, discharges |-> t.discharges]]

\* Mutant: mutation-committed is admitted again while reconciling.
AdmittedInTwice(kind) ==
  CASE kind = "start"                              -> {"planned"}
    [] kind \in {"image-observed", "fail", "mutation-committed"} ->
         {"running", "reconciling"}
    [] kind \in {"promise-discharged", "proof-unresolved", "source-deck-current",
                 "parent-accepted", "succeed"}     -> {"reconciling"}
    [] kind = "cancel"                             -> States \ Terminal

\* Mutant: a failure observed late is admitted after the phase succeeded.
AdmittedInLateFailure(kind) ==
  CASE kind = "start"                              -> {"planned"}
    [] kind = "mutation-committed"                 -> {"running"}
    [] kind = "image-observed"                     -> {"running", "reconciling"}
    [] kind \in {"promise-discharged", "proof-unresolved", "source-deck-current",
                 "parent-accepted", "succeed"}     -> {"reconciling"}
    [] kind = "cancel"                             -> States \ Terminal
    [] kind = "fail"                               -> States \ {"planned"}

(* The match of reduce: the states in which each kind is admitted ...       *)
AdmittedIn(kind) ==
  CASE kind = "start"                              -> {"planned"}
    [] kind = "mutation-committed"                 -> {"running"}
    [] kind \in {"image-observed", "fail"}         -> {"running", "reconciling"}
    [] kind \in {"promise-discharged", "proof-unresolved", "source-deck-current",
                 "parent-accepted", "succeed"}     -> {"reconciling"}
    [] kind = "cancel"                             -> States \ Terminal

NeedsArg == {"image-observed", "promise-discharged", "proof-unresolved"}

(* ... with the typed field its arm asks for, and the arm's own refusals ...*)
Admits(t, e) ==
  /\ t.state \in AdmittedIn(e.kind)
  /\ e.kind \in NeedsArg => e.arg # NoArg
  /\ e.kind = "image-observed" => classify(e.arg) # "foreign"
  /\ e.kind = "succeed" => MaySucceed(t)

(* ... and what it makes of them.                                           *)
reduce(t, e) ==
  CASE e.kind = "start"               -> [Stays(t, e) EXCEPT !.state = "running",
                                                             !.effects = {"apply-mutation"}]
    [] e.kind = "image-observed"      -> observe_image(t, e)
    [] e.kind = "mutation-committed"  -> [Stays(t, e) EXCEPT !.state = "reconciling",
                                                             !.effects = {"run-proof"}]
    [] e.kind = "promise-discharged"  -> Discharged(t, e)
    [] e.kind = "proof-unresolved"    -> [Stays(t, e) EXCEPT !.unresolved = @ \cup {e.arg}]
    [] e.kind = "source-deck-current" -> [Stays(t, e) EXCEPT !.deck = e.arg]
    [] e.kind = "parent-accepted"     -> [Stays(t, e) EXCEPT !.parent = TRUE]
    [] e.kind = "succeed"             -> succeed(t, e)
    [] e.kind = "fail"                -> [Stays(t, e) EXCEPT !.state = "failed"]
    [] e.kind = "cancel"              -> [Stays(t, e) EXCEPT !.state = "cancelled"]

Accepts(t, e) == correlate(t, e) /\ Admits(t, e)
=============================================================================
