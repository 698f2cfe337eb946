--------------------------- MODULE RunnerService ---------------------------
(* RoadmapRunnerService: one phase driven one effect at a time through the  *)
(* pure reducer, with the journal written before and after each effect.     *)
(* The host may crash between any two writes; another writer of the same    *)
(* journal (a mutation engine, a proof run) may append in between; the      *)
(* caller may ask for cancellation.  The adapter (EffectPort) and its       *)
(* durable receipts are external.                                           *)
EXTENDS ExecReducer, RunnerJournal, SequencesExt

CONSTANTS
  AdapterObservations, \* what the adapter may report
  MaxFaults,           \* bound on crashes, foreign records, failed effects
                       \* and events the reducer refuses
  MaxIntents, MaxCeiling

VARIABLES
  journal,    \* the durable records
  receipts,   \* the adapter's durable events, oldest first
  t,          \* the service's Transition
  pc,         \* where advance_one_effect is
  expected,   \* the head its next append expects
  event,      \* the event the adapter returned
  ceiling,    \* the effective budget ceiling of the current authority
  cancel,     \* cancellation was requested
  answer,     \* outcome of the last call
  faults

vars == <<journal, receipts, t, pc, expected, event, ceiling, cancel, answer,
          faults>>

NoEvent == [kind |-> "none"]

(* replay: reduce the receipts from the opening state; any refusal refuses  *)
(* the whole replay.                                                        *)
Replay(events) ==
  FoldLeft(LAMBDA acc, e : IF acc.ok /\ Accepts(acc.t, e)
                           THEN [ok |-> TRUE, t |-> reduce(acc.t, e)]
                           ELSE [acc EXCEPT !.ok = FALSE],
           [ok |-> TRUE, t |-> planned(1)], events)

Init ==
  /\ journal = <<>> /\ receipts = <<>>
  /\ t = planned(1)
  /\ pc = "closed" /\ expected = 0 /\ event = NoEvent
  /\ ceiling = 0 /\ cancel = FALSE /\ answer = "none"
  /\ faults = 0

Faulty == faults < MaxFaults /\ faults' = faults + 1

Return(a) == pc' = "idle" /\ event' = NoEvent /\ answer' = a

(* open: the first opening writes the genesis record, a later one finds it. *)
(* Either way the service starts from the planned transition.               *)
Open(c) ==
  /\ pc = "closed"
  /\ journal' = IF journal = <<>> THEN <<ExecutionOpened>> ELSE journal
  /\ t' = planned(1)
  /\ ceiling' = c
  /\ expected' = 0
  /\ Return("ok")
  /\ UNCHANGED <<receipts, cancel, faults>>

Requests == {n \in DOMAIN journal : journal[n].tag = "effect-requested"}

\* Mutant: the effect runs before its intent is journalled.
BeginUnintended ==
  /\ pc = "idle" /\ ~cancel
  /\ Len(receipts) < MaxIntents
  /\ pc' = "intended" /\ expected' = Len(journal)
  /\ UNCHANGED <<journal, receipts, t, event, ceiling, cancel, answer, faults>>

(* advance_one_effect up to the durable intent, once the compiled plan      *)
(* admits this leaf.                                                        *)
Begin ==
  /\ pc = "idle" /\ ~cancel
  /\ Cardinality(Requests) < MaxIntents
  /\ CanAppend(journal, Len(journal), EffectRequested(Len(journal)))
  /\ journal' = Append(journal, EffectRequested(Len(journal)))
  /\ expected' = Len(journal) + 1
  /\ pc' = "intended"
  /\ UNCHANGED <<receipts, t, event, ceiling, cancel, answer, faults>>

(* The adapter performs the effect and returns an event bound to a real     *)
(* journal head; an event the reducer refuses ends the call.                *)
Invoke(obs) ==
  LET e == Event(obs, Len(journal), TRUE, TRUE, TRUE) IN
  /\ pc = "intended"
  /\ receipts' = Append(receipts, e)
  /\ IF Accepts(t, e)
     THEN pc' = "invoked" /\ event' = e /\ UNCHANGED <<answer, faults>>
     ELSE Faulty /\ Return("error")
  /\ UNCHANGED <<journal, t, expected, ceiling, cancel>>

(* invoke returns an error: the intent stays without a receipt.             *)
AdapterFails ==
  /\ pc = "intended"
  /\ Faulty /\ Return("error")
  /\ UNCHANGED <<journal, receipts, t, expected, ceiling, cancel>>

AppendReceipt ==
  LET r == EffectReceipt(expected - 1, event.kind) IN
  /\ pc = "invoked"
  /\ IF CanAppend(journal, expected, r)
     THEN /\ journal' = Append(journal, r)
          /\ expected' = expected + 1
          /\ pc' = "receipted" /\ UNCHANGED <<event, answer>>
     ELSE Return("error") /\ UNCHANGED <<journal, expected>>
  /\ UNCHANGED <<receipts, t, ceiling, cancel, faults>>

(* The service keeps the new state only when the journal took the move.     *)
AppendTransition ==
  LET next == reduce(t, event)
      r == StateTransition(t.state, next.state) IN
  /\ pc = "receipted"
  /\ IF CanAppend(journal, expected, r)
     THEN journal' = Append(journal, r) /\ t' = next /\ Return("ok")
     ELSE UNCHANGED <<journal, t>> /\ Return("error")
  /\ UNCHANGED <<receipts, expected, ceiling, cancel, faults>>

(* advance_one_effect on a cancelled execution.                             *)
Cancel ==
  LET e == Event([kind |-> "cancel", arg |-> NoArg], Len(journal), TRUE, TRUE, TRUE)
      r == StateTransition(t.state, "cancelled") IN
  /\ pc = "idle" /\ cancel
  /\ IF Accepts(t, e) /\ CanAppend(journal, Len(journal), r)
     THEN journal' = Append(journal, r) /\ t' = reduce(t, e) /\ Return("ok")
     ELSE UNCHANGED <<journal, t>> /\ Return("error")
  /\ UNCHANGED <<receipts, expected, ceiling, cancel, faults>>

(* resume under a fresh grant for the same identity and no wider a ceiling: *)
(* the transition is rebuilt from the adapter's receipts.                   *)
Resume(c) ==
  /\ pc = "idle"
  /\ c <= ceiling
  /\ Replay(receipts).ok
  /\ t' = Replay(receipts).t
  /\ ceiling' = c
  /\ Return("ok")
  /\ UNCHANGED <<journal, receipts, expected, cancel, faults>>

RequestCancel ==
  /\ ~cancel /\ cancel' = TRUE
  /\ UNCHANGED <<journal, receipts, t, pc, expected, event, ceiling, answer, faults>>

(* The process dies; the journal and the adapter's receipts survive.        *)
Crash ==
  /\ pc # "closed" /\ Faulty
  /\ pc' = "closed" /\ event' = NoEvent /\ answer' = "none"
  /\ t' = planned(1) /\ expected' = 0 /\ ceiling' = 0
  /\ UNCHANGED <<journal, receipts, cancel>>

(* Another holder of the same ExecutionJournal appends a fence record.      *)
ForeignAppend ==
  /\ journal # <<>> /\ Faulty
  /\ CanAppend(journal, Len(journal), MutationFence("prepared"))
  /\ journal' = Append(journal, MutationFence("prepared"))
  /\ UNCHANGED <<receipts, t, pc, expected, event, ceiling, cancel, answer>>

ServiceStep ==
  Begin \/ AppendReceipt \/ AppendTransition \/ Cancel
    \/ (\E obs \in AdapterObservations : Invoke(obs))

Next ==
  \/ ServiceStep
  \/ \E c \in 0..MaxCeiling : Open(c) \/ Resume(c)
  \/ AdapterFails \/ RequestCancel \/ Crash \/ ForeignAppend

Spec == Init /\ [][Next]_vars

(* The caller keeps calling advance_one_effect, and a call that started     *)
(* returns.                                                                 *)
FairSpec == Spec /\ WF_vars(ServiceStep)

----------------------------------------------------------------------------

Answered == {n \in DOMAIN journal : journal[n].tag = "effect-receipt"}

(* No effect runs without a durable intent written before it, and every     *)
(* journalled receipt answers one intent with the outcome of an effect the  *)
(* adapter really performed, whatever crashed or failed in between          *)
(* (service.rs:116-145).                                                    *)
EffectsAreIntended ==
  /\ Len(receipts) <= Cardinality(Requests)
  /\ \A n \in Answered :
       /\ \E m \in Requests : m < n /\ journal[m].id = journal[n].id
       /\ \A m \in Answered : journal[m].id = journal[n].id => m = n
       /\ \E k \in DOMAIN receipts : receipts[k].kind = journal[n].outcome


(* The journal never runs ahead of the evidence: a phase it records as      *)
(* succeeded was told so by the adapter, on the policy's deck, after the    *)
(* mutation was committed and the parent accepted (service.rs:128-153).     *)
JournalledSuccessHasEvidence ==
  CurrentState(journal) = "succeeded" =>
    \A k \in {"start", "mutation-committed", "source-deck-current",
              "parent-accepted", "succeed"} :
      \E n \in DOMAIN receipts : receipts[n].kind = k

=============================================================================
