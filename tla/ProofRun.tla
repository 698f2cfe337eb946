------------------------------ MODULE ProofRun ------------------------------
(* execute_journaled_proof: one sandboxed proof command run under an        *)
(* execution journal.  Several callers may hold a rebuilt view of the same  *)
(* journal, a stale one included, and any of them may die between two       *)
(* writes.  The launcher and the durable receipt store are external.        *)
EXTENDS RunnerJournal

CONSTANTS
  Callers,
  Dispositions, \* what a launch may end in
  None,         \* no receipt
  MaxForeign    \* records other users of the journal append

ASSUME DispositionsAssumption ==
  /\ None \notin Dispositions
  /\ Dispositions \cap {"none", "error", "ambiguous"} = {}

Effect == 1  \* the command's effect_id

VARIABLES
  journal,   \* the durable records
  view,      \* the head of each caller's RebuiltExecution; 0 when it has none
  pc, held,  \* where each caller is, and the receipt it is about to publish
  store,     \* ProofReceiptStore: the receipt recorded for the effect
  launched,  \* how often the sandbox was launched
  outcome,   \* what the last launch really ended in
  answer     \* what each caller's last call returned

vars == <<journal, view, pc, held, store, launched, outcome, answer>>

Init ==
  /\ journal = <<ExecutionOpened>>
  /\ view = [c \in Callers |-> 0]
  /\ pc = [c \in Callers |-> "idle"]
  /\ held = [c \in Callers |-> None]
  /\ store = None /\ launched = 0 /\ outcome = None
  /\ answer = [c \in Callers |-> "none"]

Records(c) == SubSeq(journal, 1, view[c])

Requested(records) == Holds(records, "effect-requested", Effect)

Receipted(records) == Holds(records, "effect-receipt", Effect)

(* rebuild: the caller reads the whole journal.                             *)
Rebuild(c) ==
  /\ pc[c] = "idle"
  /\ view' = [view EXCEPT ![c] = Len(journal)]
  /\ UNCHANGED <<journal, pc, held, store, launched, outcome, answer>>

Return(c, a) ==
  /\ pc' = [pc EXCEPT ![c] = "idle"]
  /\ held' = [held EXCEPT ![c] = None]
  /\ answer' = [answer EXCEPT ![c] = a]

(* One fenced append on the caller's own head: it moves the head with the   *)
(* record, or the call ends in an error.                                    *)
Publish(c, r) ==
  /\ CanAppend(journal, view[c], r)
  /\ journal' = Append(journal, r)
  /\ view' = [view EXCEPT ![c] = view[c] + 1]

(* The view shows the effect requested: reconcile from the store.  An       *)
(* intent without a receipt is ambiguous and is never dispatched again.     *)
Reconcile(c) ==
  /\ pc[c] = "idle" /\ view[c] > 0
  /\ Requested(Records(c))
  /\ IF store = None THEN Return(c, "ambiguous") /\ UNCHANGED <<journal, view>>
     ELSE IF Receipted(Records(c)) THEN Return(c, store) /\ UNCHANGED <<journal, view>>
     ELSE \/ Publish(c, EffectReceipt(Effect, store)) /\ Return(c, store)
          \/ /\ ~CanAppend(journal, view[c], EffectReceipt(Effect, store))
             /\ Return(c, "error") /\ UNCHANGED <<journal, view>>
  /\ UNCHANGED <<store, launched, outcome>>

\* Mutant: the intent is published on the head the journal has by then, not
\* on the head of the view in which the effect was not requested.
IntendUnfenced(c) ==
  /\ pc[c] = "idle" /\ view[c] > 0
  /\ ~Requested(Records(c))
  /\ journal' = Append(journal, EffectRequested(Effect))
  /\ view' = [view EXCEPT ![c] = Len(journal) + 1]
  /\ pc' = [pc EXCEPT ![c] = "launch"]
  /\ UNCHANGED <<held, answer, store, launched, outcome>>

(* The view shows no request: journal the intent first.                     *)
Intend(c) ==
  /\ pc[c] = "idle" /\ view[c] > 0
  /\ ~Requested(Records(c))
  /\ \/ /\ Publish(c, EffectRequested(Effect))
        /\ pc' = [pc EXCEPT ![c] = "launch"]
        /\ UNCHANGED <<held, answer>>
     \/ /\ ~CanAppend(journal, view[c], EffectRequested(Effect))
        /\ Return(c, "error") /\ UNCHANGED <<journal, view>>
  /\ UNCHANGED <<store, launched, outcome>>

(* execute_proof_leaf: launch the sandbox and normalise how it ended.       *)
Launch(c, d) ==
  /\ pc[c] = "launch"
  /\ launched' = launched + 1
  /\ outcome' = d
  /\ held' = [held EXCEPT ![c] = d]
  /\ pc' = [pc EXCEPT ![c] = "record"]
  /\ UNCHANGED <<journal, view, store, answer>>

(* The sandbox request itself is invalid: nothing is launched.              *)
RequestInvalid(c) ==
  /\ pc[c] = "launch"
  /\ Return(c, "error")
  /\ UNCHANGED <<journal, view, store, launched, outcome>>

\* Mutant: the completion is journalled before the receipt is stored.
RecordLater(c) ==
  /\ pc[c] = "record"
  /\ pc' = [pc EXCEPT ![c] = "complete"]
  /\ UNCHANGED <<journal, view, held, store, launched, outcome, answer>>

Record(c) ==
  /\ pc[c] = "record"
  /\ store' = held[c]
  /\ pc' = [pc EXCEPT ![c] = "complete"]
  /\ UNCHANGED <<journal, view, held, launched, outcome, answer>>

Complete(c) ==
  /\ pc[c] = "complete"
  /\ \/ Publish(c, EffectReceipt(Effect, held[c])) /\ Return(c, held[c])
     \/ /\ ~CanAppend(journal, view[c], EffectReceipt(Effect, held[c]))
        /\ Return(c, "error") /\ UNCHANGED <<journal, view>>
  /\ UNCHANGED <<store, launched, outcome>>

(* The caller dies; the journal, the store and the sandbox's work survive.  *)
Crash(c) ==
  /\ pc[c] # "idle"
  /\ view' = [view EXCEPT ![c] = 0]
  /\ Return(c, "none")
  /\ UNCHANGED <<journal, store, launched, outcome>>

Foreign == {n \in DOMAIN journal : journal[n].tag = "mutation-fence"}

(* Another user of the journal appends.                                     *)
ForeignAppend ==
  /\ \E n \in 1..MaxForeign :
       /\ \A m \in Foreign : journal[m].expected # n
       /\ CanAppend(journal, Len(journal), MutationFence(n))
       /\ journal' = Append(journal, MutationFence(n))
  /\ UNCHANGED <<view, pc, held, store, launched, outcome, answer>>

Next ==
  \/ \E c \in Callers :
       \/ Rebuild(c) \/ Reconcile(c) \/ Intend(c)
       \/ \E d \in Dispositions : Launch(c, d)
       \/ RequestInvalid(c) \/ Record(c) \/ Complete(c) \/ Crash(c)
  \/ ForeignAppend

Spec == Init /\ [][Next]_vars

ProofRecords ==
  {ExecutionOpened, EffectRequested(Effect)}
    \cup {EffectReceipt(Effect, d) : d \in Dispositions}
    \cup {MutationFence(n) : n \in 1..MaxForeign}

(* Every variable has its type, and a caller past its launch holds a        *)
(* receipt (proof.rs:347-423).                                              *)
TypeOK ==
  /\ journal \in Seq(ProofRecords)
  /\ view \in [Callers -> 0..Len(journal)]
  /\ pc \in [Callers -> {"idle", "launch", "record", "complete"}]
  /\ held \in [Callers -> Dispositions \cup {None}]
  /\ store \in Dispositions \cup {None}
  /\ outcome \in Dispositions \cup {None}
  /\ launched \in Nat
  /\ answer \in [Callers -> Dispositions \cup {"none", "error", "ambiguous"}]
  /\ \A c \in Callers : held[c] # None <=> pc[c] \in {"record", "complete"}

(* "An unresolved intent is reconciled from the launcher store and never    *)
(* launched twice" (proof.rs:346), and nothing is launched without its      *)
(* intent in the journal - with several callers on stale views and a crash  *)
(* at any point.                                                            *)
LaunchedAtMostOnce ==
  /\ launched <= 1
  /\ launched = 1 => Requested(journal)

(* What a caller is told, what the store keeps and what the journal says is *)
(* what the one launch ended in: no answer is invented and none is replaced *)
(* (proof.rs:370-391, 406-422).                                             *)
AnswersAreTheLaunch ==
  /\ store # None => store = outcome
  /\ \A c \in Callers : answer[c] \in Dispositions => answer[c] = outcome
  /\ \A n \in DOMAIN journal :
       journal[n].tag = "effect-receipt" => journal[n].outcome = outcome

(* "persists the launcher receipt before journal completion"                *)
(* (sim-lib-roadmap-runner/README.md:57): a journalled completion always    *)
(* has its receipt in the store, so no later caller finds it ambiguous.     *)
CompletionIsStored == Receipted(journal) => store # None
=============================================================================
