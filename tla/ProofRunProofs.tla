--------------------------- MODULE ProofRunProofs ---------------------------
(* Machine-checked proof that a journalled proof command is launched at     *)
(* most once and that every answer is that launch's, for any number of      *)
(* callers, dispositions and foreign appends.                               *)
EXTENDS ProofRun, SequenceTheorems, TLAPS

(* While the journal shows no intent nobody may launch; at most one caller  *)
(* is about to, and only before the first launch.                           *)
OneLaunch ==
  /\ ~Requested(journal) => launched = 0 /\ \A c \in Callers : pc[c] = "idle"
  /\ launched \in {0, 1}
  /\ \A c \in Callers : pc[c] = "launch" => launched = 0
  /\ \A c, d \in Callers : pc[c] = "launch" /\ pc[d] = "launch" => c = d

(* Before the launch there is no receipt anywhere; after it every receipt   *)
(* is its outcome, and a completion is journalled only once stored.         *)
OneOutcome ==
  /\ launched = 0 =>
       /\ store = None
       /\ \A c \in Callers : held[c] = None /\ answer[c] \notin Dispositions
       /\ ~Receipted(journal)
  /\ \A c \in Callers : held[c] # None => held[c] = outcome
  /\ \A c \in Callers : pc[c] = "complete" => store # None
  /\ AnswersAreTheLaunch
  /\ CompletionIsStored

IInv == TypeOK /\ OneLaunch /\ OneOutcome

(* What one more record changes: an intent or a receipt appears only as     *)
(* that record, and what every receipt says is kept.                        *)
LEMMA AppendRecord ==
  ASSUME NEW s \in Seq(ProofRecords), NEW r \in ProofRecords
  PROVE  /\ Append(s, r) \in Seq(ProofRecords)
         /\ Len(Append(s, r)) = Len(s) + 1
         /\ Requested(Append(s, r)) <=> Requested(s) \/ r = EffectRequested(Effect)
         /\ Receipted(Append(s, r)) <=> Receipted(s) \/ r.tag = "effect-receipt"
         /\ \A n \in DOMAIN Append(s, r) :
              Append(s, r)[n] = r \/ (n \in DOMAIN s /\ Append(s, r)[n] = s[n])
<1>1. /\ Append(s, r) \in Seq(ProofRecords) /\ Len(Append(s, r)) = Len(s) + 1
      /\ \A i \in 1..Len(s) : Append(s, r)[i] = s[i]
      /\ Append(s, r)[Len(s) + 1] = r
  BY AppendProperties
<1>2. DOMAIN s = 1..Len(s) /\ DOMAIN Append(s, r) = 1..Len(s) + 1 /\ Len(s) \in Nat
  BY <1>1, LenProperties
<1>3. \A n \in 1..Len(s) + 1 : n \in 1..Len(s) \/ n = Len(s) + 1
  BY <1>2
<1>4. Requested(Append(s, r)) <=> Requested(s) \/ r = EffectRequested(Effect)
  <2>1. r = EffectRequested(Effect) <=> r.tag = "effect-requested" /\ r.id = Effect
    BY DEF ProofRecords, EffectRequested, ExecutionOpened, EffectReceipt, MutationFence
  <2> QED BY <1>1, <1>2, <1>3, <2>1 DEF Requested, Holds
<1>5. Receipted(Append(s, r)) <=> Receipted(s) \/ r.tag = "effect-receipt"
  <2>1. r.tag = "effect-receipt" => r.id = Effect
    BY DEF ProofRecords, EffectRequested, ExecutionOpened, EffectReceipt, MutationFence
  <2> QED BY <1>1, <1>2, <1>3, <2>1 DEF Receipted, Holds
<1> QED BY <1>1, <1>2, <1>3, <1>4, <1>5

(* A view that may append shows the whole journal.                          *)
LEMMA FencedViewIsCurrent ==
  ASSUME TypeOK, NEW c \in Callers, view[c] = Len(journal)
  PROVE  Records(c) = journal
BY DEF TypeOK, Records

LEMMA InitHolds == Init => IInv
<1> SUFFICES ASSUME Init PROVE IInv
  OBVIOUS
<1>1. journal \in Seq(ProofRecords) /\ Len(journal) = 1 /\ ~Requested(journal) /\ ~Receipted(journal)
  BY DEF Init, ProofRecords, Requested, Receipted, Holds, ExecutionOpened
<1>2. \A n \in DOMAIN journal : journal[n].tag # "effect-receipt"
  BY DEF Init, ExecutionOpened
<1> QED BY <1>1, <1>2, DispositionsAssumption
        DEF Init, IInv, TypeOK, OneLaunch, OneOutcome, AnswersAreTheLaunch, CompletionIsStored

LEMMA RebuildPreserves == ASSUME IInv, NEW c \in Callers, Rebuild(c) PROVE IInv'
BY LenProperties DEF Rebuild, IInv, TypeOK, OneLaunch, OneOutcome, AnswersAreTheLaunch,
   CompletionIsStored

LEMMA ReconcilePreserves == ASSUME IInv, NEW c \in Callers, Reconcile(c) PROVE IInv'
<1>1. CASE /\ UNCHANGED <<journal, view>>
           /\ \/ Return(c, "ambiguous") \/ Return(c, "error")
              \/ store # None /\ Return(c, store)
  <2> USE DEF Return, Reconcile, IInv
  <2>a. PICK a \in Dispositions \cup {"error", "ambiguous"} : answer' = [answer EXCEPT ![c] = a]
    BY <1>1 DEF TypeOK
  <2>b. /\ pc' = [pc EXCEPT ![c] = "idle"] /\ held' = [held EXCEPT ![c] = None]
        /\ UNCHANGED <<journal, view, store, launched, outcome>>
    BY <1>1
  <2>1. TypeOK'
    <3>1. answer' \in [Callers -> Dispositions \cup {"none", "error", "ambiguous"}]
      BY <2>a DEF TypeOK
    <3>2. /\ pc' \in [Callers -> {"idle", "launch", "record", "complete"}]
          /\ held' \in [Callers -> Dispositions \cup {None}]
          /\ \A d \in Callers : held'[d] # None <=> pc'[d] \in {"record", "complete"}
      BY <2>b DEF TypeOK
    <3> QED BY <2>b, <3>1, <3>2 DEF TypeOK
  <2>2. OneLaunch' BY <2>b DEF TypeOK, OneLaunch
  <2>3. \A d \in Callers : answer'[d] \in Dispositions =>
             answer'[d] = answer[d] \/ (store # None /\ answer'[d] = store)
    BY <1>1, DispositionsAssumption DEF TypeOK
  <2>4. OneOutcome'
    BY <1>1, <2>3 DEF TypeOK, OneOutcome, AnswersAreTheLaunch, CompletionIsStored
  <2> QED BY <2>1, <2>2, <2>4
<1>2. CASE Publish(c, EffectReceipt(Effect, store)) /\ Return(c, store) /\ store # None
  <2> DEFINE r == EffectReceipt(Effect, store)
  <2>0. store \in Dispositions
    BY <1>2 DEF IInv, TypeOK
  <2>1. r \in ProofRecords /\ r.tag = "effect-receipt" /\ r.outcome = store
        /\ r # EffectRequested(Effect)
    BY <2>0 DEF ProofRecords, EffectReceipt, EffectRequested, IInv, TypeOK
  <2>2. /\ journal' \in Seq(ProofRecords) /\ Len(journal') = Len(journal) + 1
        /\ Requested(journal') <=> Requested(journal)
        /\ \A n \in DOMAIN journal' :
             journal'[n] = r \/ (n \in DOMAIN journal /\ journal'[n] = journal[n])
    BY <1>2, <2>1, AppendRecord DEF Publish, IInv, TypeOK
  <2> HIDE DEF r
  <2>3. TypeOK'
    <3>1. /\ pc' = [pc EXCEPT ![c] = "idle"] /\ held' = [held EXCEPT ![c] = None]
          /\ view' = [view EXCEPT ![c] = view[c] + 1] /\ view[c] = Len(journal)
          /\ UNCHANGED <<store, launched, outcome>>
      BY <1>2 DEF Publish, CanAppend, Return, Reconcile
    <3>2. /\ pc' \in [Callers -> {"idle", "launch", "record", "complete"}]
          /\ held' \in [Callers -> Dispositions \cup {None}]
          /\ \A d \in Callers : held'[d] # None <=> pc'[d] \in {"record", "complete"}
      BY <3>1 DEF IInv, TypeOK
    <3>3. view' \in [Callers -> 0..Len(journal')]
      BY <2>2, <3>1, LenProperties DEF IInv, TypeOK
    <3>4. answer' \in [Callers -> Dispositions \cup {"none", "error", "ambiguous"}]
      BY <1>2, <2>0 DEF Return, IInv, TypeOK
    <3> QED BY <2>2, <3>1, <3>2, <3>3, <3>4 DEF IInv, TypeOK
  <2>4. OneLaunch'
    BY <1>2, <2>2 DEF Return, Reconcile, IInv, OneLaunch, TypeOK
  <2>5. OneOutcome'
    BY <1>2, <2>1, <2>2 DEF Return, Reconcile, IInv, OneOutcome, AnswersAreTheLaunch,
       CompletionIsStored, TypeOK
  <2> QED BY <2>3, <2>4, <2>5 DEF IInv
<1> QED BY <1>1, <1>2 DEF Reconcile

LEMMA IntendPreserves == ASSUME IInv, NEW c \in Callers, Intend(c) PROVE IInv'
<1>1. CASE UNCHANGED <<journal, view>> /\ Return(c, "error")
  BY <1>1, DispositionsAssumption, SMTT(30) DEF Intend, Return, IInv, TypeOK, OneLaunch, OneOutcome,
     AnswersAreTheLaunch, CompletionIsStored
<1>2. CASE /\ Publish(c, EffectRequested(Effect))
           /\ pc' = [pc EXCEPT ![c] = "launch"] /\ UNCHANGED <<held, answer>>
  <2> DEFINE r == EffectRequested(Effect)
  <2>1. r \in ProofRecords /\ r.tag # "effect-receipt"
    BY DEF ProofRecords, EffectRequested
  <2>2. /\ journal' \in Seq(ProofRecords) /\ Len(journal') = Len(journal) + 1
        /\ Requested(journal') /\ (Receipted(journal') <=> Receipted(journal))
        /\ \A n \in DOMAIN journal' :
             journal'[n] = r \/ (n \in DOMAIN journal /\ journal'[n] = journal[n])
    BY <1>2, <2>1, AppendRecord DEF Publish, IInv, TypeOK
  <2>3. ~Requested(journal)
    BY <1>2, FencedViewIsCurrent DEF Publish, CanAppend, Intend, IInv
  <2>4. launched = 0 /\ \A d \in Callers : pc[d] = "idle"
    BY <2>3 DEF IInv, OneLaunch
  <2> HIDE DEF r
  <2>5. TypeOK'
    BY <1>2, <2>2, <2>4, LenProperties DEF Publish, Intend, IInv, TypeOK
  <2>6. OneLaunch'
    BY <1>2, <2>2, <2>4 DEF Intend, IInv, OneLaunch, TypeOK
  <2>7. OneOutcome'
    BY <1>2, <2>1, <2>2, <2>4 DEF Intend, IInv, OneOutcome, AnswersAreTheLaunch,
       CompletionIsStored, TypeOK
  <2> QED BY <2>5, <2>6, <2>7 DEF IInv
<1> QED BY <1>1, <1>2 DEF Intend

LEMMA LaunchPreserves ==
  ASSUME IInv, NEW c \in Callers, NEW d \in Dispositions, Launch(c, d) PROVE IInv'
<1>1. launched = 0 /\ ~Receipted(journal)
  BY DEF Launch, IInv, OneLaunch, OneOutcome
<1>2. \A n \in DOMAIN journal : journal[n].tag # "effect-receipt"
  <2>1. \A n \in DOMAIN journal : journal[n] \in ProofRecords
    BY DEF IInv, TypeOK
  <2>2. \A r \in ProofRecords : r.tag = "effect-receipt" => r.id = Effect
    BY DEF ProofRecords, EffectRequested, ExecutionOpened, EffectReceipt, MutationFence
  <2> QED BY <1>1, <2>1, <2>2 DEF Receipted, Holds
<1>3. TypeOK' /\ OneLaunch'
  BY <1>1, DispositionsAssumption DEF Launch, IInv, TypeOK, OneLaunch
<1>4. OneOutcome'
  BY <1>1, <1>2, DispositionsAssumption DEF Launch, IInv, TypeOK, OneOutcome,
     AnswersAreTheLaunch, CompletionIsStored
<1> QED BY <1>3, <1>4 DEF IInv

LEMMA RequestInvalidPreserves == ASSUME IInv, NEW c \in Callers, RequestInvalid(c) PROVE IInv'
BY DispositionsAssumption, SMTT(30) DEF RequestInvalid, Return, IInv, TypeOK, OneLaunch, OneOutcome,
   AnswersAreTheLaunch, CompletionIsStored

LEMMA RecordPreserves == ASSUME IInv, NEW c \in Callers, Record(c) PROVE IInv'
BY SMTT(30) DEF Record, IInv, TypeOK, OneLaunch, OneOutcome, AnswersAreTheLaunch, CompletionIsStored

LEMMA CompletePreserves == ASSUME IInv, NEW c \in Callers, Complete(c) PROVE IInv'
<1>1. CASE UNCHANGED <<journal, view>> /\ Return(c, "error")
  BY <1>1, DispositionsAssumption, SMTT(30) DEF Complete, Return, IInv, TypeOK, OneLaunch, OneOutcome,
     AnswersAreTheLaunch, CompletionIsStored
<1>2. CASE Publish(c, EffectReceipt(Effect, held[c])) /\ Return(c, held[c])
  <2> DEFINE r == EffectReceipt(Effect, held[c])
  <2>0. held[c] \in Dispositions /\ held[c] = outcome /\ store # None
    BY <1>2 DEF Complete, IInv, TypeOK, OneOutcome
  <2>1. r \in ProofRecords /\ r.tag = "effect-receipt" /\ r.outcome = held[c]
        /\ r # EffectRequested(Effect)
    BY <2>0 DEF ProofRecords, EffectReceipt, EffectRequested
  <2>2. /\ journal' \in Seq(ProofRecords) /\ Len(journal') = Len(journal) + 1
        /\ Requested(journal') <=> Requested(journal)
        /\ \A n \in DOMAIN journal' :
             journal'[n] = r \/ (n \in DOMAIN journal /\ journal'[n] = journal[n])
    BY <1>2, <2>1, AppendRecord DEF Publish, IInv, TypeOK
  <2> HIDE DEF r
  <2>3. TypeOK'
    <3>1. /\ pc' = [pc EXCEPT ![c] = "idle"] /\ held' = [held EXCEPT ![c] = None]
          /\ view' = [view EXCEPT ![c] = view[c] + 1] /\ view[c] = Len(journal)
          /\ UNCHANGED <<store, launched, outcome>>
      BY <1>2 DEF Publish, CanAppend, Return, Complete
    <3>2. /\ pc' \in [Callers -> {"idle", "launch", "record", "complete"}]
          /\ held' \in [Callers -> Dispositions \cup {None}]
          /\ \A d \in Callers : held'[d] # None <=> pc'[d] \in {"record", "complete"}
      BY <3>1 DEF IInv, TypeOK
    <3>3. view' \in [Callers -> 0..Len(journal')]
      BY <2>2, <3>1, LenProperties DEF IInv, TypeOK
    <3>4. answer' \in [Callers -> Dispositions \cup {"none", "error", "ambiguous"}]
      BY <1>2, <2>0 DEF Return, IInv, TypeOK
    <3> QED BY <2>2, <3>1, <3>2, <3>3, <3>4 DEF IInv, TypeOK
  <2>4. OneLaunch'
    BY <1>2, <2>2 DEF Return, Complete, IInv, OneLaunch, TypeOK
  <2>5. /\ launched' # 0 /\ store' = store /\ outcome' = outcome
        /\ \A d \in Callers : /\ held'[d] = (IF d = c THEN None ELSE held[d])
                               /\ pc'[d] = (IF d = c THEN "idle" ELSE pc[d])
                               /\ answer'[d] = (IF d = c THEN outcome ELSE answer[d])
    <3>1. launched # 0
      BY <2>0 DEF IInv, OneOutcome
    <3> QED BY <1>2, <2>0, <3>1 DEF Return, Complete, IInv, TypeOK
  <2>6. OneOutcome'
    BY <2>0, <2>1, <2>2, <2>5 DEF IInv, OneOutcome, AnswersAreTheLaunch, CompletionIsStored
  <2> QED BY <2>3, <2>4, <2>6 DEF IInv
<1> QED BY <1>1, <1>2 DEF Complete

LEMMA CrashPreserves == ASSUME IInv, NEW c \in Callers, Crash(c) PROVE IInv'
BY LenProperties, DispositionsAssumption, SMTT(30) DEF Crash, Return, IInv, TypeOK, OneLaunch, OneOutcome,
   AnswersAreTheLaunch, CompletionIsStored

LEMMA ForeignAppendPreserves == ASSUME IInv, ForeignAppend PROVE IInv'
<1>1. PICK n \in 1..MaxForeign : journal' = Append(journal, MutationFence(n))
  BY DEF ForeignAppend
<1> DEFINE r == MutationFence(n)
<1>2. r \in ProofRecords /\ r.tag # "effect-receipt" /\ r # EffectRequested(Effect)
  BY DEF ProofRecords, MutationFence, EffectRequested
<1>3. /\ journal' \in Seq(ProofRecords) /\ Len(journal') = Len(journal) + 1
      /\ Requested(journal') <=> Requested(journal)
      /\ Receipted(journal') <=> Receipted(journal)
      /\ \A m \in DOMAIN journal' :
           journal'[m] = r \/ (m \in DOMAIN journal /\ journal'[m] = journal[m])
  BY <1>1, <1>2, AppendRecord DEF IInv, TypeOK
<1> HIDE DEF r
<1>4. TypeOK' /\ OneLaunch'
  BY <1>3, LenProperties DEF ForeignAppend, IInv, TypeOK, OneLaunch
<1>5. OneOutcome'
  BY <1>2, <1>3 DEF ForeignAppend, IInv, OneOutcome, AnswersAreTheLaunch, CompletionIsStored
<1> QED BY <1>4, <1>5 DEF IInv

LEMMA NextPreserves == IInv /\ [Next]_vars => IInv'
<1> SUFFICES ASSUME IInv, [Next]_vars PROVE IInv'
  OBVIOUS
<1>1. CASE UNCHANGED vars
  BY <1>1 DEF vars, IInv, TypeOK, OneLaunch, OneOutcome, AnswersAreTheLaunch, CompletionIsStored
<1>2. CASE Next
  BY <1>2, RebuildPreserves, ReconcilePreserves, IntendPreserves, LaunchPreserves,
     RequestInvalidPreserves, RecordPreserves, CompletePreserves, CrashPreserves,
     ForeignAppendPreserves DEF Next
<1> QED BY <1>1, <1>2

LEMMA AlwaysIInv == Spec => []IInv
BY InitHolds, NextPreserves, PTL DEF Spec

(* For any number of callers, with stale views and crashes anywhere, the    *)
(* sandbox of a journalled proof is launched at most once and never without *)
(* a journalled intent (proof.rs:346).                                      *)
THEOREM ProofLaunchedAtMostOnce == Spec => []LaunchedAtMostOnce
<1>1. IInv => LaunchedAtMostOnce
  BY DEF IInv, OneLaunch, LaunchedAtMostOnce
<1> QED BY <1>1, AlwaysIInv, PTL

(* Every receipt a caller gets, the store keeps or the journal records is   *)
(* the outcome of that launch (proof.rs:370-422).                           *)
THEOREM ProofAnswersAreTheLaunch == Spec => []AnswersAreTheLaunch
<1>1. IInv => AnswersAreTheLaunch
  BY DEF IInv, OneOutcome
<1> QED BY <1>1, AlwaysIInv, PTL

(* A journalled completion has its receipt in the durable store             *)
(* (proof.rs:407-416).                                                      *)
THEOREM ProofCompletionIsStored == Spec => []CompletionIsStored
<1>1. IInv => CompletionIsStored
  BY DEF IInv, OneOutcome
<1> QED BY <1>1, AlwaysIInv, PTL
=============================================================================
