------------------------------ MODULE Continuity ------------------------------
(***************************************************************************)
(* sim-lib-continuity: the pure reducer apply, rebuild, and the fenced      *)
(* MemoryJournal, used by several holders of a derived ContinuityState      *)
(* cache.  Events reach a holder in any order and any number of times.      *)
(*                                                                          *)
(* An event is its id, its sequence number, its kind, its logical time and, *)
(* for a candidate, the observation and expiry times of its route lease.    *)
(* admitted says whether role, disclosure, network and service policy admit *)
(* it.  The turn of an event is the event with the intent it was given.     *)
(***************************************************************************)
EXTENDS Naturals, Sequences, FiniteSets, SequencesExt

CONSTANTS
    Holders,            \* owners of a cached state
    Events,             \* the events that can be delivered
    Retention,          \* plan.retention_turns
    MaxFreshness        \* plan.max_freshness

\* ContinuityPlan::validate
ASSUME PlanAssumption ==
    /\ Retention \in Nat \ {0} /\ MaxFreshness \in Nat \ {0}
    /\ \A e \in Events :
        /\ {e.sequence, e.time, e.observed, e.expires} \subseteq Nat
        /\ e.kind \in {"cancel", "candidate", "other"} /\ e.admitted \in BOOLEAN

VARIABLES
    rows,       \* the journal
    cache,      \* cache[h]: the state holder h last derived
    reply       \* reply[h]: what the last accept returned to h

vars == <<rows, cache, reply>>

\* ContinuityState::default
Empty == [turns |-> <<>>, cancelled |-> FALSE, next |-> 0, seen |-> {}]

intent(e) == CASE e.kind = "cancel" -> "cancelled"
               [] e.kind = "candidate" -> "consider-route"
               [] OTHER -> "record"
Turn(e) == [event |-> e, intent |-> intent(e)]

FreshLease(e) ==
    /\ e.observed <= e.expires /\ e.expires >= e.time
    /\ e.observed <= e.time /\ e.time - e.observed <= MaxFreshness

\* Mutant: the sequence is looked at before the event id.
RefusalSequenceFirst(s, e) ==
    CASE e.sequence < s.next -> "stale-event"
      [] e.sequence > s.next -> "reordered-event"
      [] s.cancelled -> "post-cancel-event"
      [] ~e.admitted -> "policy"
      [] e.kind = "candidate" /\ ~FreshLease(e) -> "stale-route"
      [] OTHER -> "none"

\* The refusal apply answers, in the order of its checks.
Refusal(s, e) ==
    CASE e.id \in s.seen -> "none"
      [] e.sequence < s.next -> "stale-event"
      [] e.sequence > s.next -> "reordered-event"
      [] s.cancelled -> "post-cancel-event"
      [] ~e.admitted -> "policy"
      [] e.kind = "candidate" /\ ~FreshLease(e) -> "stale-route"
      [] OTHER -> "none"

\* Mutant: the oldest turns are kept.
RetainedOldest(turns) == SubSeq(turns, 1, IF Len(turns) > Retention THEN Retention ELSE Len(turns))

Retained(turns) ==
    IF Len(turns) > Retention
    THEN SubSeq(turns, Len(turns) - Retention + 1, Len(turns)) ELSE turns

\* apply, for an event it does not refuse; a known id leaves the state alone.
Apply(s, e) ==
    IF e.id \in s.seen THEN s
    ELSE [turns |-> Retained(Append(s.turns, Turn(e))),
          cancelled |-> e.kind = "cancel",
          next |-> s.next + 1,
          seen |-> s.seen \cup {e.id}]

\* One turn of rebuild; "none" is carried until a stored turn is refused or
\* differs from what its event reduces to.
Replay(acc, turn) ==
    IF acc.refusal # "none" THEN acc
    ELSE IF Refusal(acc.state, turn.event) # "none"
    THEN [acc EXCEPT !.refusal = Refusal(acc.state, turn.event)]
    ELSE LET next == Apply(acc.state, turn.event)
         IN IF next.turns # <<>> /\ Last(next.turns) = turn
            THEN [acc EXCEPT !.state = next]
            ELSE [acc EXCEPT !.refusal = "journal-mismatch"]

rebuild(turns) == FoldLeft(Replay, [state |-> Empty, refusal |-> "none"], turns)
-----------------------------------------------------------------------------
Init ==
    /\ rows = <<>>
    /\ cache = [h \in Holders |-> Empty]
    /\ reply = [h \in Holders |-> "none"]

\* Mutant: the cache is not compared with the journal.
AcceptUnfenced(h, e) ==
    IF Refusal(cache[h], e) # "none"
    THEN reply' = [reply EXCEPT ![h] = Refusal(cache[h], e)] /\ UNCHANGED <<rows, cache>>
    ELSE /\ cache' = [cache EXCEPT ![h] = Apply(@, e)]
         /\ rows' = IF cache'[h] = cache[h] THEN rows ELSE Append(rows, Last(cache'[h].turns))
         /\ reply' = [reply EXCEPT ![h] = "ok"]

\* MemoryJournal::accept followed by the holder keeping the state it returns.
Accept(h, e) ==
    LET rebuilt == rebuild(rows) IN
    IF rebuilt.refusal # "none"
    THEN reply' = [reply EXCEPT ![h] = rebuilt.refusal] /\ UNCHANGED <<rows, cache>>
    ELSE IF rebuilt.state # cache[h]
    THEN reply' = [reply EXCEPT ![h] = "state-mismatch"] /\ UNCHANGED <<rows, cache>>
    ELSE IF Refusal(cache[h], e) # "none"
    THEN reply' = [reply EXCEPT ![h] = Refusal(cache[h], e)] /\ UNCHANGED <<rows, cache>>
    ELSE /\ cache' = [cache EXCEPT ![h] = Apply(@, e)]
         /\ rows' = IF cache'[h] = cache[h] THEN rows ELSE Append(rows, Last(cache'[h].turns))
         /\ reply' = [reply EXCEPT ![h] = "ok"]

\* The state accept returned is lost: the holder crashed before it kept it.
AcceptAndCrash(h, e) ==
    /\ rebuild(rows).refusal = "none" /\ rebuild(rows).state = cache[h]
    /\ Refusal(cache[h], e) = "none" /\ Apply(cache[h], e) # cache[h]
    /\ rows' = Append(rows, Last(Apply(cache[h], e).turns))
    /\ UNCHANGED <<cache, reply>>

\* A holder derives its cache anew from the journal.
Rebuild(h) ==
    /\ rebuild(rows).refusal = "none"
    /\ cache' = [cache EXCEPT ![h] = rebuild(rows).state]
    /\ UNCHANGED <<rows, reply>>

Next == \E h \in Holders :
            \/ \E e \in Events : Accept(h, e) \/ AcceptAndCrash(h, e)
            \/ Rebuild(h)

Spec == Init /\ [][Next]_vars
-----------------------------------------------------------------------------
\* Every cache is the reduction of a prefix of the journal, so a holder is
\* behind, never on a branch of its own.
CachesArePrefixes ==
    \A h \in Holders : \E n \in 0..Len(rows) :
        cache[h] = rebuild(SubSeq(rows, 1, n)).state

\* The journal can always be replayed: rebuild refuses no turn that accept
\* stored, whichever holders stored them and however their caches aged.  It
\* holds each event id once, in sequence order without gaps, and nothing after
\* a cancellation.
JournalReplays ==
    /\ rebuild(rows).refusal = "none"
    /\ \A n \in DOMAIN rows : rows[n].event.sequence = n - 1
    /\ \A m, n \in DOMAIN rows : m # n => rows[m].event.id # rows[n].event.id
    /\ \A n \in DOMAIN rows : rows[n].event.kind = "cancel" => n = Len(rows)

\* An event that the holder's journal already has is answered "ok" however
\* late it is redelivered, also after a cancellation.
RedeliveryIsIdempotent ==
    [][\A h \in Holders : \A e \in Events :
        ((\E n \in DOMAIN rows : rows[n].event = e) /\ Accept(h, e))
            => rows' = rows /\ reply'[h] \in {"ok", "state-mismatch"}]_vars

\* Retention drops old turns only: the cache keeps the newest ones of the
\* prefix it was derived from.
RetentionKeepsTheNewest ==
    \A h \in Holders : LET t == cache[h].turns
                           n == cache[h].next
                       IN t = SubSeq(rows, n - Len(t) + 1, n)
                          /\ Len(t) = IF n < Retention THEN n ELSE Retention
=============================================================================
