--------------------------- MODULE RunnerJournal ---------------------------
(* The execution journal of sim-lib-roadmap-runner as its clients see it: a *)
(* sequence of records, a law every new record must satisfy, and an append  *)
(* fenced by the head the writer expects.  The hash chain, the lease and    *)
(* the atomic publish belong to sim-lib-journal; a head is the number of    *)
(* records below it.                                                        *)
EXTENDS Integers, Sequences

ExecutionOpened == [tag |-> "execution-opened"]
StateTransition(from, to) == [tag |-> "state-transition", from |-> from, to |-> to]
EffectRequested(id) == [tag |-> "effect-requested", id |-> id]
EffectReceipt(id, outcome) == [tag |-> "effect-receipt", id |-> id, outcome |-> outcome]
MutationFence(expected) == [tag |-> "mutation-fence", expected |-> expected]
TerminalReceipt == [tag |-> "terminal-receipt"]

Holds(records, tag, id) ==
  \E n \in DOMAIN records : records[n].tag = tag /\ records[n].id = id

TransitionsAt(records) == {n \in DOMAIN records : records[n].tag = "state-transition"}

CurrentState(records) ==
  IF TransitionsAt(records) = {} THEN "planned"
  ELSE records[CHOOSE n \in TransitionsAt(records) :
                 \A m \in TransitionsAt(records) : m <= n].to

LegalMoves ==
  {<<"planned", "running">>, <<"running", "reconciling">>, <<"running", "failed">>,
   <<"reconciling", "succeeded">>, <<"reconciling", "failed">>}


LegalTransition(records, r) ==
  r.tag = "state-transition" =>
    /\ CurrentState(records) = r.from
    /\ <<r.from, r.to>> \in LegalMoves

LegalReceipt(records, r) ==
  r.tag = "effect-receipt" =>
    /\ Holds(records, "effect-requested", r.id)
    /\ ~Holds(records, "effect-receipt", r.id)

(* The law of record_law.rs: open once and first, seal on a terminal        *)
(* receipt, one receipt per requested effect, and legal state moves.        *)
validate_next(records, r) ==
  IF records = <<>> THEN r = ExecutionOpened
  ELSE /\ r # ExecutionOpened
       /\ records[Len(records)] # TerminalReceipt
       /\ LegalReceipt(records, r)
       /\ LegalTransition(records, r)

(* append: the record is lawful and the writer's expected head is current.  *)
CanAppend(records, expected, r) ==
  /\ expected = Len(records)
  /\ validate_next(records, r)
=============================================================================
