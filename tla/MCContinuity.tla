---------------------------- MODULE MCContinuity ----------------------------
(* Two holders; events that compete for a sequence number, reuse an id, come *)
(* with a fresh and with a stale lease, and cancel.                          *)
EXTENDS Continuity

Event(id, seq, kind, observed, ok) ==
    [id |-> id, sequence |-> seq, kind |-> kind, time |-> 2, observed |-> observed,
     expires |-> 2, admitted |-> ok]

SomeEvents ==
    { Event("a", 0, "other", 2, TRUE), Event("b", 0, "candidate", 1, TRUE),
      Event("c", 1, "candidate", 0, TRUE), Event("d", 1, "other", 2, TRUE),
      Event("e", 2, "cancel", 2, TRUE), Event("f", 2, "other", 2, TRUE),
      Event("a", 3, "other", 2, TRUE), Event("g", 3, "other", 2, FALSE),
      Event("h", 3, "other", 2, TRUE) }
=============================================================================
