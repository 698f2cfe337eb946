---------------------------- MODULE TriggerFeed ----------------------------
(* One file-tail trigger of a server: its own polling thread, the            *)
(* server/trigger-poll operation that polls it from another thread, and the  *)
(* file somebody else appends to, truncates or removes.  A line is two       *)
(* tokens, its text and its newline, so a poll may see half a line.          *)
EXTENDS Integers, Sequences

CONSTANTS
  MaxSize,   \* the most tokens the file holds
  MaxGen     \* the most times the file is truncated

Pollers == {"thread", "manual"}

VARIABLES
  gen, size,          \* the file: its generation and its length in tokens
  offset, remainder,  \* TriggerState: tokens consumed, and a kept half line
  poll,               \* per poller: where it is, what it read, what it still injects
  thread,             \* the polling thread: "none", "top", "polling" or "ended"
  tstopping,          \* TriggerHandle.stopping
  delivered,          \* the lines the site has answered, in order
  lost,               \* the lines taken from the file and then given up
  crossed             \* a poll began while another was under way

feedVars == <<gen, size, offset, remainder, poll, thread, tstopping, delivered, lost, crossed>>

Idle == [pc |-> "idle", gen |-> 0, size |-> 0, lines |-> <<>>]

FeedInit ==
  /\ gen = 0 /\ size = 0
  /\ offset = 0 /\ remainder = 0
  /\ poll = [p \in Pollers |-> Idle]
  /\ thread = "none" /\ tstopping = FALSE
  /\ delivered = <<>> /\ lost = {} /\ crossed = FALSE

----------------------------------------------------------------------------
(* The file's writer.                                                        *)

AppendToken ==
  /\ size < MaxSize
  /\ size' = size + 1
  /\ UNCHANGED <<gen, offset, remainder, poll, thread, tstopping, delivered, lost, crossed>>

Truncate ==
  /\ size > 0 /\ gen < MaxGen
  /\ gen' = gen + 1 /\ size' = 0
  /\ UNCHANGED <<offset, remainder, poll, thread, tstopping, delivered, lost, crossed>>

----------------------------------------------------------------------------
(* Polling.                                                                  *)

BeginPoll(p) ==
  /\ poll[p].pc = "idle"
  /\ poll' = [poll EXCEPT ![p].pc = "reading"]
  /\ crossed' = (crossed \/ \E q \in Pollers \ {p} : poll[q].pc # "idle")

PollFromThread ==
  /\ thread = "top"
  /\ IF tstopping
     THEN thread' = "ended" /\ UNCHANGED <<poll, crossed>>
     ELSE thread' = "polling" /\ BeginPoll("thread")
  /\ UNCHANGED <<gen, size, offset, remainder, tstopping, delivered, lost>>

server_trigger_poll ==
  /\ thread # "none"
  /\ BeginPoll("manual")
  /\ UNCHANGED <<gen, size, offset, remainder, thread, tstopping, delivered, lost>>

\* The poll returns; the thread goes round again, or ends on an error.
EndPoll(p, ok) ==
  /\ poll' = [poll EXCEPT ![p] = Idle]
  /\ thread' = IF p # "thread" THEN thread ELSE IF ok THEN "top" ELSE "ended"

\* fs::read, before the trigger's state is locked.
ReadFile(p) ==
  /\ poll[p].pc = "reading"
  /\ poll' = [poll EXCEPT ![p] = [pc |-> "read", gen |-> gen, size |-> size, lines |-> <<>>]]
  /\ UNCHANGED <<gen, size, offset, remainder, thread, tstopping, delivered, lost, crossed>>

ReadFails(p) ==
  /\ poll[p].pc = "reading"
  /\ EndPoll(p, FALSE)
  /\ UNCHANGED <<gen, size, offset, remainder, tstopping, delivered, lost, crossed>>

\* The lines that end in tokens from+1..upto, when kept tokens of the first
\* one were left over: a line whose text is gone is blank and is skipped.
LinesOf(g, from, kept, upto) ==
  LET first == (from \div 2) + 1
      all   == [i \in 1..((upto \div 2) - first + 1) |-> <<g, first + i - 1>>]
  IN IF from % 2 = 1 /\ kept = 0 /\ all # <<>> THEN Tail(all) ELSE all

\* Mutant: the half line at the end of the read is not kept.
TakeLinesForgetful(p) ==
  LET shrunk == offset > poll[p].size
      from   == IF shrunk THEN 0 ELSE offset
      kept   == IF shrunk THEN 0 ELSE remainder
  IN /\ poll[p].pc = "read"
     /\ poll' = [poll EXCEPT ![p].pc = "injecting",
                             ![p].lines = LinesOf(poll[p].gen, from, kept, poll[p].size)]
     /\ offset' = poll[p].size
     /\ remainder' = 0
     /\ UNCHANGED <<gen, size, thread, tstopping, delivered, lost, crossed>>

\* Mutant: a read takes the whole file, whatever was consumed before.
TakeLinesFromStart(p) ==
  /\ poll[p].pc = "read"
  /\ poll' = [poll EXCEPT ![p].pc = "injecting",
                          ![p].lines = LinesOf(poll[p].gen, 0, 0, poll[p].size)]
  /\ offset' = poll[p].size
  /\ remainder' = poll[p].size % 2
  /\ UNCHANGED <<gen, size, thread, tstopping, delivered, lost, crossed>>

TakeLines(p) ==
  LET shrunk == offset > poll[p].size
      from   == IF shrunk THEN 0 ELSE offset
      kept   == IF shrunk THEN 0 ELSE remainder
  IN /\ poll[p].pc = "read"
     /\ poll' = [poll EXCEPT ![p].pc = "injecting",
                             ![p].lines = LinesOf(poll[p].gen, from, kept, poll[p].size)]
     /\ offset' = poll[p].size
     /\ remainder' = IF poll[p].size = from THEN kept ELSE poll[p].size % 2
     /\ UNCHANGED <<gen, size, thread, tstopping, delivered, lost, crossed>>

inject_event(p) ==
  /\ poll[p].pc = "injecting" /\ poll[p].lines # <<>>
  /\ poll' = [poll EXCEPT ![p].lines = Tail(@)]
  /\ delivered' = Append(delivered, Head(poll[p].lines))
  /\ UNCHANGED <<gen, size, offset, remainder, thread, tstopping, lost, crossed>>

\* Decoding or answering fails: the poll ends and the lines behind are dropped.
InjectFails(p) ==
  /\ poll[p].pc = "injecting" /\ poll[p].lines # <<>>
  /\ EndPoll(p, FALSE)
  /\ lost' = lost \cup {poll[p].lines[i] : i \in DOMAIN poll[p].lines}
  /\ UNCHANGED <<gen, size, offset, remainder, tstopping, delivered, crossed>>

PollDone(p) ==
  /\ poll[p].pc = "injecting" /\ poll[p].lines = <<>>
  /\ EndPoll(p, TRUE)
  /\ UNCHANGED <<gen, size, offset, remainder, tstopping, delivered, lost, crossed>>

PollStep(p) ==
  ReadFile(p) \/ ReadFails(p) \/ TakeLines(p) \/ inject_event(p) \/ InjectFails(p) \/ PollDone(p)

ThreadStep == PollFromThread \/ PollStep("thread")

----------------------------------------------------------------------------
(* Starting and stopping the thread.                                         *)

TriggerStart ==
  /\ thread = "none"
  /\ thread' = "top"
  /\ UNCHANGED <<gen, size, offset, remainder, poll, tstopping, delivered, lost, crossed>>

----------------------------------------------------------------------------

Pending(p) == {poll[p].lines[i] : i \in DOMAIN poll[p].lines}

\* No line of a file that is only appended to is skipped: what poll_file_tail
\* has moved its offset past was delivered, waits in a poll, or was given up
\* when an injection failed, however two polls interleave.
NoLineSkipped ==
  gen = 0 => \A k \in 1..(offset \div 2) :
    \/ \E i \in DOMAIN delivered : delivered[i] = <<0, k>>
    \/ <<0, k>> \in lost
    \/ \E p \in Pollers : <<0, k>> \in Pending(p)

\* As long as polls do not cross and the file is only appended to, every line
\* is delivered at most once and in the file's order.
DeliveredInOrder ==
  (gen = 0 /\ ~crossed) =>
    \A i, j \in DOMAIN delivered : i < j => delivered[i][2] < delivered[j][2]
=============================================================================
