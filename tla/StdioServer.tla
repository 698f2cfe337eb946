----------------------------- MODULE StdioServer -----------------------------
(***************************************************************************)
(* The MCP stdio lifetime adapter, StdioServer::serve of                    *)
(* sim-lib-mcp-stdio: one serve thread that reads frames, one writer thread *)
(* behind a bounded channel, and one worker thread for each admitted        *)
(* request.                                                                 *)
(*                                                                          *)
(* A frame is known by its ordinal, the value of messages_read when it was  *)
(* admitted; the worker spawned for a frame has the same number.  The map   *)
(* key of a request ("s:"... or "n:"...) is an injective rendering of its   *)
(* wire id, so active is indexed by the wire id itself.  Payloads are left  *)
(* out: a reply is the frame it answers and its position in that answer.    *)
(***************************************************************************)
EXTENDS Naturals, Sequences, FiniteSets

CONSTANTS
    Ids,            \* wire request ids
    QueueDepth,     \* ServerOptions.write_queue_depth
    MaxFrames,      \* bound on the frames one lifetime reads
    MaxValues,      \* bound on the values one dispatch returns
    LegacyEnabled   \* ServerOptions.legacy = LegacyMode::Enabled

ASSUME IdsAssumption == Ids # {}
ASSUME QueueAssumption == QueueDepth \in Nat \ {0}
ASSUME BoundAssumption == MaxFrames \in Nat /\ MaxValues \in Nat \ {0}
ASSUME LegacyAssumption == LegacyEnabled \in BOOLEAN

VARIABLES
    pc,                     \* where the serve thread is
    framed,                 \* result of the last framer.read, until it is handled
    active,                 \* BTreeMap<key, Cancellation>: the worker owning the token
    cancelled,              \* workers whose Cancellation was fired
    worker,                 \* worker[w]: state of the thread spawned for frame w
    reqId,                  \* reqId[w]: the id worker w serves
    pending,                \* pending[w]: values worker w has still to enqueue
    done,                   \* completion channel, (worker, write_result)
    queue,                  \* the bounded write channel
    writing,                \* the value the writer thread took from the channel
    writer,                 \* state of the writer thread
    written,                \* values written to stdout
    messages_read,
    unknown_cancellations,
    terminal_error,
    result,                 \* what serve returned
    owed                    \* history: values owed in answer to each frame

vars == <<pc, framed, active, cancelled, worker, reqId, pending, done, queue,
          writing, writer, written, messages_read, unknown_cancellations,
          terminal_error, result, owed>>

reader == <<pc, framed, active, messages_read, unknown_cancellations,
            terminal_error, result>>
threads == <<worker, reqId, pending, done, owed>>
output == <<queue, writing, writer, written>>

Frames == 1..MaxFrames
NoWorker == 0
NoFrame == [kind |-> "none"]

Requests == [kind : {"request"}, id : Ids, legacy : BOOLEAN]
Cancels == [kind : {"cancel"}, id : Ids]
\* A frame without an id that is not a cancellation; a clean EOF; a frame the
\* framer rejects.
Others == [kind : {"notification", "eof", "bad"}]
Input == Requests \cup Cancels \cup Others

Reply(f, kind, part) == [frame |-> f, kind |-> kind, part |-> part]
Replies == [frame : Frames, kind : {"value", "duplicate", "legacy"},
            part : 1..MaxValues]

Live(w) == worker[w] \in {"dispatching", "sending"}
Over(w) == worker[w] \in {"unborn", "finished", "panicked"}

-----------------------------------------------------------------------------
Init ==
    /\ pc = "drain" /\ framed = NoFrame
    /\ active = [i \in Ids |-> NoWorker] /\ cancelled = {}
    /\ worker = [w \in Frames |-> "unborn"]
    /\ reqId = [w \in Frames |-> CHOOSE i \in Ids : TRUE]
    /\ pending = [w \in Frames |-> 0] /\ owed = [w \in Frames |-> 0]
    /\ done = <<>> /\ queue = <<>> /\ writing = <<>>
    /\ writer = "running" /\ written = <<>>
    /\ messages_read = 0 /\ unknown_cancellations = 0
    /\ terminal_error = "none" /\ result = "none"

\* One drain takes n completions: all of them, or up to the first failed one.
Drained(d, n) ==
    /\ \A m \in 1..(n - 1) : d[m].ok
    /\ n # Len(d) => n > 0 /\ ~d[n].ok

Released(d, n) == {reqId[d[m].w] : m \in 1..n}

\* drain_worker_completions: release the ids of the completions taken.
Drain(d) ==
    \E n \in 0..Len(d) :
        /\ Drained(d, n)
        /\ active' = [i \in Ids |-> IF i \in Released(d, n) THEN NoWorker ELSE active[i]]
        /\ done' = SubSeq(d, n + 1, Len(d))

DrainFails(d) == \E n \in DOMAIN d : ~d[n].ok

\* The two drains of the loop, before and after the blocking read.
DrainInLoop ==
    /\ pc \in {"drain", "redrain"}
    /\ Drain(done)
    /\ IF DrainFails(done)
       THEN pc' = "teardown" /\ terminal_error' = "broken_pipe"
       ELSE /\ pc' = IF pc = "drain" THEN "read" ELSE "handle"
            /\ UNCHANGED terminal_error
    /\ UNCHANGED <<framed, cancelled, worker, reqId, pending, owed, output,
                   messages_read, unknown_cancellations, result>>

\* framer.read returns: a message, EOF or a rejected frame.
Read(m) ==
    /\ pc = "read"
    /\ m \in Requests \cup Cancels => messages_read < MaxFrames
    /\ m.kind = "notification" => messages_read < MaxFrames
    /\ framed' = m /\ pc' = "redrain"
    /\ UNCHANGED <<active, cancelled, threads, output, messages_read,
                   unknown_cancellations, terminal_error, result>>

\* The frame ends the loop.
LeaveLoop ==
    /\ pc = "handle" /\ framed.kind \in {"eof", "bad"}
    /\ pc' = "teardown"
    /\ terminal_error' = IF framed.kind = "bad" THEN "frame" ELSE terminal_error
    /\ UNCHANGED <<framed, active, cancelled, threads, output, messages_read,
                   unknown_cancellations, result>>


\* Mutant: a cancellation fires every token.
HandleCancelFiringAll ==
    /\ pc = "handle" /\ framed.kind = "cancel"
    /\ messages_read' = messages_read + 1
    /\ cancelled' = cancelled \cup ({active[i] : i \in Ids} \ {NoWorker})
    /\ pc' = "drain" /\ framed' = NoFrame
    /\ UNCHANGED <<active, threads, output, unknown_cancellations,
                   terminal_error, result>>

HandleCancel ==
    /\ pc = "handle" /\ framed.kind = "cancel"
    /\ messages_read' = messages_read + 1
    /\ LET w == active[framed.id] IN
       IF w # NoWorker
       THEN cancelled' = cancelled \cup {w} /\ UNCHANGED unknown_cancellations
       ELSE unknown_cancellations' = unknown_cancellations + 1 /\ UNCHANGED cancelled
    /\ pc' = "drain" /\ framed' = NoFrame
    /\ UNCHANGED <<active, threads, output, terminal_error, result>>

HandleNotification ==
    /\ pc = "handle" /\ framed.kind = "notification"
    /\ messages_read' = messages_read + 1
    /\ pc' = "drain" /\ framed' = NoFrame
    /\ UNCHANGED <<active, cancelled, threads, output,
                   unknown_cancellations, terminal_error, result>>

\* A request the serve thread answers itself, blocking while the write queue is
\* full.  Only the duplicate branch records an error when the writer is gone.
Refuse(kind, error) ==
    /\ messages_read' = messages_read + 1
    /\ \/ /\ writer = "running" /\ Len(queue) < QueueDepth
          /\ queue' = Append(queue, Reply(messages_read', kind, 1))
          /\ pc' = "drain" /\ UNCHANGED terminal_error
       \/ /\ writer # "running"
          /\ pc' = "teardown" /\ terminal_error' = error /\ UNCHANGED queue
    /\ framed' = NoFrame
    /\ owed' = [owed EXCEPT ![messages_read'] = 1]
    /\ UNCHANGED <<active, cancelled, worker, reqId, pending, done,
                   writing, writer, written, unknown_cancellations, result>>

RefuseDuplicate ==
    /\ pc = "handle" /\ framed.kind = "request" /\ active[framed.id] # NoWorker
    /\ Refuse("duplicate", "broken_pipe")

RefuseLegacy ==
    /\ pc = "handle" /\ framed.kind = "request" /\ active[framed.id] = NoWorker
    /\ framed.legacy /\ ~LegacyEnabled
    /\ Refuse("legacy", terminal_error)


\* Mutant: the duplicate check is missing.
AdmitDuplicates ==
    /\ pc = "handle" /\ framed.kind = "request"
    /\ messages_read' = messages_read + 1
    /\ active' = [active EXCEPT ![framed.id] = messages_read']
    /\ worker' = [worker EXCEPT ![messages_read'] = "dispatching"]
    /\ reqId' = [reqId EXCEPT ![messages_read'] = framed.id]
    /\ pc' = "drain" /\ framed' = NoFrame
    /\ UNCHANGED <<cancelled, pending, done, owed, output,
                   unknown_cancellations, terminal_error, result>>

Admit ==
    /\ pc = "handle" /\ framed.kind = "request" /\ active[framed.id] = NoWorker
    /\ framed.legacy => LegacyEnabled
    /\ messages_read' = messages_read + 1
    /\ active' = [active EXCEPT ![framed.id] = messages_read']
    /\ worker' = [worker EXCEPT ![messages_read'] = "dispatching"]
    /\ reqId' = [reqId EXCEPT ![messages_read'] = framed.id]
    /\ pc' = "drain" /\ framed' = NoFrame
    /\ UNCHANGED <<cancelled, pending, done, owed, output,
                   unknown_cancellations, terminal_error, result>>


\* Mutant: the running requests are not told that the lifetime ended.
CancelNone ==
    /\ pc = "teardown"
    /\ pc' = "join"
    /\ UNCHANGED <<framed, active, cancelled, threads, output, messages_read,
                   unknown_cancellations, terminal_error, result>>

CancelAll ==
    /\ pc = "teardown"
    /\ cancelled' = cancelled \cup ({active[i] : i \in Ids} \ {NoWorker})
    /\ pc' = "join"
    /\ UNCHANGED <<framed, active, threads, output, messages_read,
                   unknown_cancellations, terminal_error, result>>

\* Join every worker, take the completions that are left, drop the last sender.
JoinWorkers ==
    /\ pc = "join" /\ \A w \in Frames : Over(w)
    /\ Drain(done)
    /\ terminal_error' =
         IF terminal_error # "none" THEN terminal_error
         ELSE IF \E w \in Frames : worker[w] = "panicked" THEN "panicked"
         ELSE IF DrainFails(done) THEN "broken_pipe"
         ELSE "none"
    /\ pc' = "join_writer"
    /\ UNCHANGED <<framed, cancelled, worker, reqId, pending, owed, output,
                   messages_read, unknown_cancellations, result>>


\* Mutant: the writer's own error is dropped.
ReturnIgnoringWriter ==
    /\ pc = "join_writer" /\ writer # "running"
    /\ result' = IF terminal_error # "none" THEN terminal_error ELSE "ok"
    /\ pc' = "returned"
    /\ UNCHANGED <<framed, active, cancelled, threads, output, messages_read,
                   unknown_cancellations, terminal_error>>

\* A writer error is returned before any recorded terminal error.
Return ==
    /\ pc = "join_writer" /\ writer # "running"
    /\ result' = IF writer = "failed" THEN "writer"
                 ELSE IF terminal_error # "none" THEN terminal_error ELSE "ok"
    /\ pc' = "returned"
    /\ UNCHANGED <<framed, active, cancelled, threads, output, messages_read,
                   unknown_cancellations, terminal_error>>

-----------------------------------------------------------------------------

\* Mutant: the completion is sent before the values are enqueued.
DispatchReturnsReportingFirst(w) ==
    /\ worker[w] = "dispatching"
    /\ \E n \in 0..MaxValues :
         /\ pending' = [pending EXCEPT ![w] = n]
         /\ owed' = [owed EXCEPT ![w] = n]
    /\ worker' = [worker EXCEPT ![w] = "sending"]
    /\ done' = Append(done, [w |-> w, ok |-> TRUE])
    /\ UNCHANGED <<reader, cancelled, reqId, output>>

\* A worker thread.  A dispatch error becomes one error value.
DispatchReturns(w) ==
    /\ worker[w] = "dispatching"
    /\ \E n \in 0..MaxValues :
         /\ pending' = [pending EXCEPT ![w] = n]
         /\ owed' = [owed EXCEPT ![w] = n]
    /\ worker' = [worker EXCEPT ![w] = "sending"]
    /\ UNCHANGED <<reader, cancelled, reqId, done, output>>

\* The thread unwinds without reporting a completion.
DispatchPanics(w) ==
    /\ worker[w] = "dispatching"
    /\ worker' = [worker EXCEPT ![w] = "panicked"]
    /\ UNCHANGED <<reader, cancelled, reqId, pending, owed, done, output>>

Report(w, ok) ==
    /\ done' = Append(done, [w |-> w, ok |-> ok])
    /\ worker' = [worker EXCEPT ![w] = "finished"]

\* enqueue_result: one blocking send per value, then the completion.
EnqueueValue(w) ==
    /\ worker[w] = "sending" /\ pending[w] > 0
    /\ writer = "running" /\ Len(queue) < QueueDepth
    /\ queue' = Append(queue, Reply(w, "value", owed[w] - pending[w] + 1))
    /\ pending' = [pending EXCEPT ![w] = @ - 1]
    /\ UNCHANGED <<reader, cancelled, worker, reqId, done, owed, writing,
                   writer, written>>


\* Mutant: a send to a writer that has failed is never refused.
EnqueueNeverFails(w) ==
    /\ worker[w] = "sending" /\ pending[w] > 0 /\ writer = "finished"
    /\ Report(w, FALSE)
    /\ UNCHANGED <<reader, cancelled, reqId, pending, owed, output>>

EnqueueFails(w) ==
    /\ worker[w] = "sending" /\ pending[w] > 0 /\ writer # "running"
    /\ Report(w, FALSE)
    /\ UNCHANGED <<reader, cancelled, reqId, pending, owed, output>>

ReportDone(w) ==
    /\ worker[w] = "sending" /\ pending[w] = 0
    /\ Report(w, TRUE)
    /\ UNCHANGED <<reader, cancelled, reqId, pending, owed, output>>

-----------------------------------------------------------------------------
\* The writer thread.
WriterTakes ==
    /\ writer = "running" /\ writing = <<>> /\ queue # <<>>
    /\ writing' = <<Head(queue)>> /\ queue' = Tail(queue)
    /\ UNCHANGED <<reader, cancelled, threads, writer, written>>

WriterWrites ==
    /\ writer = "running" /\ writing # <<>>
    /\ written' = Append(written, Head(writing)) /\ writing' = <<>>
    /\ UNCHANGED <<reader, cancelled, threads, queue, writer>>

\* The write fails (I/O or frame too large): the thread ends, the receiver is
\* dropped with whatever it holds.
WriterFails ==
    /\ writer = "running" /\ writing # <<>>
    /\ writer' = "failed" /\ writing' = <<>> /\ queue' = <<>>
    /\ UNCHANGED <<reader, cancelled, threads, written>>

SendersDropped == pc \in {"join_writer", "returned"}

\* The channel is disconnected and empty: the final flush.
WriterEnds ==
    /\ writer = "running" /\ writing = <<>> /\ queue = <<>> /\ SendersDropped
    /\ writer' \in {"finished", "failed"}
    /\ UNCHANGED <<reader, cancelled, threads, queue, writing, written>>

Terminated == pc = "returned" /\ UNCHANGED vars

-----------------------------------------------------------------------------
Serve ==
    \/ DrainInLoop \/ LeaveLoop \/ HandleCancel \/ HandleNotification
    \/ RefuseDuplicate \/ RefuseLegacy \/ Admit
    \/ CancelAll \/ JoinWorkers \/ Return

Work(w) ==
    \/ EnqueueValue(w) \/ EnqueueFails(w) \/ ReportDone(w)

Write == WriterTakes \/ WriterWrites \/ WriterEnds

Next ==
    \/ Serve
    \/ \E m \in Input : Read(m)
    \/ \E w \in Frames : DispatchReturns(w) \/ DispatchPanics(w) \/ Work(w)
    \/ Write \/ WriterFails
    \/ Terminated

\* The scheduler runs every thread that can run.  The peer is under no
\* obligation: Read is not fair.  A dispatch is only assumed to return once its
\* token is cancelled, which is what Dispatch::dispatch asks of implementations.
\* Stdout accepts writes or fails them, it does not block for ever.
Fairness ==
    /\ WF_vars(Serve)
    /\ WF_vars(Write)
    /\ \A w \in Frames :
         /\ WF_vars(Work(w))
         /\ WF_vars(w \in cancelled /\ DispatchReturns(w))

Spec == Init /\ [][Next]_vars
FairSpec == Spec /\ Fairness

-----------------------------------------------------------------------------
TypeOK ==
    /\ pc \in {"drain", "read", "redrain", "handle", "teardown", "join",
               "join_writer", "returned"}
    /\ framed \in Input \cup {NoFrame}
    /\ active \in [Ids -> Frames \cup {NoWorker}]
    /\ cancelled \in SUBSET Frames
    /\ worker \in [Frames -> {"unborn", "dispatching", "sending", "finished", "panicked"}]
    /\ reqId \in [Frames -> Ids]
    /\ pending \in [Frames -> 0..MaxValues]
    /\ owed \in [Frames -> 0..MaxValues]
    /\ done \in Seq([w : Frames, ok : BOOLEAN])
    /\ queue \in Seq(Replies) /\ Len(queue) <= QueueDepth
    /\ writing \in Seq(Replies) /\ Len(writing) <= 1
    /\ writer \in {"running", "failed", "finished"}
    /\ written \in Seq(Replies)
    /\ messages_read \in 0..MaxFrames
    /\ unknown_cancellations \in 0..messages_read
    /\ terminal_error \in {"none", "broken_pipe", "frame", "panicked"}
    /\ result \in {"none", "ok", "writer", "broken_pipe", "frame", "panicked"}

\* Live ids are unique: while a worker runs, the map holds its token under its
\* id, so no second worker for that id is spawned and a cancellation for the id
\* finds this worker.  It rests on the order enqueue_result, done.send.
LiveIdsUnique ==
    \A w \in Frames : Live(w) => active[reqId[w]] = w

\* A cancellation frame fires the token of the live request it names and of no
\* other live request (active.get in serve).
CancellationReachesOnlyItsRequest ==
    [][ (pc = "handle" /\ framed.kind = "cancel" /\ pc' = "drain") =>
          \A w \in Frames : Live(w) =>
            (w \in cancelled' <=> (w \in cancelled \/ reqId[w] = framed.id)) ]_vars

\* The answers to two requests that reuse an id never interleave on stdout: all
\* values of the earlier request come first, in the order dispatch gave them.
\* A worker reports completion, which frees its id, only after its last send.
Outgoing == written \o writing \o queue

AnswersOfAnIdInOrder ==
    \A m, n \in DOMAIN Outgoing :
        LET a == Outgoing[m]  b == Outgoing[n] IN
        (m < n /\ a.kind = "value" /\ b.kind = "value" /\ reqId[a.frame] = reqId[b.frame])
          => (a.frame < b.frame \/ (a.frame = b.frame /\ a.part < b.part))

\* serve returns Ok only if every answer owed, to dispatched and to refused
\* requests alike, was written in full: a lost write, a worker that panicked or
\* a completion that failed always surfaces as an error.
Answers(f) == {n \in DOMAIN written : written[n].frame = f}

CleanReturnIsComplete ==
    result = "ok" =>
        /\ \A w \in Frames : worker[w] \in {"unborn", "finished"}
        /\ \A f \in Frames : Cardinality(Answers(f)) = owed[f]
        /\ \A i \in Ids : active[i] = NoWorker

\* Clean EOF or a rejected frame ends the lifetime: running requests are
\* cancelled, their threads and the writer are joined, and serve returns.
InputEndLeadsToReturn ==
    (framed.kind \in {"eof", "bad"}) ~> (pc = "returned")

\* A worker whose dispatch returned is never stuck behind the bounded write
\* queue: it enqueues its values or learns that the writer is gone.
SendingLeadsToCompletion ==
    \A w \in Frames : (worker[w] = "sending") ~> (worker[w] = "finished")

\* serve as an adapter of RequestLifetimes: a request runs from the spawn of its
\* worker to the report of its completion, and the lifetime closes when the
\* loop is left.
Abstract == INSTANCE RequestLifetimes WITH
    Requests <- Frames,
    phase <- [w \in Frames |-> IF Live(w) THEN "running"
                               ELSE IF worker[w] = "unborn" THEN "new" ELSE "over"],
    id <- reqId,
    closing <- pc \in {"teardown", "join", "join_writer", "returned"}

ImplementsRequestLifetimes == Abstract!AFairSpec

\* The crate's README: "EOF and write failure cancel all still-active work."
WriteFailureCancelsActiveWork ==
    \A w \in Frames :
        (writer = "failed" /\ Live(w)) ~> (w \in cancelled \/ ~Live(w))
=============================================================================
