-------------------------- MODULE StdioServerProofs --------------------------
(***************************************************************************)
(* Type correctness of StdioServer and uniqueness of its live ids, for any  *)
(* set of ids, queue depth and number of frames.                            *)
(***************************************************************************)
EXTENDS StdioServer, SequenceTheorems, TLAPS

\* A frame that counts is handled only while the frame bound leaves room for it.
FrameFits ==
    pc \in {"redrain", "handle"} /\ framed.kind \notin {"eof", "bad"}
        => messages_read < MaxFrames

\* Workers are spawned in frame order, so the next frame's worker is new.
SpawnedByRead ==
    \A w \in Frames : worker[w] # "unborn" => w <= messages_read

\* A worker never has more values to send than it owes.
PendingBelowOwed ==
    \A w \in Frames :
        /\ pending[w] <= owed[w]
        /\ worker[w] = "unborn" => pending[w] = 0

\* A completion that was not drained yet still holds its id in the map.
CompletionsHoldIds ==
    \A n \in DOMAIN done :
        /\ worker[done[n].w] = "finished"
        /\ active[reqId[done[n].w]] = done[n].w

\* A worker reports its completion once.
CompletionsDistinct ==
    \A m, n \in DOMAIN done : done[m].w = done[n].w => m = n

\* A token is kept under the id of the request it was made for.
TokensUnderTheirIds ==
    \A i \in Ids : active[i] # NoWorker =>
        reqId[active[i]] = i /\ worker[active[i]] # "unborn"

IdsInv ==
    /\ CompletionsHoldIds
    /\ CompletionsDistinct
    /\ TokensUnderTheirIds
    /\ LiveIdsUnique

IndInv == TypeOK /\ FrameFits /\ SpawnedByRead /\ PendingBelowOwed /\ IdsInv

-----------------------------------------------------------------------------
\* What a handled frame carries, by its kind (framer.read, request_id,
\* cancellation_id).
LEMMA FramedFields ==
    ASSUME framed \in Input \cup {NoFrame}
    PROVE  /\ framed.kind \in {"request", "cancel"} => framed.id \in Ids
           /\ framed.kind = "request" => framed.legacy \in BOOLEAN
BY DEF Input, Requests, Cancels, Others, NoFrame

\* What is left of a channel after n of its messages were taken
\* (the try_recv loop of drain_worker_completions).
LEMMA SuffixOf ==
    ASSUME NEW S, NEW d \in Seq(S), NEW n \in 0..Len(d)
    PROVE  /\ SubSeq(d, n + 1, Len(d)) \in Seq(S)
           /\ Len(SubSeq(d, n + 1, Len(d))) = Len(d) - n
           /\ \A k \in 1..(Len(d) - n) : SubSeq(d, n + 1, Len(d))[k] = d[k + n]
<1> DEFINE rest == SubSeq(d, n + 1, Len(d))
<1>1. Len(d) \in Nat /\ n \in Nat /\ n <= Len(d)
  OBVIOUS
<1>2. \A k \in (n + 1)..Len(d) : d[k] \in S
  BY <1>1, ElementOfSeq
<1>3. rest = [k \in 1..(Len(d) - n) |-> d[k + n]]
  BY <1>1
<1>4. rest \in Seq(S) /\ Len(rest) = Len(d) - n
  BY <1>1, <1>2, <1>3, Z3
<1> QED BY <1>3, <1>4

THEOREM InitIndInv == Init => IndInv
<1> SUFFICES ASSUME Init PROVE IndInv
  OBVIOUS
<1>1. reqId \in [Frames -> Ids]
  BY IdsAssumption DEF Init
<1>2. framed \in Input \cup {NoFrame} /\ active \in [Ids -> Frames \cup {NoWorker}]
  BY DEF Init
<1>3. /\ worker \in [Frames -> {"unborn", "dispatching", "sending", "finished", "panicked"}]
      /\ pending \in [Frames -> 0..MaxValues] /\ owed \in [Frames -> 0..MaxValues]
  BY BoundAssumption DEF Init
<1>4. /\ done \in Seq([w : Frames, ok : BOOLEAN]) /\ queue \in Seq(Replies)
      /\ writing \in Seq(Replies) /\ written \in Seq(Replies)
      /\ Len(queue) <= QueueDepth /\ Len(writing) <= 1
  BY QueueAssumption DEF Init
<1>5. TypeOK
  BY <1>1, <1>2, <1>3, <1>4, BoundAssumption DEF Init, TypeOK
<1> QED BY <1>5 DEF Init, IndInv, FrameFits, SpawnedByRead, PendingBelowOwed,
       IdsInv, CompletionsHoldIds, CompletionsDistinct, TokensUnderTheirIds,
       LiveIdsUnique, Live

\* Every step keeps the channels and the tables in their types.
LEMMA NextTypeOK == IndInv /\ [Next]_vars => TypeOK'
<1> SUFFICES ASSUME IndInv, [Next]_vars PROVE TypeOK'
  OBVIOUS
<1> USE QueueAssumption, BoundAssumption, LegacyAssumption
<1>0. TypeOK /\ FrameFits /\ PendingBelowOwed
  BY DEF IndInv
<1>a. \A i \in Ids : active[i] \in Frames \cup {NoWorker}
  BY <1>0 DEF TypeOK
<1>b. \A f \in Frames, k \in {"value", "duplicate", "legacy"}, q \in 1..MaxValues :
        Reply(f, k, q) \in Replies
  BY DEF Reply, Replies
<1>c. ASSUME Drain(done)
      PROVE  /\ active' \in [Ids -> Frames \cup {NoWorker}]
             /\ done' \in Seq([w : Frames, ok : BOOLEAN])
  <2>1. PICK n \in 0..Len(done) :
          /\ active' = [i \in Ids |-> IF i \in Released(done, n) THEN NoWorker ELSE active[i]]
          /\ done' = SubSeq(done, n + 1, Len(done))
    BY <1>c DEF Drain
  <2>2. done \in Seq([w : Frames, ok : BOOLEAN])
    BY <1>0 DEF TypeOK
  <2>3. done' \in Seq([w : Frames, ok : BOOLEAN])
    BY <2>1, <2>2, SuffixOf
  <2> QED BY <2>1, <2>3, <1>a
<1>1. CASE DrainInLoop
  BY <1>0, <1>1, <1>c DEF DrainInLoop, TypeOK, output
<1>2. CASE \E m \in Input : Read(m)
  BY <1>0, <1>2, SMTT(30) DEF Read, TypeOK, output, threads
<1>3. CASE LeaveLoop
  BY <1>0, <1>3 DEF LeaveLoop, TypeOK, output, threads
<1>4. CASE HandleCancel
  <2>1. messages_read < MaxFrames /\ framed.id \in Ids
    BY <1>0, <1>4, FramedFields DEF HandleCancel, FrameFits, TypeOK
  <2>2. cancelled' \in SUBSET Frames
    BY <1>0, <1>4, <2>1, <1>a DEF HandleCancel, TypeOK
  <2>3. messages_read' \in 0..MaxFrames /\ unknown_cancellations' \in 0..messages_read'
    BY <1>0, <1>4, <2>1 DEF HandleCancel, TypeOK
  <2>4. pc' = "drain" /\ framed' = NoFrame
        /\ UNCHANGED <<active, threads, output, terminal_error, result>>
    BY <1>4 DEF HandleCancel
  <2> QED BY <1>0, <2>2, <2>3, <2>4 DEF TypeOK, output, threads
<1>5. CASE HandleNotification
  <2>1. messages_read < MaxFrames
    BY <1>0, <1>5 DEF HandleNotification, FrameFits, TypeOK
  <2> QED BY <1>0, <1>5, <2>1 DEF HandleNotification, TypeOK, output, threads
<1>6. ASSUME NEW k \in {"duplicate", "legacy"},
             NEW e \in {"none", "broken_pipe", "frame", "panicked"},
             pc = "handle", framed.kind = "request", Refuse(k, e)
      PROVE  TypeOK'
  <2>1. messages_read' = messages_read + 1 /\ messages_read' \in Frames
    BY <1>0, <1>6 DEF Refuse, FrameFits, TypeOK, Frames
  <2>r. Reply(messages_read', k, 1) \in Replies
    BY <1>b, <2>1
  <2>2. queue' \in Seq(Replies) /\ Len(queue') <= QueueDepth
    <3>1. \/ Len(queue) < QueueDepth /\ queue' = Append(queue, Reply(messages_read', k, 1))
          \/ queue' = queue
      BY <1>6 DEF Refuse
    <3>2. queue \in Seq(Replies) /\ Len(queue) \in Nat /\ Len(queue) <= QueueDepth
      BY <1>0 DEF TypeOK
    <3>3. CASE queue' = queue
      BY <3>2, <3>3
    <3>4. CASE /\ Len(queue) < QueueDepth
               /\ queue' = Append(queue, Reply(messages_read', k, 1))
      BY <2>r, <3>2, <3>4, AppendProperties
    <3> QED BY <3>1, <3>3, <3>4
  <2>p. pc' \in {"drain", "teardown"} /\ terminal_error' \in {terminal_error, e}
        /\ framed' = NoFrame
    BY <1>6 DEF Refuse
  <2>u. UNCHANGED <<active, cancelled, worker, reqId, pending, done,
                    writing, writer, written, unknown_cancellations, result>>
    BY <1>6 DEF Refuse
  <2>3. owed' \in [Frames -> 0..MaxValues]
    BY <1>0, <1>6, <2>1 DEF Refuse, TypeOK
  <2>4. messages_read' \in 0..MaxFrames /\ unknown_cancellations' \in 0..messages_read'
    BY <1>0, <2>1, <2>u DEF TypeOK, Frames
  <2>5. /\ pc' \in {"drain", "teardown"} /\ framed' \in Input \cup {NoFrame}
        /\ terminal_error' \in {"none", "broken_pipe", "frame", "panicked"}
    BY <1>0, <2>p DEF TypeOK
  <2> QED BY <1>0, <2>2, <2>3, <2>4, <2>5, <2>u DEF TypeOK
<1>7. CASE RefuseDuplicate
  BY <1>6, <1>7 DEF RefuseDuplicate
<1>8. CASE RefuseLegacy
  BY <1>0, <1>6, <1>8 DEF RefuseLegacy, TypeOK
<1>9. CASE Admit
  <2>1. messages_read' = messages_read + 1 /\ messages_read' \in Frames /\ framed.id \in Ids
    BY <1>0, <1>9, FramedFields DEF Admit, FrameFits, TypeOK, Frames
  <2>2. /\ active' \in [Ids -> Frames \cup {NoWorker}] /\ reqId' \in [Frames -> Ids]
        /\ worker' \in [Frames -> {"unborn", "dispatching", "sending", "finished", "panicked"}]
    BY <1>0, <1>9, <2>1 DEF Admit, TypeOK
  <2>3. messages_read' \in 0..MaxFrames /\ unknown_cancellations' \in 0..messages_read'
    BY <1>0, <1>9, <2>1 DEF Admit, TypeOK, Frames
  <2>4. /\ pc' = "drain" /\ framed' = NoFrame
        /\ UNCHANGED <<cancelled, pending, done, owed, output, terminal_error, result>>
    BY <1>9 DEF Admit
  <2> QED BY <1>0, <2>2, <2>3, <2>4 DEF TypeOK, output
<1>10. CASE CancelAll
  BY <1>0, <1>10, <1>a, SMTT(30) DEF CancelAll, TypeOK, threads, output
<1>11. CASE JoinWorkers
  BY <1>0, <1>11, <1>c DEF JoinWorkers, TypeOK, output
<1>12. CASE Return
  BY <1>0, <1>12 DEF Return, TypeOK, output, threads
<1>13. ASSUME NEW w \in Frames, DispatchReturns(w) \/ DispatchPanics(w) \/ Work(w)
       PROVE  TypeOK'
  <2>1. CASE DispatchReturns(w)
    BY <1>0, <2>1, SMTT(30) DEF DispatchReturns, TypeOK, reader, output
  <2>2. CASE DispatchPanics(w)
    <3>1. /\ worker' = [worker EXCEPT ![w] = "panicked"]
          /\ UNCHANGED <<reader, cancelled, reqId, pending, owed, done, output>>
      BY <2>2 DEF DispatchPanics
    <3>2. worker' \in [Frames -> {"unborn", "dispatching", "sending", "finished", "panicked"}]
      BY <1>0, <3>1 DEF TypeOK
    <3> QED BY <1>0, <3>1, <3>2 DEF TypeOK, reader, output
  <2>3. CASE EnqueueValue(w)
    <3>1. pending[w] \in 1..MaxValues /\ owed[w] \in 0..MaxValues /\ pending[w] <= owed[w]
      BY <1>0, <2>3 DEF EnqueueValue, TypeOK, PendingBelowOwed
    <3>2. owed[w] - pending[w] + 1 \in 1..MaxValues
      BY <3>1
    <3>3. queue' \in Seq(Replies) /\ Len(queue') <= QueueDepth
      BY <1>0, <2>3, <1>b, <3>2 DEF EnqueueValue, TypeOK
    <3>4. /\ pending' = [pending EXCEPT ![w] = pending[w] - 1]
          /\ UNCHANGED <<reader, cancelled, worker, reqId, owed, done, writing, writer, written>>
      BY <2>3 DEF EnqueueValue
    <3>5. pending' \in [Frames -> 0..MaxValues]
      BY <1>0, <3>1, <3>4 DEF TypeOK
    <3> QED BY <1>0, <3>3, <3>4, <3>5 DEF TypeOK, reader
  <2>4. ASSUME NEW ok \in BOOLEAN, Report(w, ok),
               UNCHANGED <<reader, cancelled, reqId, pending, owed, output>>
        PROVE  TypeOK'
    <3>1. done' \in Seq([w : Frames, ok : BOOLEAN])
      BY <1>0, <2>4 DEF Report, TypeOK
    <3> QED BY <1>0, <2>4, <3>1 DEF Report, TypeOK, reader, output
  <2> QED BY <1>13, <2>1, <2>2, <2>3, <2>4 DEF Work, EnqueueFails, ReportDone
<1>14. CASE WriterTakes
  BY <1>0, <1>14, HeadTailProperties, SMTT(30) DEF WriterTakes, TypeOK, reader, threads
<1>15. CASE WriterWrites
  BY <1>0, <1>15, HeadTailProperties, SMTT(30) DEF WriterWrites, TypeOK, reader, threads
<1>16. CASE WriterFails
  BY <1>0, <1>16 DEF WriterFails, TypeOK, reader, threads
<1>17. CASE WriterEnds
  BY <1>0, <1>17 DEF WriterEnds, TypeOK, reader, threads
<1>18. CASE UNCHANGED vars
  BY <1>0, <1>18 DEF vars, TypeOK
<1> QED
  BY <1>1, <1>2, <1>3, <1>4, <1>5, <1>7, <1>8, <1>9, <1>10, <1>11, <1>12, <1>13,
     <1>14, <1>15, <1>16, <1>17, <1>18 DEF Next, Serve, Write, Terminated

\* The frame bound and the counters of values to send.
LEMMA NextCounters ==
    IndInv /\ TypeOK' /\ [Next]_vars => FrameFits' /\ SpawnedByRead' /\ PendingBelowOwed'
<1> SUFFICES ASSUME IndInv, TypeOK', [Next]_vars
             PROVE  FrameFits' /\ SpawnedByRead' /\ PendingBelowOwed'
  OBVIOUS
<1> USE BoundAssumption DEF FrameFits, SpawnedByRead, PendingBelowOwed
<1>0. TypeOK /\ FrameFits /\ SpawnedByRead /\ PendingBelowOwed
  BY DEF IndInv
<1>1. CASE DrainInLoop
  BY <1>0, <1>1 DEF DrainInLoop, TypeOK
<1>2. CASE \E m \in Input : Read(m)
  <2>1. PICK m \in Input : Read(m)
    BY <1>2
  <2>2. m.kind \notin {"eof", "bad"} => messages_read < MaxFrames
    BY <2>1 DEF Read, Input, Others
  <2> QED BY <1>0, <2>1, <2>2 DEF Read, TypeOK, threads
<1>k. /\ worker \in [Frames -> {"unborn", "dispatching", "sending", "finished", "panicked"}]
      /\ pending \in [Frames -> 0..MaxValues] /\ owed \in [Frames -> 0..MaxValues]
      /\ messages_read \in 0..MaxFrames
  BY <1>0 DEF TypeOK
<1>n. \A f \in Frames : f \in Nat /\ f <= MaxFrames
  BY DEF Frames
<1>3. ASSUME UNCHANGED <<worker, pending, owed>>, messages_read' \in {messages_read, messages_read + 1},
             pc' \notin {"redrain", "handle"}
      PROVE  FrameFits' /\ SpawnedByRead' /\ PendingBelowOwed'
  BY <1>0, <1>3, <1>k, <1>n
<1>h. CASE LeaveLoop \/ HandleCancel \/ HandleNotification \/ CancelAll \/ JoinWorkers \/ Return
  BY <1>3, <1>h DEF LeaveLoop, HandleCancel, HandleNotification, CancelAll,
     JoinWorkers, Return, threads
<1>4. CASE RefuseDuplicate \/ RefuseLegacy
  <2>1. /\ messages_read' = messages_read + 1 /\ messages_read' \in Frames
        /\ pc' \in {"drain", "teardown"} /\ UNCHANGED <<worker, pending>>
        /\ owed' = [owed EXCEPT ![messages_read'] = 1]
    <3>1. pc = "handle" /\ framed.kind = "request" /\ \E k, e : Refuse(k, e)
      BY <1>4 DEF RefuseDuplicate, RefuseLegacy
    <3>2. messages_read' = messages_read + 1 /\ messages_read < MaxFrames
      BY <1>0, <3>1 DEF Refuse
    <3> QED BY <1>k, <1>n, <3>1, <3>2 DEF Refuse, Frames
  <2>2. worker[messages_read'] = "unborn"
    BY <1>0, <1>k, <1>n, <2>1
  <2>3. FrameFits' /\ SpawnedByRead'
    BY <1>0, <1>k, <1>n, <2>1
  <2>4. PendingBelowOwed'
    BY <1>0, <1>k, <1>n, <2>1, <2>2
  <2> QED BY <2>3, <2>4
<1>5. CASE Admit
  <2>1. /\ messages_read' = messages_read + 1 /\ messages_read' \in Frames
        /\ pc' = "drain" /\ UNCHANGED <<pending, owed>>
        /\ worker' = [worker EXCEPT ![messages_read'] = "dispatching"]
    BY <1>0, <1>k, <1>n, <1>5 DEF Admit, Frames
  <2>2. FrameFits' /\ SpawnedByRead'
    BY <1>0, <1>k, <1>n, <2>1
  <2>3. PendingBelowOwed'
    BY <1>0, <1>k, <1>n, <2>1
  <2> QED BY <2>2, <2>3
<1>6. ASSUME NEW w \in Frames, DispatchReturns(w) \/ DispatchPanics(w) \/ Work(w)
      PROVE  FrameFits' /\ SpawnedByRead' /\ PendingBelowOwed'
  <2>1. FrameFits'
    BY <1>0, <1>6 DEF DispatchReturns, DispatchPanics, Work, EnqueueValue,
       EnqueueFails, ReportDone, reader
  <2>2. CASE DispatchReturns(w)
    BY <1>0, <1>k, <1>n, <2>1, <2>2 DEF DispatchReturns, reader
  <2>3. CASE EnqueueValue(w)
    <3>1. /\ pending' = [pending EXCEPT ![w] = pending[w] - 1] /\ pending[w] > 0
          /\ UNCHANGED <<worker, owed, messages_read>>
      BY <1>k, <2>3 DEF EnqueueValue, reader
    <3>2. \A f \in Frames : pending'[f] \in Int /\ pending'[f] <= pending[f]
      BY <1>k, <3>1
    <3>3. PendingBelowOwed'
      BY <1>0, <1>k, <3>1, <3>2
    <3> QED BY <1>0, <2>1, <3>1, <3>3
  <2>4. CASE DispatchPanics(w) \/ EnqueueFails(w) \/ ReportDone(w)
    <3>1. /\ UNCHANGED <<pending, owed, messages_read>> /\ worker[w] # "unborn"
          /\ \E q \in {"panicked", "finished"} : worker' = [worker EXCEPT ![w] = q]
      BY <2>4 DEF DispatchPanics, EnqueueFails, ReportDone, Report, reader
    <3> QED BY <1>0, <1>k, <1>n, <2>1, <3>1
  <2> QED BY <1>6, <2>2, <2>3, <2>4 DEF Work
<1>7. CASE Write \/ WriterFails \/ UNCHANGED vars
  BY <1>0, <1>7 DEF Write, WriterTakes, WriterWrites, WriterEnds, WriterFails,
     vars, reader, threads
<1> QED BY <1>1, <1>2, <1>h, <1>4, <1>5, <1>6, <1>7 DEF Next, Serve, Terminated

\* The map of active ids: it names every live worker and every completion that
\* is still in the channel.
LEMMA NextIds == IndInv /\ TypeOK' /\ [Next]_vars => IdsInv'
<1> SUFFICES ASSUME IndInv, TypeOK', [Next]_vars
             PROVE  IdsInv'
  OBVIOUS
<1>0. /\ TypeOK /\ FrameFits /\ SpawnedByRead
      /\ CompletionsHoldIds /\ CompletionsDistinct /\ TokensUnderTheirIds /\ LiveIdsUnique
  BY DEF IndInv, IdsInv
<1>d. /\ Len(done) \in Nat /\ DOMAIN done = 1..Len(done)
      /\ \A n \in DOMAIN done : done[n].w \in Frames
  <2>1. done \in Seq([w : Frames, ok : BOOLEAN])
    BY <1>0 DEF TypeOK
  <2>2. Len(done) \in Nat /\ DOMAIN done = 1..Len(done)
    BY <2>1, LenProperties
  <2>3. \A n \in DOMAIN done : done[n] \in [w : Frames, ok : BOOLEAN]
    BY <2>1, <2>2, ElementOfSeq
  <2> QED BY <2>2, <2>3
<1>t. /\ active \in [Ids -> Frames \cup {NoWorker}] /\ reqId \in [Frames -> Ids]
      /\ worker \in [Frames -> {"unborn", "dispatching", "sending", "finished", "panicked"}]
      /\ \A f \in Frames : f # NoWorker
  BY <1>0 DEF TypeOK, Frames, NoWorker
<1>1. ASSUME Drain(done), UNCHANGED <<worker, reqId>>
      PROVE  IdsInv'
  <2>1. PICK n \in 0..Len(done) :
          /\ active' = [i \in Ids |-> IF i \in Released(done, n) THEN NoWorker ELSE active[i]]
          /\ done' = SubSeq(done, n + 1, Len(done))
    BY <1>1 DEF Drain
  <2>2. /\ Len(done') = Len(done) - n /\ DOMAIN done' = 1..(Len(done) - n)
        /\ \A k \in DOMAIN done' : k + n \in DOMAIN done /\ done'[k] = done[k + n]
    <3>1. done \in Seq([w : Frames, ok : BOOLEAN])
      BY <1>0 DEF TypeOK
    <3>2. /\ done' \in Seq([w : Frames, ok : BOOLEAN]) /\ Len(done') = Len(done) - n
          /\ \A k \in 1..(Len(done) - n) : done'[k] = done[k + n]
      BY <2>1, <3>1, SuffixOf
    <3>3. DOMAIN done' = 1..(Len(done) - n)
      BY <3>2, LenProperties
    <3> QED BY <1>d, <3>2, <3>3
  <2>3. ASSUME NEW w \in Frames, active[reqId[w]] = w,
               \A m \in 1..n : done[m].w # w
        PROVE  active'[reqId[w]] = w
    <3>1. reqId[w] \in Ids /\ reqId[w] \notin Released(done, n)
      <4>1. ASSUME NEW m \in 1..n, reqId[w] = reqId[done[m].w] PROVE FALSE
        BY <1>0, <1>d, <2>3, <4>1 DEF CompletionsHoldIds
      <4> QED BY <1>t, <4>1 DEF Released
    <3> QED BY <2>1, <2>3, <3>1
  <2>4. CompletionsHoldIds'
    <3> SUFFICES ASSUME NEW k \in DOMAIN done'
                 PROVE  /\ worker[done'[k].w] = "finished"
                        /\ active'[reqId[done'[k].w]] = done'[k].w
      BY <1>1 DEF CompletionsHoldIds
    <3>1. /\ k + n \in DOMAIN done /\ done'[k] = done[k + n] /\ k > 0
          /\ \A m \in 1..n : m \in DOMAIN done /\ m # k + n
      BY <1>d, <2>2
    <3>2. \A m \in 1..n : done[m].w # done[k + n].w
      BY <1>0, <3>1 DEF CompletionsDistinct
    <3> QED BY <1>0, <1>d, <2>3, <3>1, <3>2 DEF CompletionsHoldIds
  <2>5. CompletionsDistinct'
    BY <1>0, <1>d, <2>2 DEF CompletionsDistinct
  <2>6. LiveIdsUnique'
    <3>1. \A w \in Frames : Live(w) => \A m \in 1..n : done[m].w # w
      BY <1>0, <1>d DEF CompletionsHoldIds, Live
    <3> QED BY <1>0, <1>1, <2>3, <3>1 DEF LiveIdsUnique, Live
  <2>7. TokensUnderTheirIds'
    BY <1>0, <1>1, <1>t, <2>1 DEF TokensUnderTheirIds
  <2> QED BY <2>4, <2>5, <2>6, <2>7 DEF IdsInv
<1>2. CASE DrainInLoop \/ JoinWorkers
  BY <1>1, <1>2 DEF DrainInLoop, JoinWorkers
<1>3. CASE UNCHANGED <<worker, reqId, active, done>>
  BY <1>0, <1>3 DEF IdsInv, CompletionsHoldIds, CompletionsDistinct,
     TokensUnderTheirIds, LiveIdsUnique, Live
<1>4. CASE Admit
  <2> DEFINE w == messages_read + 1
  <2>1. /\ w \in Frames /\ worker[w] = "unborn" /\ framed.id \in Ids
        /\ active[framed.id] = NoWorker
        /\ active' = [active EXCEPT ![framed.id] = w]
        /\ worker' = [worker EXCEPT ![w] = "dispatching"]
        /\ reqId' = [reqId EXCEPT ![w] = framed.id]
        /\ done' = done
    <3>1. messages_read < MaxFrames /\ messages_read \in Nat /\ w \in Frames
      BY <1>0, <1>4, BoundAssumption DEF Admit, FrameFits, TypeOK, Frames
    <3>2. worker[w] = "unborn"
      BY <1>0, <3>1 DEF SpawnedByRead
    <3>3. framed.id \in Ids
      BY <1>0, <1>4, FramedFields DEF Admit, TypeOK
    <3> QED BY <1>4, <3>1, <3>2, <3>3 DEF Admit
  <2>2. CompletionsHoldIds'
    <3> SUFFICES ASSUME NEW n \in DOMAIN done
                 PROVE  /\ worker'[done[n].w] = "finished"
                        /\ active'[reqId'[done[n].w]] = done[n].w
      BY <2>1 DEF CompletionsHoldIds
    <3>1. /\ worker[done[n].w] = "finished" /\ done[n].w \in Frames /\ done[n].w # w
          /\ active[reqId[done[n].w]] = done[n].w
      BY <1>0, <1>d, <2>1 DEF CompletionsHoldIds
    <3>2. reqId'[done[n].w] = reqId[done[n].w] /\ reqId[done[n].w] # framed.id
      BY <1>t, <2>1, <3>1
    <3> QED BY <1>t, <2>1, <3>1, <3>2
  <2>3. LiveIdsUnique'
    <3> SUFFICES ASSUME NEW v \in Frames, Live(v)'
                 PROVE  active'[reqId'[v]] = v
      BY DEF LiveIdsUnique
    <3>1. CASE v = w
      BY <1>t, <2>1, <3>1
    <3>2. CASE v # w
      <4>1. active[reqId[v]] = v /\ reqId'[v] = reqId[v] /\ reqId[v] \in Ids
        BY <1>0, <1>t, <2>1, <3>2 DEF LiveIdsUnique, Live
      <4>2. reqId[v] # framed.id
        BY <1>t, <2>1, <4>1
      <4> QED BY <1>t, <2>1, <4>1, <4>2
    <3> QED BY <3>1, <3>2
  <2>4. TokensUnderTheirIds'
    BY <1>0, <1>t, <2>1 DEF TokensUnderTheirIds
  <2> QED BY <1>0, <2>1, <2>2, <2>3, <2>4 DEF IdsInv, CompletionsDistinct
<1>5. ASSUME NEW w \in Frames, DispatchReturns(w) \/ DispatchPanics(w)
      PROVE  IdsInv'
  <2>1. UNCHANGED <<active, reqId, done>> /\ worker[w] = "dispatching"
        /\ \E q \in {"sending", "panicked"} : worker' = [worker EXCEPT ![w] = q]
    BY <1>5 DEF DispatchReturns, DispatchPanics, reader
  <2>2. TokensUnderTheirIds'
    BY <1>0, <1>t, <2>1 DEF TokensUnderTheirIds
  <2> QED BY <1>0, <1>d, <1>t, <2>1, <2>2 DEF IdsInv, CompletionsHoldIds,
          CompletionsDistinct, LiveIdsUnique, Live
<1>6. ASSUME NEW w \in Frames, NEW ok \in BOOLEAN, Report(w, ok),
             worker[w] = "sending", UNCHANGED <<active, reqId>>
      PROVE  IdsInv'
  <2>1. /\ Len(done') = Len(done) + 1 /\ DOMAIN done' = 1..(Len(done) + 1)
        /\ done'[Len(done) + 1] = [w |-> w, ok |-> ok]
        /\ \A k \in 1..Len(done) : done'[k] = done[k]
    <3>1. done \in Seq([w : Frames, ok : BOOLEAN]) /\ [w |-> w, ok |-> ok] \in [w : Frames, ok : BOOLEAN]
      BY <1>0 DEF TypeOK
    <3>2. done' = Append(done, [w |-> w, ok |-> ok])
      BY <1>6 DEF Report
    <3>3. done' \in Seq([w : Frames, ok : BOOLEAN])
      BY <3>1, <3>2, AppendProperties
    <3>4. /\ Len(done') = Len(done) + 1 /\ done'[Len(done) + 1] = [w |-> w, ok |-> ok]
          /\ \A k \in 1..Len(done) : done'[k] = done[k]
      BY <3>1, <3>2, AppendProperties
    <3> QED BY <3>3, <3>4, LenProperties
  <2>2. worker' = [worker EXCEPT ![w] = "finished"] /\ active[reqId[w]] = w
    BY <1>0, <1>6 DEF Report, LiveIdsUnique, Live
  <2>3. CompletionsHoldIds'
    <3> SUFFICES ASSUME NEW n \in 1..(Len(done) + 1)
                 PROVE  /\ worker'[done'[n].w] = "finished"
                        /\ active[reqId[done'[n].w]] = done'[n].w
      BY <1>6, <2>1 DEF CompletionsHoldIds
    <3>1. CASE n = Len(done) + 1
      BY <1>t, <2>1, <2>2, <3>1
    <3>2. CASE n \in 1..Len(done)
      <4>1. n \in DOMAIN done /\ done'[n] = done[n] /\ done[n].w \in Frames
        BY <1>d, <2>1, <3>2
      <4>2. worker[done[n].w] = "finished" /\ active[reqId[done[n].w]] = done[n].w
        BY <1>0, <4>1 DEF CompletionsHoldIds
      <4> QED BY <1>t, <2>2, <4>1, <4>2
    <3> QED BY <1>d, <3>1, <3>2
  <2>4. CompletionsDistinct'
    BY <1>0, <1>6, <1>d, <2>1 DEF CompletionsDistinct, CompletionsHoldIds
  <2>5. LiveIdsUnique'
    BY <1>0, <1>6, <2>2 DEF LiveIdsUnique, Live, TypeOK
  <2>6. TokensUnderTheirIds'
    BY <1>0, <1>6, <1>t, <2>2 DEF TokensUnderTheirIds
  <2> QED BY <2>3, <2>4, <2>5, <2>6 DEF IdsInv
<1>7. ASSUME NEW w \in Frames, Work(w)
      PROVE  IdsInv'
  BY <1>3, <1>6, <1>7 DEF Work, EnqueueValue, EnqueueFails, ReportDone, reader
<1>8. CASE \E m \in Input : Read(m)
  BY <1>3, <1>8 DEF Read, threads
<1>9. CASE LeaveLoop \/ HandleCancel \/ HandleNotification \/ RefuseDuplicate
           \/ RefuseLegacy \/ CancelAll \/ Return
  BY <1>3, <1>9 DEF LeaveLoop, HandleCancel, HandleNotification, RefuseDuplicate,
     RefuseLegacy, Refuse, CancelAll, Return, threads
<1>10. CASE Write \/ WriterFails \/ UNCHANGED vars
  BY <1>3, <1>10 DEF Write, WriterTakes, WriterWrites, WriterEnds, WriterFails,
     vars, reader, threads
<1> QED BY <1>2, <1>4, <1>5, <1>7, <1>8, <1>9, <1>10 DEF Next, Serve, Terminated

-----------------------------------------------------------------------------
\* The inductive invariant holds in every reachable state of serve.
THEOREM Invariance == Spec => []IndInv
<1>1. IndInv /\ [Next]_vars => IndInv'
  BY NextTypeOK, NextCounters, NextIds DEF IndInv
<1> QED BY InitIndInv, <1>1, PTL DEF Spec

\* Every variable of serve stays in its type; in particular the write queue
\* never holds more than write_queue_depth values.
THEOREM TypeCorrect == Spec => []TypeOK
<1>1. IndInv => TypeOK
  BY DEF IndInv
<1> QED BY Invariance, <1>1, PTL

\* Live ids are unique in serve, for every number of ids, frames and values and
\* every queue depth.
THEOREM LiveIdsAreUnique == Spec => []LiveIdsUnique
<1>1. IndInv => LiveIdsUnique
  BY DEF IndInv, IdsInv
<1> QED BY Invariance, <1>1, PTL

\* A cancellation frame reaches the live request it names and no other
\* (active.get in serve), in every step of every behaviour.
THEOREM CancellationIsExact == Spec => CancellationReachesOnlyItsRequest
<1> DEFINE Exact ==
      (pc = "handle" /\ framed.kind = "cancel" /\ pc' = "drain") =>
          \A w \in Frames : Live(w) =>
            (w \in cancelled' <=> (w \in cancelled \/ reqId[w] = framed.id))
<1>1. IndInv /\ [Next]_vars => [Exact]_vars
  <2> SUFFICES ASSUME IndInv, Next, pc = "handle", framed.kind = "cancel", pc' = "drain",
                      NEW w \in Frames, Live(w)
               PROVE  w \in cancelled' <=> (w \in cancelled \/ reqId[w] = framed.id)
    BY DEF vars
  <2>1. HandleCancel
    BY DEF Next, Serve, Work, Write, DrainInLoop, LeaveLoop, HandleNotification,
       RefuseDuplicate, RefuseLegacy, Admit, CancelAll, JoinWorkers, Return, Read,
       DispatchReturns, DispatchPanics, EnqueueValue, EnqueueFails, ReportDone,
       WriterTakes, WriterWrites, WriterFails, WriterEnds, Terminated, reader, vars
  <2>2. /\ framed.id \in Ids /\ active[reqId[w]] = w /\ w # NoWorker
        /\ active[framed.id] # NoWorker => reqId[active[framed.id]] = framed.id
    BY FramedFields DEF IndInv, IdsInv, TypeOK, LiveIdsUnique, TokensUnderTheirIds,
       Frames, NoWorker
  <2> QED BY <2>1, <2>2 DEF HandleCancel
<1> QED BY Invariance, <1>1, PTL DEF Spec, CancellationReachesOnlyItsRequest
=============================================================================
