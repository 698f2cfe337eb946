---------------------------- MODULE FrameServer ----------------------------
(* A listening server and its clients over byte streams: the accept thread,  *)
(* the threads that serve accepted connections (one per connection, a shared *)
(* pool, or the accept thread itself), the evaluation context they share     *)
(* under one lock, and clients that send frame after frame on a connection,  *)
(* with or without a deadline.                                               *)
EXTENDS Integers, Sequences, FiniteSets

CONSTANTS
  Conns,        \* the connections clients may open
  MaxRequests   \* the most requests sent on one connection

None == "none"
ThreadModes == {"Spawn", "Pool", "Coop"}

VARIABLES
  mode,       \* ThreadMode: "Spawn", "Pool" or "Coop"
  stopping,   \* ServerRuntime.stopping
  cx,         \* the connection that holds the context lock, or None
  accept,     \* the accept thread: "top", "accept", a connection it serves, or "done"
  workers,    \* the connections whose thread's handle is registered
  conn,       \* the server's side of each connection
  frame,      \* the frame a connection is at
  sessions,   \* the open sessions
  client,     \* the client's side: where it is, its last id, whether it has a deadline
  c2s, s2c,   \* the frames in each direction; one may be torn by a timed-out read
  answered,   \* the frames the site has answered, in order
  replies,    \* what the client's calls returned: request and frame it took as reply
  late        \* the connections on which a call has timed out

serverVars == <<mode, stopping, cx, accept, workers, conn, frame, sessions>>
clientVars == <<client, replies, late>>
wireVars == <<c2s, s2c>>
frameVars == <<serverVars, clientVars, wireVars, answered>>

Whole(id) == [id |-> id, torn |-> FALSE]
TearHead(wire) == [wire EXCEPT ![1].torn = TRUE]

FrameInit ==
  /\ mode \in ThreadModes
  /\ stopping = FALSE /\ cx = None /\ accept = "top"
  /\ workers = {} /\ sessions = {}
  /\ conn = [c \in Conns |-> "none"]
  /\ frame = [c \in Conns |-> 0]
  /\ client = [c \in Conns |-> [pc |-> "away", id |-> 0, deadline |-> FALSE]]
  /\ c2s = [c \in Conns |-> <<>>] /\ s2c = [c \in Conns |-> <<>>]
  /\ answered = [c \in Conns |-> <<>>]
  /\ replies = [c \in Conns |-> {}]
  /\ late = {}

----------------------------------------------------------------------------
(* The client: TransportEvalSite, one call at a time under its lock.         *)

\* The negotiation is frame 0 and has no deadline.
connect_with_loopback(c) ==
  /\ client[c].pc = "away"
  /\ client' = [client EXCEPT ![c].pc = "waiting"]
  /\ c2s' = [c2s EXCEPT ![c] = <<Whole(0)>>]
  /\ conn' = [conn EXCEPT ![c] = "backlog"]
  /\ UNCHANGED <<mode, stopping, cx, accept, workers, frame, sessions, s2c, answered, replies, late>>

SendFrame(c, deadline) ==
  /\ client[c].pc = "ready" /\ client[c].id < MaxRequests
  /\ client' = [client EXCEPT ![c] = [pc |-> "waiting", id |-> @.id + 1, deadline |-> deadline]]
  /\ c2s' = [c2s EXCEPT ![c] = Append(@, Whole(client[c].id + 1))]
  /\ UNCHANGED <<serverVars, s2c, answered, replies, late>>

\* A write to a connection the server has closed fails.
SendFails(c) ==
  /\ client[c].pc = "ready" /\ client[c].id < MaxRequests
  /\ conn[c] = "closed"
  /\ client' = [client EXCEPT ![c].id = @ + 1]
  /\ UNCHANGED <<serverVars, wireVars, answered, replies, late>>

\* A call returns to the caller; a connection that could not negotiate is dropped.
Return(c, ok) ==
  client' = [client EXCEPT ![c].pc = IF ok \/ client[c].id > 0 THEN "ready" ELSE "closed",
                           ![c].deadline = FALSE]

\* The first whole frame is taken as the reply; its correlation id is not read.
RecvFrame(c) ==
  /\ client[c].pc = "waiting"
  /\ s2c[c] # <<>> /\ ~Head(s2c[c]).torn
  /\ Return(c, TRUE)
  /\ s2c' = [s2c EXCEPT ![c] = Tail(@)]
  /\ replies' = [replies EXCEPT ![c] = @ \cup {[request |-> client[c].id, reply |-> Head(s2c[c]).id]}]
  /\ UNCHANGED <<serverVars, c2s, answered, late>>

\* The rest of a torn frame is read as the prefix of a new one: an error.
RecvGarbled(c) ==
  /\ client[c].pc = "waiting"
  /\ s2c[c] # <<>> /\ Head(s2c[c]).torn
  /\ Return(c, FALSE)
  /\ \/ s2c' = [s2c EXCEPT ![c] = Tail(@)]
     \/ UNCHANGED s2c
  /\ UNCHANGED <<serverVars, c2s, answered, replies, late>>

\* The deadline passes before a reply came, or in the middle of one.
RecvTimesOut(c) ==
  /\ client[c].pc = "waiting" /\ client[c].deadline
  /\ Return(c, FALSE)
  /\ late' = late \cup {c}
  /\ \/ UNCHANGED s2c
     \/ s2c[c] # <<>> /\ s2c' = [s2c EXCEPT ![c] = TearHead(@)]
  /\ UNCHANGED <<serverVars, c2s, answered, replies>>

RecvEof(c) ==
  /\ client[c].pc = "waiting"
  /\ conn[c] = "closed" /\ s2c[c] = <<>>
  /\ Return(c, FALSE)
  /\ UNCHANGED <<serverVars, wireVars, answered, replies, late>>

close(c) ==
  /\ client[c].pc = "ready"
  /\ client' = [client EXCEPT ![c].pc = "closed"]
  /\ UNCHANGED <<serverVars, wireVars, answered, replies, late>>

ClientStep(c) ==
  \/ RecvFrame(c) \/ RecvGarbled(c) \/ RecvTimesOut(c) \/ RecvEof(c) \/ close(c) \/ SendFails(c)

----------------------------------------------------------------------------
(* The accept thread.                                                        *)

run_accept_loop ==
  /\ accept = "top"
  /\ accept' = IF stopping THEN "done" ELSE "accept"
  /\ UNCHANGED <<mode, stopping, cx, workers, conn, frame, sessions, clientVars, wireVars, answered>>

\* accept_timeout runs under the context lock but does not wait there.
NothingToAccept ==
  /\ accept = "accept" /\ cx = None
  /\ \A c \in Conns : conn[c] # "backlog"
  /\ accept' = "top"
  /\ UNCHANGED <<mode, stopping, cx, workers, conn, frame, sessions, clientVars, wireVars, answered>>

AcceptFails ==
  /\ accept = "accept" /\ cx = None
  /\ accept' = "done"
  /\ UNCHANGED <<mode, stopping, cx, workers, conn, frame, sessions, clientVars, wireVars, answered>>

\* Mutant: the handle of a spawned thread is not registered.
AcceptUnregistered(c) ==
  /\ accept = "accept" /\ cx = None
  /\ conn[c] = "backlog"
  /\ conn' = [conn EXCEPT ![c] = "begin"]
  /\ accept' = IF mode = "Coop" THEN c ELSE "top"
  /\ UNCHANGED <<mode, stopping, cx, workers, frame, sessions, clientVars, wireVars, answered>>

Accept(c) ==
  /\ accept = "accept" /\ cx = None
  /\ conn[c] = "backlog"
  /\ conn' = [conn EXCEPT ![c] = "begin"]
  /\ accept' = IF mode = "Coop" THEN c ELSE "top"
  /\ workers' = IF mode = "Spawn" THEN workers \cup {c} ELSE workers
  /\ UNCHANGED <<mode, stopping, cx, frame, sessions, clientVars, wireVars, answered>>

AcceptStep ==
  run_accept_loop \/ NothingToAccept \/ AcceptFails \/ \E c \in Conns : Accept(c)

----------------------------------------------------------------------------
(* A connection's server side: TcpConnectionTransport::serve.                *)

open_session(c) ==
  /\ conn[c] = "begin"
  /\ conn' = [conn EXCEPT ![c] = "top"]
  /\ sessions' = sessions \cup {c}
  /\ UNCHANGED <<mode, stopping, cx, accept, workers, frame, clientVars, wireVars, answered>>

\* serve returns: the stream is dropped, and an accept thread that served it
\* goes on accepting.
ServeReturns(c, open) ==
  /\ conn' = [conn EXCEPT ![c] = "closed"]
  /\ frame' = [frame EXCEPT ![c] = 0]
  /\ accept' = IF accept = c THEN "top" ELSE accept
  /\ sessions' = IF open THEN sessions ELSE sessions \ {c}


LoopTop(c) ==
  /\ conn[c] = "top"
  /\ IF stopping
     THEN ServeReturns(c, FALSE)
     ELSE conn' = [conn EXCEPT ![c] = "recv"] /\ UNCHANGED <<frame, accept, sessions>>
  /\ UNCHANGED <<mode, stopping, cx, workers, clientVars, wireVars, answered>>

ServeRecv(c) ==
  /\ conn[c] = "recv"
  /\ c2s[c] # <<>> /\ ~Head(c2s[c]).torn
  /\ c2s' = [c2s EXCEPT ![c] = Tail(@)]
  /\ IF stopping
     THEN ServeReturns(c, FALSE)
     ELSE /\ conn' = [conn EXCEPT ![c] = "got"]
          /\ frame' = [frame EXCEPT ![c] = Head(c2s[c]).id]
          /\ UNCHANGED <<accept, sessions>>
  /\ UNCHANGED <<mode, stopping, cx, workers, clientVars, s2c, answered>>

\* The read times out before a frame came, or in the middle of one, whose
\* first bytes are then gone.
ServeTimesOut(c) ==
  /\ conn[c] = "recv"
  /\ conn' = [conn EXCEPT ![c] = "top"]
  /\ \/ UNCHANGED c2s
     \/ c2s[c] # <<>> /\ c2s' = [c2s EXCEPT ![c] = TearHead(@)]
  /\ UNCHANGED <<mode, stopping, cx, accept, workers, frame, sessions, clientVars, s2c, answered>>

\* End of the stream, or bytes that are no frame.
ServeRecvEnds(c) ==
  /\ conn[c] = "recv"
  /\ \/ c2s[c] = <<>> /\ client[c].pc = "closed"
     \/ c2s[c] # <<>> /\ Head(c2s[c]).torn
  /\ ServeReturns(c, FALSE)
  /\ UNCHANGED <<mode, stopping, cx, workers, clientVars, wireVars, answered>>

\* answer_or_negotiate, under the context lock.
AnswerBegins(c) ==
  /\ conn[c] = "got" /\ cx = None
  /\ cx' = c
  /\ conn' = [conn EXCEPT ![c] = "answering"]
  /\ answered' = [answered EXCEPT ![c] = Append(@, frame[c])]
  /\ UNCHANGED <<mode, stopping, accept, workers, frame, sessions, clientVars, wireVars>>

AnswerEnds(c) ==
  /\ conn[c] = "answering"
  /\ cx' = None
  /\ conn' = [conn EXCEPT ![c] = "reply"]
  /\ UNCHANGED <<mode, stopping, accept, workers, frame, sessions, clientVars, wireVars, answered>>

\* Mutant: the write is done a second time.
WriteReplyTwice(c) ==
  /\ conn[c] = "reply"
  /\ IF stopping
     THEN ServeReturns(c, FALSE) /\ UNCHANGED s2c
     ELSE /\ conn' = [conn EXCEPT ![c] = "top"]
          /\ frame' = [frame EXCEPT ![c] = 0]
          /\ s2c' = [s2c EXCEPT ![c] = @ \o <<Whole(frame[c]), Whole(frame[c])>>]
          /\ UNCHANGED <<accept, sessions>>
  /\ UNCHANGED <<mode, stopping, cx, workers, clientVars, c2s, answered>>

\* A reply is dropped once the server stops.  A failed write leaves the loop
\* without closing the session.
WriteReply(c) ==
  /\ conn[c] = "reply"
  /\ \/ /\ stopping
        /\ ServeReturns(c, FALSE)
        /\ UNCHANGED s2c
     \/ /\ ~stopping
        /\ conn' = [conn EXCEPT ![c] = "top"]
        /\ frame' = [frame EXCEPT ![c] = 0]
        /\ s2c' = [s2c EXCEPT ![c] = Append(@, Whole(frame[c]))]
        /\ UNCHANGED <<accept, sessions>>
     \/ /\ ~stopping /\ client[c].pc = "closed"
        /\ ServeReturns(c, TRUE)
        /\ UNCHANGED s2c
  /\ UNCHANGED <<mode, stopping, cx, workers, clientVars, c2s, answered>>

ServeStep(c) ==
  \/ open_session(c) \/ LoopTop(c) \/ ServeRecv(c) \/ ServeTimesOut(c) \/ ServeRecvEnds(c)
  \/ AnswerBegins(c) \/ AnswerEnds(c) \/ WriteReply(c)

----------------------------------------------------------------------------

\* On a connection where no call has timed out, every call returns the reply
\* to its own frame, and the site has answered that frame.
RepliesAreOwn ==
  \A c \in Conns \ late : \A r \in replies[c] :
    r.reply = r.request /\ \E i \in DOMAIN answered[c] : answered[c][i] = r.request
=============================================================================
