------------------------------- MODULE Server -------------------------------
(* A server handle: its listening side, its trigger, and server/stop, which  *)
(* winds both down while clients, the trigger's thread and other callers go  *)
(* on.                                                                       *)
EXTENDS FrameServer, TriggerFeed

CONSTANT Loads   \* a thread mode, and how many outside events of each kind the server meets

VARIABLES
  stop,       \* server/stop: "none" or the step it is at, then "stopped"
  endpoint,   \* the address is registered as an endpoint
  listed,     \* the trigger is in the server's list
  snapshot,   \* stop_triggers saw the trigger
  load        \* the outside events still to come

stopVars == <<stop, endpoint, listed, snapshot>>
vars == <<frameVars, feedVars, stopVars, load>>

Init ==
  /\ FrameInit /\ FeedInit
  /\ stop = "none" /\ endpoint = TRUE
  /\ listed = FALSE /\ snapshot = FALSE
  /\ load \in Loads /\ mode = load.mode

----------------------------------------------------------------------------
(* server/stop, one wait or one change of shared state per step.             *)

BeginStop ==
  /\ stop = "none"
  /\ stopping' = TRUE
  /\ stop' = "stop_triggers"
  /\ UNCHANGED <<mode, cx, accept, workers, conn, frame, sessions, clientVars, wireVars, answered,
                 feedVars, endpoint, listed, snapshot, load>>

\* Mutant: the trigger's flag is set, and its thread not waited for.
stop_triggersWithoutJoin ==
  /\ stop = "stop_triggers"
  /\ stop' = "join_accept_thread"
  /\ tstopping' = listed /\ snapshot' = listed
  /\ UNCHANGED <<frameVars, gen, size, offset, remainder, poll, thread, delivered, lost, crossed,
                 endpoint, listed, load>>

stop_triggers ==
  /\ stop = "stop_triggers"
  /\ stop' = IF listed /\ thread # "none" THEN "join_trigger" ELSE "join_accept_thread"
  /\ tstopping' = listed /\ snapshot' = listed
  /\ UNCHANGED <<frameVars, gen, size, offset, remainder, poll, thread, delivered, lost, crossed,
                 endpoint, listed, load>>

Goto(step) ==
  /\ stop' = step
  /\ UNCHANGED <<frameVars, feedVars, endpoint, listed, snapshot, load>>

JoinTrigger ==
  stop = "join_trigger" /\ thread = "ended" /\ Goto("join_accept_thread")

join_accept_thread ==
  stop = "join_accept_thread" /\ accept = "done" /\ Goto("join_worker_threads")

join_worker_threads ==
  /\ stop = "join_worker_threads"
  /\ \A c \in workers : conn[c] = "closed"
  /\ Goto("shutdown")

TransportShutdown ==
  stop = "shutdown" /\ cx = None /\ Goto("clear_sessions")

clear_sessions ==
  /\ stop = "clear_sessions"
  /\ stop' = "stopped"
  /\ sessions' = {} /\ endpoint' = FALSE
  /\ UNCHANGED <<mode, stopping, cx, accept, workers, conn, frame, clientVars, wireVars, answered,
                 feedVars, listed, snapshot, load>>

StopStep ==
  \/ stop_triggers \/ JoinTrigger \/ join_accept_thread \/ join_worker_threads
  \/ TransportShutdown \/ clear_sessions

----------------------------------------------------------------------------
(* server/trigger lists the trigger, then starts its thread, on a server in  *)
(* any state.                                                                *)

register_trigger ==
  /\ ~listed /\ load.triggers > 0
  /\ listed' = TRUE
  /\ load' = [load EXCEPT !.triggers = @ - 1]
  /\ UNCHANGED <<frameVars, feedVars, stop, endpoint, snapshot>>

start ==
  /\ listed /\ TriggerStart
  /\ UNCHANGED <<frameVars, stopVars, load>>

\* An event of the kind, from outside the server.
Outside(kind) ==
  /\ load[kind] > 0
  /\ load' = [load EXCEPT ![kind] = @ - 1]
  /\ UNCHANGED stopVars

ClientCalls ==
  /\ \/ Outside("connects") /\ \E c \in Conns : connect_with_loopback(c)
     \/ Outside("requests") /\ \E c \in Conns, d \in BOOLEAN : SendFrame(c, d)
  /\ UNCHANGED feedVars

FileChanges ==
  /\ Outside("writes") /\ (AppendToken \/ Truncate)
  /\ UNCHANGED frameVars

ManualPolls ==
  /\ Outside("polls") /\ server_trigger_poll
  /\ UNCHANGED frameVars

Serving ==
  /\ AcceptStep \/ (\E c \in Conns : ServeStep(c) \/ ClientStep(c))
  /\ UNCHANGED <<feedVars, stopVars, load>>

Feeding ==
  /\ ThreadStep \/ PollStep("manual")
  /\ UNCHANGED <<frameVars, stopVars, load>>

Next ==
  \/ BeginStop \/ StopStep
  \/ register_trigger \/ start
  \/ ClientCalls \/ FileChanges \/ ManualPolls \/ Serving \/ Feeding

Spec == Init /\ [][Next]_vars

\* Every thread of the server is scheduled, and the site answers every frame
\* it is given; clients, the file's writer and callers owe nothing.
FairSpec ==
  /\ Spec
  /\ WF_vars(StopStep) /\ WF_vars(AcceptStep /\ UNCHANGED <<feedVars, stopVars, load>>)
  /\ \A c \in Conns : WF_vars(ServeStep(c) /\ UNCHANGED <<feedVars, stopVars, load>>)
  /\ WF_vars(ThreadStep /\ UNCHANGED <<frameVars, stopVars, load>>)

----------------------------------------------------------------------------

\* When server/stop has returned, the accept thread and every thread it had
\* spawned have ended, no session is left and the address is no endpoint; only
\* a connection given to the shared pool may still be winding down.
StopLeavesNothing ==
  stop = "stopped" =>
    /\ accept = "done" /\ ~endpoint
    /\ \A c \in Conns : conn[c] \in {"none", "backlog", "closed"} \/ mode = "Pool"
    /\ mode # "Pool" => sessions = {}

\* After server/stop has returned, the site is not given another frame by a
\* connection, unless the shared pool serves it, nor a line by the thread of a
\* trigger that was registered when the stop began.
NothingAnsweredAfterStop ==
  [][stop = "stopped" =>
       /\ (mode # "Pool" => UNCHANGED answered)
       /\ (snapshot => UNCHANGED <<thread, poll["thread"]>> \/ thread = "none" \/ thread' = "ended")]_vars

=============================================================================
