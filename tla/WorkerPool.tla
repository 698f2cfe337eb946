------------------------------ MODULE WorkerPool ------------------------------
(***************************************************************************)
(* WorkerPool of sim-lib-server: a fixed set of threads that share one      *)
(* receiver behind a mutex.  A worker holds the mutex only while it         *)
(* receives, so a job that panics ends its own worker and leaves the mutex  *)
(* clean.  The receiver lives as long as some worker does: when the last    *)
(* one is gone the queued jobs are dropped and later sends are ignored.     *)
(***************************************************************************)
EXTENDS Naturals, Sequences, FiniteSets

CONSTANTS
    Workers, Jobs,
    Idle, Gone      \* a worker between two jobs, a worker whose thread ended

VARIABLES
    queue,      \* the mpsc channel of jobs
    worker,     \* worker[w]: Idle, Gone or the job it runs
    sender      \* "open", "dropping" (Drop joins the workers) or "dropped"

pool == <<queue, worker, sender>>

Running == {w \in Workers : worker[w] \notin {Idle, Gone}}
AllGone(f) == \A w \in Workers : f[w] = Gone

\* The jobs that still own their captured state.
LiveJobs == {queue[n] : n \in DOMAIN queue} \cup {worker[w] : w \in Running}

PoolTypeOK ==
    /\ queue \in Seq(Jobs)
    /\ worker \in [Workers -> Jobs \cup {Idle, Gone}]
    /\ sender \in {"open", "dropping", "dropped"}

PoolInit == queue = <<>> /\ worker = [w \in Workers |-> Idle] /\ sender = "open"

\* WorkerPool::execute; a send without a receiver drops the job.
Execute(j) ==
    /\ sender = "open"
    /\ queue' = IF AllGone(worker) THEN queue ELSE Append(queue, j)
    /\ UNCHANGED <<worker, sender>>

\* A worker receives the oldest job.
Take(w) ==
    /\ worker[w] = Idle /\ queue # <<>>
    /\ worker' = [worker EXCEPT ![w] = Head(queue)]
    /\ queue' = Tail(queue)
    /\ UNCHANGED sender

\* job() returns.
Finish(w) ==
    /\ w \in Running
    /\ worker' = [worker EXCEPT ![w] = Idle]
    /\ UNCHANGED <<queue, sender>>

\* job() panics and its thread with it.
Panic(w) ==
    /\ w \in Running
    /\ worker' = [worker EXCEPT ![w] = Gone]
    /\ queue' = IF AllGone(worker') THEN <<>> ELSE queue
    /\ UNCHANGED sender

\* Mutant: a disconnected receiver is polled for ever.
ExitNever(w) ==
    /\ worker[w] = Idle /\ queue = <<>> /\ sender = "dropped"
    /\ worker' = [worker EXCEPT ![w] = Gone]
    /\ UNCHANGED <<queue, sender>>

\* recv fails: no job is left and the sender is dropped.
Exit(w) ==
    /\ worker[w] = Idle /\ queue = <<>> /\ sender # "open"
    /\ worker' = [worker EXCEPT ![w] = Gone]
    /\ UNCHANGED <<queue, sender>>

\* Drop: give up the sender, then join every worker.
DropBegins ==
    /\ sender = "open"
    /\ sender' = "dropping" /\ UNCHANGED <<queue, worker>>

DropReturns ==
    /\ sender = "dropping" /\ AllGone(worker)
    /\ sender' = "dropped" /\ UNCHANGED <<queue, worker>>
=============================================================================
