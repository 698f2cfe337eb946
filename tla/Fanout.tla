-------------------------------- MODULE Fanout --------------------------------
(***************************************************************************)
(* Fanout::execute_on of sim-lib-provider: calls on several threads share   *)
(* one engine (its per-seat leases) and one WorkerPool.  A call plans every *)
(* seat, dispatches the parallel ones on the pool, receives as many         *)
(* outcomes as it dispatched, and lands the rows in requested order.        *)
(*                                                                          *)
(* A result is its kind and the row whose dispatch produced it.  Its kind   *)
(* is "limited" when it is an error whose text mentions a rate limit or a   *)
(* quota, and "plain" otherwise: leases tell no more apart.                 *)
(***************************************************************************)
EXTENDS Naturals, Sequences, FiniteSets

CONSTANTS
    Calls,      \* calls of execute_on, each on its own thread
    Seats, Workers, Idle, Gone,
    Limit,      \* Limit[s]: max_in_flight, 0 standing for None
    Cooldown,   \* the engine's cooldown
    MaxSeats,   \* bound on the seats of one call
    MaxTotal,   \* bound on the seats of all calls together
    MaxNow      \* bound on the clock

ASSUME FanoutAssumption ==
    /\ Workers # {} /\ IsFiniteSet(Workers) /\ Idle # Gone
    /\ Limit \in [Seats -> Nat] /\ Cooldown \in Nat
    /\ MaxSeats \in Nat /\ MaxTotal \in Nat /\ MaxNow \in Nat

VARIABLES
    request,        \* request[c]: the seats asked for, in order
    threaded,       \* threaded[c]: supports_parallel(thread)
    pc, planned, dispatched, waiting, outcomes, rows,
    channel,        \* channel[c]: outcomes sent and not yet received
    in_flight, cooldown_until,
    now,            \* clock.now_millis()
    queue, worker, sender

Jobs == Calls \X (1..MaxSeats)
Pool == INSTANCE WorkerPool

local == <<pc, planned, dispatched, waiting, outcomes, rows>>
engine == <<in_flight, cooldown_until, now>>
pool == <<queue, worker, sender>>
asked == <<request, threaded>>
vars == <<asked, local, channel, engine, pool>>

Kinds == {"plain", "limited"}
None == [kind |-> "none", of |-> 0]
Outcome(k, i) == [kind |-> k, of |-> i]
Row(status, plan) == [status |-> status, plan |-> plan]
Requests == UNION {[1..n -> Seats] : n \in 0..MaxSeats}

Init ==
    /\ request \in [Calls -> Requests] /\ threaded \in [Calls -> BOOLEAN]
    /\ Cardinality({j \in Jobs : j[2] <= Len(request[j[1]])}) <= MaxTotal
    /\ pc = [c \in Calls |-> "acquire"]
    /\ planned = [c \in Calls |-> <<>>] /\ dispatched = [c \in Calls |-> 0]
    /\ waiting = [c \in Calls |-> 0]
    /\ outcomes = [c \in Calls |-> [i \in 1..MaxSeats |-> None]]
    /\ rows = [c \in Calls |-> <<>>] /\ channel = [c \in Calls |-> <<>>]
    /\ in_flight = [s \in Seats |-> 0] /\ cooldown_until = [s \in Seats |-> 0]
    /\ now = 0
    /\ Pool!PoolInit

\* The seat the call plans next.
Asking(c) == request[c][Len(planned[c]) + 1]
Planned(c, row) == planned' = [planned EXCEPT ![c] = Append(@, row)]
At(c, place) == pc' = [pc EXCEPT ![c] = place]
-----------------------------------------------------------------------------
\* Fanout::acquire grants a lease.
Acquires(s) ==
    /\ now >= cooldown_until[s] /\ (Limit[s] # 0 => in_flight[s] < Limit[s])
    /\ in_flight' = [in_flight EXCEPT ![s] = @ + 1]

\* Fanout::acquire refuses: the seat cools down or is at its limit.
Refuses(s) == now < cooldown_until[s] \/ (Limit[s] # 0 /\ in_flight[s] >= Limit[s])

Acquire(c) ==
    /\ pc[c] = "acquire" /\ Len(planned[c]) < Len(request[c])
    /\ \/ /\ Acquires(Asking(c))
          /\ At(c, "plan") /\ UNCHANGED planned
       \/ /\ Refuses(Asking(c))
          /\ Planned(c, Row("Unavailable", "none")) /\ UNCHANGED <<pc, in_flight>>
    /\ UNCHANGED <<asked, dispatched, waiting, outcomes, rows, channel,
                   cooldown_until, now, pool>>

\* Mutant: a failed plan keeps its lease.
NoReleasePlanning(s) == UNCHANGED in_flight

\* saturating_sub
Less(n) == IF n = 0 THEN 0 ELSE n - 1

release_planning(s) == in_flight' = [in_flight EXCEPT ![s] = Less(@)]

\* seat.plan answers with a parallel plan, a serialized plan or an error.
Plan(c) ==
    /\ pc[c] = "plan" /\ At(c, "acquire")
    /\ \/ /\ Planned(c, Row(IF threaded[c] THEN "Parallel" ELSE "Serialized", "parallel"))
          /\ UNCHANGED in_flight
       \/ Planned(c, Row("Serialized", "serialized")) /\ UNCHANGED in_flight
       \/ release_planning(Asking(c)) /\ Planned(c, Row("Unavailable", "none"))
    /\ UNCHANGED <<asked, dispatched, waiting, outcomes, rows, channel,
                   cooldown_until, now, pool>>

\* Every seat is planned: the dispatch loop runs.
Dispatching(c) == pc[c] = "acquire" /\ Len(planned[c]) = Len(request[c])

\* The next row of the dispatch loop: queued on the pool, run inline because
\* the thread mode has no parallelism, or without a parallel plan.
Dispatch(c) ==
    LET i == dispatched[c] + 1 IN
    /\ Dispatching(c) /\ i <= Len(planned[c])
    /\ dispatched' = [dispatched EXCEPT ![c] = i]
    /\ \/ /\ planned[c][i].plan = "parallel" /\ planned[c][i].status = "Parallel"
          /\ Pool!Execute(<<c, i>>)
          /\ waiting' = [waiting EXCEPT ![c] = @ + 1] /\ UNCHANGED outcomes
       \/ /\ planned[c][i].plan = "parallel" /\ planned[c][i].status = "Serialized"
          /\ \E k \in Kinds : outcomes' = [outcomes EXCEPT ![c][i] = Outcome(k, i)]
          /\ UNCHANGED <<waiting, pool>>
       \/ planned[c][i].plan # "parallel" /\ UNCHANGED <<waiting, outcomes, pool>>
    /\ UNCHANGED <<asked, pc, planned, rows, channel, engine>>

\* drop(tx): from here only jobs hold senders of the call's channel.
DropSender(c) ==
    /\ Dispatching(c) /\ dispatched[c] = Len(planned[c])
    /\ At(c, "receive")
    /\ UNCHANGED <<asked, planned, dispatched, waiting, outcomes, rows,
                   channel, engine, pool>>

SendersOf(c) == {j \in Pool!LiveJobs : j[1] = c}

\* Mutant: a disconnected channel is waited on for ever.
ReceiveOrWait(c) ==
    /\ pc[c] = "receive" /\ waiting[c] > 0 /\ channel[c] # <<>>
    /\ outcomes' = [outcomes EXCEPT ![c][Head(channel[c]).of] = Head(channel[c])]
    /\ channel' = [channel EXCEPT ![c] = Tail(@)]
    /\ waiting' = [waiting EXCEPT ![c] = @ - 1]
    /\ UNCHANGED <<asked, pc, planned, dispatched, rows, engine, pool>>


\* rx.recv(): an outcome, or an error once the channel is empty and no sender
\* is left.
Receive(c) ==
    /\ pc[c] = "receive" /\ waiting[c] > 0
    /\ \/ /\ channel[c] # <<>>
          /\ LET m == Head(channel[c]) IN outcomes' = [outcomes EXCEPT ![c][m.of] = m]
          /\ channel' = [channel EXCEPT ![c] = Tail(@)]
       \/ channel[c] = <<>> /\ SendersOf(c) = {} /\ UNCHANGED <<outcomes, channel>>
    /\ waiting' = [waiting EXCEPT ![c] = @ - 1]
    /\ UNCHANGED <<asked, pc, planned, dispatched, rows, engine, pool>>

\* The receive loop has made its turns.
Landing(c) == pc[c] = "receive" /\ waiting[c] = 0

\* What row i can turn out to be: its error, the result of its serialized
\* execution, its landed outcome, its failed outcome, or a lost outcome.
Results(c, i) ==
    LET row == planned[c][i]
        got == outcomes[c][i]
    IN CASE row.status = "Unavailable" -> {Outcome("unavailable", i)}
         [] row.plan = "serialized" -> {Outcome(k, i) : k \in Kinds}
         [] got.kind = "plain" -> {Outcome(k, got.of) : k \in Kinds}
         [] got.kind = "none" -> {Outcome("lost", i)}
         [] OTHER -> {got}

\* Mutant: a successful answer clears the seat's cooldown.
ReleaseClearing(s, r) ==
    /\ in_flight' = [in_flight EXCEPT ![s] = Less(@)]
    /\ cooldown_until' = [cooldown_until EXCEPT ![s] =
            IF r.kind = "limited" THEN now + Cooldown ELSE 0]

release(s, r) ==
    /\ in_flight' = [in_flight EXCEPT ![s] = Less(@)]
    /\ cooldown_until' = [cooldown_until EXCEPT ![s] =
            IF r.kind = "limited" THEN now + Cooldown ELSE @]

\* Land the next row and give its lease back.
Land(c) ==
    LET i == Len(rows[c]) + 1 IN
    /\ Landing(c) /\ i <= Len(planned[c])
    /\ \E r \in Results(c, i) :
        /\ rows' = [rows EXCEPT ![c] = Append(@, [r |-> r, at |-> now])]
        /\ IF planned[c][i].status # "Unavailable"
           THEN release(request[c][i], r)
           ELSE UNCHANGED <<in_flight, cooldown_until>>
    /\ outcomes' = [outcomes EXCEPT ![c][i] = None]
    /\ UNCHANGED <<asked, pc, planned, dispatched, waiting, channel, now, pool>>

\* The locals of execute_on go out of scope; its report keeps the rows.
Ends(c, place) ==
    /\ At(c, place)
    /\ planned' = [planned EXCEPT ![c] = <<>>]
    /\ dispatched' = [dispatched EXCEPT ![c] = 0]
    /\ waiting' = [waiting EXCEPT ![c] = 0]
    /\ outcomes' = [outcomes EXCEPT ![c] = [i \in 1..MaxSeats |-> None]]
    /\ channel' = [channel EXCEPT ![c] = <<>>]
    /\ UNCHANGED <<asked, rows, engine, pool>>

Return(c) ==
    /\ Landing(c) /\ Len(rows[c]) = Len(planned[c])
    /\ Ends(c, "returned")

\* Seat code panics on the calling thread (a plan, an inline dispatch or a
\* landing): the call unwinds, its leases stay taken.
Unwind(c) ==
    /\ \/ pc[c] = "plan"
       \/ /\ Dispatching(c) /\ dispatched[c] < Len(planned[c])
          /\ planned[c][dispatched[c] + 1] = Row("Serialized", "parallel")
       \/ /\ Landing(c) /\ Len(rows[c]) < Len(planned[c])
          /\ planned[c][Len(rows[c]) + 1].status # "Unavailable"
    /\ Ends(c, "unwound")
-----------------------------------------------------------------------------
Take(w) == Pool!Take(w) /\ UNCHANGED <<asked, local, channel, engine>>

\* A job sends (index, dispatch()); the send is ignored once the call is over.
Finish(w) ==
    /\ Pool!Finish(w)
    /\ LET c == worker[w][1]
           i == worker[w][2]
       IN IF pc[c] \in {"returned", "unwound"}
          THEN UNCHANGED channel
          ELSE \E k \in Kinds :
                channel' = [channel EXCEPT ![c] = Append(@, Outcome(k, i))]
    /\ UNCHANGED <<asked, local, engine>>

\* dispatch() panics.
Panic(w) == Pool!Panic(w) /\ UNCHANGED <<asked, local, channel, engine>>

\* The owner drops the pool when no call borrows it any more; the jobs that an
\* unwound call left behind may still be queued or running.
DropPool ==
    /\ \A c \in Calls : pc[c] \in {"returned", "unwound"}
    /\ Pool!DropBegins /\ UNCHANGED <<asked, local, channel, engine>>

Exit(w) == Pool!Exit(w) /\ UNCHANGED <<asked, local, channel, engine>>
PoolDropped == Pool!DropReturns /\ UNCHANGED <<asked, local, channel, engine>>

Tick == now < MaxNow /\ now' = now + 1
        /\ UNCHANGED <<asked, local, channel, in_flight, cooldown_until, pool>>

CallStep(c) ==
    \/ Acquire(c) \/ Plan(c) \/ Dispatch(c) \/ DropSender(c)
    \/ Receive(c) \/ Land(c) \/ Return(c) \/ Unwind(c)

Over(c) == pc[c] \in {"returned", "unwound"}
Terminated == sender = "dropped" /\ UNCHANGED vars

Next ==
    \/ \E c \in Calls : CallStep(c)
    \/ \E w \in Workers : Take(w) \/ Finish(w) \/ Panic(w) \/ Exit(w)
    \/ DropPool \/ PoolDropped \/ Tick \/ Terminated

Spec == Init /\ [][Next]_vars

\* Threads are scheduled and a dispatch ends by returning or by panicking.
FairSpec ==
    /\ Spec /\ WF_vars(PoolDropped)
    /\ \A c \in Calls : WF_vars(CallStep(c))
    /\ \A w \in Workers : WF_vars(Take(w) \/ Exit(w)) /\ WF_vars(Finish(w) \/ Panic(w))
-----------------------------------------------------------------------------
\* The rows of call c that hold a lease of seat s.
Holding(c, s) ==
    {i \in 1..Len(request[c]) :
        /\ request[c][i] = s /\ i > Len(rows[c])
        /\ \/ i <= Len(planned[c]) /\ planned[c][i].status # "Unavailable"
           \/ i = Len(planned[c]) + 1 /\ pc[c] = "plan"}

\* in_flight counts exactly the rows of live calls that hold a lease (a call
\* that unwound keeps what it held), and it never passes the seat's limit:
\* saturating_sub never hides a double release.
LeasesAreExact ==
    \A s \in Seats :
        /\ \A c \in Calls : Holding(c, s) # {} /\ pc[c] # "unwound" => in_flight[s] > 0
        /\ (\A c \in Calls : pc[c] # "unwound") =>
              in_flight[s] = Cardinality({ci \in Calls \X (1..MaxSeats) :
                                            ci[2] \in Holding(ci[1], s)})
        /\ Limit[s] # 0 => in_flight[s] <= Limit[s]


\* A rate-limited answer rests its seat: no call is granted a lease of it
\* until the cooldown counted from that answer is over.
RateLimitedSeatRests ==
    [][\A s \in Seats : in_flight'[s] > in_flight[s] =>
        \A c \in Calls : \A i \in DOMAIN rows[c] :
            (request[c][i] = s /\ rows[c][i].r.kind = "limited")
                => now >= rows[c][i].at + Cooldown]_vars

\* Every call comes back although dispatches panic, jobs are dropped with the
\* last worker and other calls keep the pool busy.
EveryCallComesBack == \A c \in Calls : <>Over(c)

\* Drop returns, and no job outlives it: what an unwound call left behind has
\* run to its end, or was dropped with the queue by the last worker's panic.
DropWaitsForEveryJob ==
    /\ sender = "dropping" ~> sender = "dropped"
    /\ [](sender = "dropped" => Pool!LiveJobs = {})

=============================================================================
