-------------------------- MODULE SmtpOrchestrator --------------------------
(***************************************************************************)
(* smtp_orchestrator_run(): one thread driving max_connections slots over   *)
(* one reactor, with another thread (or a signal) asking it to stop.        *)
(*                                                                          *)
(* Connections are attempts under AttemptContract, which SmtpConnection     *)
(* implements.  The reactor is the set of operations submitted and not yet  *)
(* reported, and its live count.  One action is one iteration of one of     *)
(* run()'s inner loops; time passes while run() works, while poll() blocks,  *)
(* and between two calls of run(), as long as the caller likes.             *)
(***************************************************************************)
EXTENDS AttemptContract, FiniteSets

CONSTANTS
    Slots,           \* the slot array, one element per connection
    Targets,         \* values of total_target run() is called with; 0: unbounded
    MaxAttempts,     \* bound: attempts explored when total_target is 0
    MaxRuns,         \* bound: how often the caller calls run()
    MaxPollInterval, \* SMTP_ORCH_MAX_POLL_INTERVAL_MS
    PollBatch,       \* SMTP_ORCH_POLL_BATCH
    Lag,             \* how long run() may work before poll(), and after it
    MaxIdle          \* bound: how long the caller waits before it calls run() again

ASSUME OrchAssumption ==
    /\ IsFiniteSet(Slots) /\ Slots # {}
    /\ Targets \subseteq Nat
    /\ {MaxAttempts, MaxRuns, MaxPollInterval, Lag, MaxIdle} \subseteq Nat
    /\ PollBatch \in Nat \ {0}

VARIABLES
    pc,             \* where run() is: "CALLER" (not running), "TOP", "FILL", "CHECK",
                    \* "POLL", "DISPATCH", "SWEEP"
    clock,          \* smtp_orch_now_ms()
    now_ms,         \* run()'s local copy of it
    poll_until,     \* when the current poll() gives up, or 0
    total_target,   \* run()'s argument
    stop_requested, \* orch->stop_requested
    stop_at,        \* history: when it was last set during a run
    in_use,         \* slots with in_use = 1
    conn,           \* slot -> its connection, as an attempt
    id,             \* slot -> log_id.connection_id of its connection
    next_id,        \* orch->next_connection_id
    submitted,      \* operations the reactor holds: [slot, id] of the submitter
    live_count,     \* reactor->live_count
    sockets,        \* how many sockets are open
    results,        \* results[i .. n) of the current batch
    stats,          \* orch->stats
    launched,       \* history: ids of the connections that got in flight
    reports,        \* history: id -> number of on_terminal() calls for it
    runs,           \* history: number of calls of run()
    run_at,         \* history: when it was last called
    aborted         \* an assertion failed: abort() has ended the process

slotVars == <<in_use, conn, id, next_id, submitted, live_count, sockets, stats,
              launched, reports>>
callVars == <<total_target, stop_requested, stop_at, runs, run_at>>
vars == <<pc, clock, now_ms, poll_until, total_target, stop_requested, stop_at, in_use,
          conn, id, next_id, submitted, live_count, sockets, results, stats, launched,
          reports, runs, run_at, aborted>>

Stats == [total_started : Nat, total_completed : Nat,
          total_succeeded : Nat, total_failed : Nat]
Operations == [slot : Slots, id : Nat]
InFlight   == {id[s] : s \in in_use}

TypeOK ==
    /\ pc \in {"CALLER", "TOP", "FILL", "CHECK", "POLL", "DISPATCH", "SWEEP"}
    /\ {clock, now_ms, poll_until, total_target, stop_at, runs, run_at} \subseteq Nat
    /\ next_id \in Nat \ {0}
    /\ stop_requested \in BOOLEAN /\ aborted \in BOOLEAN
    /\ in_use \subseteq Slots
    /\ DOMAIN conn = Slots
    /\ \A s \in Slots : IF s \in in_use THEN conn[s] \in ActiveAttempts
                                        ELSE conn[s] \in {Idle} \cup {Ended(o) : o \in Outcomes}
    /\ id \in [Slots -> Nat]
    /\ submitted \subseteq Operations /\ results \subseteq Operations
    /\ {live_count, sockets} \subseteq Nat
    /\ stats \in Stats
    /\ launched \subseteq 1..(next_id - 1)
    /\ reports \in [1..(next_id - 1) -> Nat]

-----------------------------------------------------------------------------
(* smtp_orchestrator_create()                                                *)

Init ==
    /\ pc = "CALLER"
    /\ clock = 0 /\ now_ms = 0 /\ poll_until = 0 /\ total_target = 0
    /\ stop_requested = FALSE /\ stop_at = 0 /\ aborted = FALSE
    /\ runs = 0 /\ run_at = 0
    /\ in_use = {} /\ conn = [s \in Slots |-> Idle] /\ id = [s \in Slots |-> 0]
    /\ next_id = 1 /\ launched = {} /\ reports = <<>>
    /\ submitted = {} /\ results = {} /\ live_count = 0 /\ sockets = 0
    /\ stats = [total_started |-> 0, total_completed |-> 0,
                total_succeeded |-> 0, total_failed |-> 0]

-----------------------------------------------------------------------------
(* The caller, and whoever asks for a stop.                                  *)

\* A request made before the call is forgotten by it.
Run(target) ==
    /\ pc = "CALLER" /\ ~aborted /\ runs < MaxRuns
    /\ pc' = "TOP" /\ runs' = runs + 1 /\ run_at' = clock
    /\ total_target' = target
    /\ stop_requested' = FALSE /\ stop_at' = 0
    /\ UNCHANGED <<clock, now_ms, poll_until, results, slotVars, aborted>>

\* smtp_orchestrator_request_stop(), from any thread or from on_terminal().
RequestStop ==
    /\ ~stop_requested /\ ~aborted
    /\ stop_requested' = TRUE /\ stop_at' = clock
    /\ UNCHANGED <<pc, clock, now_ms, poll_until, total_target, results, slotVars, runs,
                   run_at, aborted>>

-----------------------------------------------------------------------------
(* Starting attempts: the fill loop and smtp_orch_start_slot().              *)

\* Bug: only a bounded run looks at the flag.
Bug_StopOnlyIfBounded == stop_requested /\ total_target # 0

StopSeen == stop_requested

Top ==
    /\ pc = "TOP"
    /\ IF StopSeen THEN pc' = "CALLER" /\ UNCHANGED now_ms
                         ELSE pc' = "FILL" /\ now_ms' = clock
    /\ UNCHANGED <<clock, poll_until, results, slotVars, callVars, aborted>>

\* MaxAttempts bounds the attempts of an unbounded run.
AttemptsWanted == IF total_target = 0 THEN MaxAttempts ELSE total_target

\* Bug: the last attempt asked for is never started.
Bug_StopsOneShort == stats.total_started + 1 < AttemptsWanted

MoreWanted == stats.total_started < AttemptsWanted

\* Bug: an attempt that fails before it is in flight is never completed.
Bug_RejectedNotCompleted == [stats EXCEPT !.total_started = @ + 1, !.total_failed = @ + 1]

CountStarted == [stats EXCEPT !.total_started = @ + 1]
CountRejected == [stats EXCEPT !.total_started = @ + 1, !.total_completed = @ + 1,
                               !.total_failed = @ + 1]

\* socket() failed: no connection, no id, and no more attempts this round.
SocketFailed ==
    /\ stats' = CountRejected
    /\ pc' = "CHECK"
    /\ UNCHANGED <<in_use, conn, id, next_id, submitted, live_count, sockets, launched,
                   reports>>

\* The slot's connection is initialised under a fresh id.
InitConnection(s, attempt) ==
    /\ conn' = [conn EXCEPT ![s] = attempt]
    /\ id' = [id EXCEPT ![s] = next_id]
    /\ next_id' = next_id + 1
    /\ reports' = [i \in 1..next_id |-> IF i = next_id THEN 0 ELSE reports[i]]

\* submit_connect rejected it; the socket is closed again.
ConnectRejected(s) ==
    /\ InitConnection(s, Ended("ERROR"))
    /\ stats' = CountRejected
    /\ pc' = "CHECK"
    /\ UNCHANGED <<in_use, submitted, live_count, sockets, launched>>

\* submit_connect accepts up to max_connections live connections.
ConnectAccepted(s) ==
    /\ live_count < Cardinality(Slots)
    /\ InitConnection(s, Started(now_ms))
    /\ in_use' = in_use \cup {s}
    /\ submitted' = submitted \cup {[slot |-> s, id |-> next_id]}
    /\ live_count' = live_count + 1 /\ sockets' = sockets + 1
    /\ launched' = launched \cup {next_id}
    /\ stats' = CountStarted
    /\ UNCHANGED pc

\* Slots are interchangeable, so the loop's index order is abstracted.
StartSlot(s) ==
    /\ pc = "FILL" /\ s \notin in_use /\ MoreWanted
    /\ SocketFailed \/ ConnectRejected(s) \/ ConnectAccepted(s)
    /\ UNCHANGED <<clock, now_ms, poll_until, results, callVars, aborted>>

FillDone ==
    /\ pc = "FILL" /\ (in_use = Slots \/ ~MoreWanted)
    /\ pc' = "CHECK"
    /\ UNCHANGED <<clock, now_ms, poll_until, results, slotVars, callVars, aborted>>

-----------------------------------------------------------------------------
(* Done?  If not, how long may poll() block?                                 *)

\* Bug: the run is over once every attempt has been started.
Bug_DoneWhenStarted == total_target # 0 /\ stats.total_started >= total_target

\* Both breaks of the loop; the second, "nothing in flight and nothing left to
\* start", never applies without the first.
RunDone ==
    /\ total_target # 0 /\ stats.total_started >= total_target
    /\ stats.total_completed >= total_target \/ in_use = {}

\* Bug: the latest deadline decides instead of the soonest.
Bug_LatestDeadline ==
    CHOOSE d \in {conn[s].deadline : s \in in_use} : \A s \in in_use : conn[s].deadline <= d

SoonestDeadline ==
    CHOOSE d \in {conn[s].deadline : s \in in_use} : \A s \in in_use : d <= conn[s].deadline

\* Bug: the safety net of MaxPollInterval is missing.
Bug_NoSafetyNet(remaining) == remaining

AtMostInterval(remaining) ==
    IF remaining < MaxPollInterval THEN remaining ELSE MaxPollInterval

\* smtp_orch_next_poll_timeout_ms()
NextPollTimeout ==
    IF in_use = {} THEN MaxPollInterval
    ELSE IF SoonestDeadline <= now_ms THEN 0
    ELSE AtMostInterval(SoonestDeadline - now_ms)

Check ==
    /\ pc = "CHECK"
    /\ IF RunDone
         THEN pc' = "CALLER" /\ UNCHANGED poll_until
         ELSE pc' = "POLL" /\ poll_until' = clock + NextPollTimeout
    /\ UNCHANGED <<clock, now_ms, results, slotVars, callVars, aborted>>

-----------------------------------------------------------------------------
(* smtp_reactor_poll(): up to PollBatch of the submitted operations have     *)
(* completed; none, if it timed out or a signal interrupted it.              *)

Poll ==
    /\ pc = "POLL"
    /\ \E batch \in SUBSET submitted :
          /\ Cardinality(batch) <= PollBatch
          /\ results' = batch
          /\ submitted' = submitted \ batch
    /\ now_ms' = clock /\ poll_until' = 0
    /\ pc' = "DISPATCH"
    /\ UNCHANGED <<clock, in_use, conn, id, next_id, live_count, sockets,
                   stats, launched, reports, callVars, aborted>>

-----------------------------------------------------------------------------
(* The end of an attempt: smtp_orch_finish_slot().                           *)

CountFinished(outcome) ==
    [stats EXCEPT !.total_completed = @ + 1,
                  !.total_succeeded = IF outcome = "READY" THEN @ + 1 ELSE @,
                  !.total_failed    = IF outcome = "READY" THEN @ ELSE @ + 1]

\* Bug: the reactor is not told to forget the socket.
Bug_ReleaseOnlySocket(s) ==
    /\ sockets' = sockets - 1
    /\ submitted' = {o \in submitted : o.slot # s}
    /\ UNCHANGED live_count

\* Bug: the registration survives, as if forget and close were both skipped.
Bug_KeepRegistration(s) ==
    live_count' = live_count - 1 /\ sockets' = sockets - 1 /\ UNCHANGED submitted

\* smtp_reactor_forget() and closing the socket: epoll and kqueue drop the
\* registration with it.  (IOCP does not: see ReactorIocp.)
Release(s) ==
    /\ live_count' = live_count - 1
    /\ sockets' = sockets - 1
    /\ submitted' = {o \in submitted : o.slot # s}

FinishSlot(s, outcome) ==
    /\ reports' = [reports EXCEPT ![id[s]] = @ + 1]
    /\ conn' = [conn EXCEPT ![s] = Ended(outcome)]
    /\ Release(s)
    /\ in_use' = in_use \ {s}
    /\ stats' = CountFinished(outcome)
    /\ UNCHANGED <<id, next_id, launched>>

-----------------------------------------------------------------------------
(* Dispatching a batch, and the timeout sweep.                               *)

\* Bug: the operation that continues an attempt is not submitted.
Bug_NotResubmitted(s) == s \in in_use /\ UNCHANGED submitted

Resubmit(s) == submitted' = submitted \cup {[slot |-> s, id |-> id[s]]}

\* The connection goes on with its next operation.
ContinueSlot(s, attempt) ==
    /\ conn' = [conn EXCEPT ![s] = attempt]
    /\ Resubmit(s)
    /\ UNCHANGED <<in_use, id, next_id, live_count, sockets, stats, launched, reports>>

\* One result: it is routed to the slot its user_data points into, whatever
\* connection is in it.  on_io() asserts that it is not a finished one.
Dispatch(r) ==
    /\ pc = "DISPATCH" /\ ~aborted
    /\ results' = results \ {r}
    /\ aborted' = (r.slot \notin in_use)
    /\ \E c \in OnIoOutcomes(conn[r.slot], now_ms) :
          IF c.phase = "ACTIVE" THEN ContinueSlot(r.slot, c)
                                ELSE FinishSlot(r.slot, c.phase)
    /\ UNCHANGED <<pc, clock, now_ms, poll_until, callVars>>

DispatchDone ==
    /\ pc = "DISPATCH" /\ results = {} /\ ~aborted
    /\ pc' = "SWEEP"
    /\ UNCHANGED <<clock, now_ms, poll_until, results, slotVars, callVars, aborted>>

\* Bug: the sweep does not skip the free slots.
Bug_SweepFreeSlots == {s \in Slots : Expired(conn[s], now_ms)}

Overdue == {s \in in_use : Expired(conn[s], now_ms)}

Sweep(s) ==
    /\ pc = "SWEEP" /\ s \in Overdue
    /\ FinishSlot(s, "TIMED_OUT")
    /\ UNCHANGED <<pc, clock, now_ms, poll_until, results, callVars, aborted>>

SweepDone ==
    /\ pc = "SWEEP" /\ Overdue = {}
    /\ pc' = "TOP"
    /\ UNCHANGED <<clock, now_ms, poll_until, results, slotVars, callVars, aborted>>

-----------------------------------------------------------------------------

\* Time passes while poll() blocks; while run() works, before poll() and after it
\* (no statement of either half reads the clock but its first, so the time a half
\* takes is taken at its end); and while the caller does something else, with
\* whatever is still in flight.  It stands still once nothing is and nothing is
\* left to start (a bound on the idling of an unbounded run).
Tick ==
    /\ in_use # {} \/ MoreWanted
    /\ ~aborted
    /\ \/ pc = "POLL" /\ clock < poll_until
       \/ pc \in {"CHECK", "SWEEP"} /\ clock < now_ms + Lag
       \/ pc = "CALLER" /\ in_use # {} /\ runs < MaxRuns /\ clock < now_ms + MaxIdle
    /\ clock' = clock + 1
    /\ UNCHANGED <<pc, now_ms, poll_until, results, slotVars, callVars, aborted>>

\* The caller never calls run() again.
Over == pc = "CALLER" /\ runs = MaxRuns /\ UNCHANGED vars

Loop ==
    \/ Top
    \/ \E s \in Slots : StartSlot(s)
    \/ FillDone
    \/ Check
    \/ Poll
    \/ \E r \in results : Dispatch(r)
    \/ DispatchDone
    \/ \E s \in Slots : Sweep(s)
    \/ SweepDone

Next ==
    \/ \E target \in Targets : Run(target)
    \/ RequestStop
    \/ Loop
    \/ Tick
    \/ Over

Spec == Init /\ [][Next]_vars

\* The thread is scheduled and on_terminal() returns; and iterations take
\* time, so that infinitely many of them take infinitely long.
FairSpec == Spec /\ WF_vars(Loop) /\ SF_vars(Tick)

-----------------------------------------------------------------------------
(* Properties                                                                *)

\* The statistics account for every attempt, including those that failed
\* before they got in flight, across stops and further runs: run()'s own
\* termination test depends on it.
StatsAddUp ==
    /\ stats.total_started = stats.total_completed + Cardinality(in_use)
    /\ stats.total_completed = stats.total_succeeded + stats.total_failed

\* on_terminal() is called exactly once for every connection that got in
\* flight and is no longer: not twice when a completion and a timeout meet in
\* one iteration, not never when a stop comes in between.
ReportedExactlyOnce ==
    \A i \in DOMAIN reports : reports[i] = IF i \in launched \ InFlight THEN 1 ELSE 0

\* Sockets and the reactor's live count follow the slots in use: none leaks,
\* so a free slot is never refused for capacity.
ResourcesFollowSlots == live_count = Cardinality(in_use) /\ sockets = Cardinality(in_use)

\* What poll() reports reaches the attempt that submitted it: never a finished
\* connection (on_io() would abort the process), never a slot's next tenant.
ResultsReachTheirAttempt ==
    \A r \in results : r.slot \in in_use /\ id[r.slot] = r.id

\* Every attempt in flight has exactly one operation with the reactor or in
\* the batch being dispatched: otherwise it would sit there until its deadline.
OneOperationEach ==
    \A s \in in_use : Cardinality({o \in submitted \cup results : o.slot = s}) = 1

Later(s, t) == IF s < t THEN t ELSE s

\* While run() runs, no attempt outlives its deadline by more than the work of
\* an iteration and a half, however long the other slots' deadlines let poll()
\* block.  Of an attempt that a stopped run left in flight, and whose deadline
\* passed while nobody ran, the same holds from the next call on.
SweptInTime ==
    pc # "CALLER" =>
        \A s \in in_use : clock <= Later(conn[s].deadline, run_at) + 3 * Lag

\* A stop is noticed within one poll interval and the work of one iteration.
StopNoticed ==
    stop_requested /\ pc # "CALLER" => clock <= stop_at + MaxPollInterval + 2 * Lag

\* Unless stopped, run() returns only when the attempts asked for have all been
\* started and reported; the first run leaves nothing in flight.
ReturnsOnlyWhenDone ==
    [][pc # "CALLER" /\ pc' = "CALLER" =>
         \/ stop_requested
         \/ /\ total_target # 0 /\ stats.total_completed >= total_target
            /\ runs = 1 => in_use = {} /\ stats.total_started = total_target]_vars

\* The reactor as this loop uses it: a slot's socket and its operation.
ReactorUse == INSTANCE ReactorContract WITH
    Handles        <- Slots,
    MaxConnections <- Cardinality(Slots),
    MaxOut         <- PollBatch,
    tracked        <- in_use,
    pending        <- {o.slot : o \in submitted},
    batch          <- {r.slot : r \in results}

\* The loop keeps its side of the contract that the backends implement: every
\* result is answered, before the next poll(), by the slot's next operation or
\* by forget, and max_connections is never exceeded.
UsesReactorAsAgreed == ReactorUse!Spec

\* A bounded run returns by itself, whatever the peers do and however often
\* socket() fails.
BoundedRunReturns == (pc = "TOP" /\ total_target # 0) ~> (pc = "CALLER")

\* Every run that is asked to stop returns.
StopEndsRun == (pc # "CALLER" /\ stop_requested) ~> (pc = "CALLER")
=============================================================================
