------------------------------ MODULE Reactor ------------------------------
(***************************************************************************)
(* The two readiness backends of smtp_reactor.h, epoll and kqueue, between  *)
(* a caller that behaves as the orchestrator does and a kernel whose        *)
(* sockets change state at any time.  poll() is modelled event by event, so *)
(* that a socket may change between being reported ready and being read.    *)
(*                                                                          *)
(* Data and readiness levels are abstracted: a connected socket may be      *)
(* reported ready at any time, and its recv() or send() may still find      *)
(* nothing to do (EAGAIN).                                                  *)
(***************************************************************************)
EXTENDS Integers, FiniteSets

CONSTANTS
    Sockets,         \* descriptors; a closed one may be opened again
    MaxConnections,  \* max_connections
    MaxOut,          \* max_out, the room in the caller's result array
    Backends         \* the builds to consider: "EPOLL", "KQUEUE"

ASSUME ReactorAssumption ==
    /\ IsFiniteSet(Sockets)
    /\ MaxConnections \in Nat \ {0} /\ MaxOut \in Nat \ {0}
    /\ Backends \subseteq {"EPOLL", "KQUEUE"}

VARIABLES
    backend,    \* fixed when the program is built
    st,         \* kernel: the state of each descriptor
    registered, \* sockets submit_connect accepted and forget has not released
    armed,      \* kernel: directions watched, per socket
    op,         \* op->kind in the socket's smtp_io_op
    due,        \* kind of the operation accepted and not reported, or "NONE"
    live_count, \* r->live_count
    pc,         \* "CALLER", or "BATCH" inside poll()
    raw,        \* events of the current poll() still to be handled
    results,    \* result_out[], as far as the caller has not consumed it
    ended       \* "NO", or how the process ended: "ASSERT", "SIGPIPE"

pollVars == <<pc, raw>>
opVars   == <<registered, armed, op, due, live_count>>
vars == <<backend, st, registered, armed, op, due, live_count, pc, raw, results, ended>>

Kinds == {"CONNECT", "READ", "WRITE"}

\* "DEAD": connect() failed on the spot, so SO_ERROR holds nothing; "REFUSED":
\* it failed later; "EOF": the peer has sent all it will; "RESET": it is gone.
SocketStates ==
    {"CLOSED", "CONNECTING", "CONNECTED", "DEAD", "REFUSED", "EOF", "RESET"}
Results == [sock : Sockets, kind : Kinds, result : {"OK", "EOF", "ERROR"}]

TypeOK ==
    /\ backend \in Backends
    /\ st \in [Sockets -> SocketStates]
    /\ registered \subseteq Sockets
    /\ armed \in [Sockets -> SUBSET {"IN", "OUT"}]
    /\ op \in [Sockets -> Kinds \cup {"NONE"}]
    /\ due \in [Sockets -> Kinds \cup {"NONE"}]
    /\ live_count \in 0..MaxConnections
    /\ pc \in {"CALLER", "BATCH"}
    /\ raw \subseteq Sockets
    /\ results \subseteq Results
    /\ ended \in {"NO", "ASSERT", "SIGPIPE"}

Init ==
    /\ backend \in Backends
    /\ st = [s \in Sockets |-> "CLOSED"]
    /\ registered = {} /\ live_count = 0
    /\ armed = [s \in Sockets |-> {}]
    /\ op = [s \in Sockets |-> "NONE"] /\ due = [s \in Sockets |-> "NONE"]
    /\ pc = "CALLER" /\ raw = {} /\ results = {}
    /\ ended = "NO"

CallersTurn == pc = "CALLER" /\ ended = "NO"

-----------------------------------------------------------------------------
(* Submissions.  Each records the operation in op, then arms exactly the     *)
(* direction it needs.                                                       *)

Filter(kind) == IF kind = "READ" THEN "IN" ELSE "OUT"

\* Bug: a direction that was armed for the previous operation is not re-armed.
Bug_ArmOnChange(s, kind) ==
    armed' = IF Filter(kind) = Filter(op[s]) THEN armed
             ELSE [armed EXCEPT ![s] = {Filter(kind)}]

\* epoll: MOD replaces the mask.  kqueue: both filters are deleted, one added.
Arm(s, kind) == armed' = [armed EXCEPT ![s] = {Filter(kind)}]

\* Bug: the capacity check is off by one.
Bug_RoomForOneMore == live_count <= MaxConnections

HasRoom == live_count < MaxConnections

\* The caller opens a socket; smtp_reactor_submit_connect() calls connect(),
\* whose result it ignores, and registers.  A rejection leaves no trace once
\* the caller has closed the socket again.
SubmitConnect(s) ==
    /\ CallersTurn
    /\ st[s] = "CLOSED"
    /\ HasRoom
    /\ \E now \in {"CONNECTING", "CONNECTED", "DEAD"} : st' = [st EXCEPT ![s] = now]
    /\ op' = [op EXCEPT ![s] = "CONNECT"]
    /\ due' = [due EXCEPT ![s] = "CONNECT"]
    /\ Arm(s, "CONNECT")
    /\ registered' = registered \cup {s}
    /\ live_count' = live_count + 1
    /\ UNCHANGED <<backend, pollVars, results, ended>>

\* smtp_reactor_submit_read() or _write(): the caller answers a result with
\* the connection's next operation.  After an error there is none; a rejected
\* submission ends in Forget, too.
SubmitRw(r, kind) ==
    /\ CallersTurn
    /\ r \in results /\ r.result # "ERROR"
    /\ results' = results \ {r}
    /\ op' = [op EXCEPT ![r.sock] = kind]
    /\ due' = [due EXCEPT ![r.sock] = kind]
    /\ Arm(r.sock, kind)
    /\ UNCHANGED <<backend, st, registered, live_count, pollVars, ended>>

\* Bug: the live count is decremented twice.
Bug_ForgetTwice == live_count' = live_count - 2

ReleaseCapacity == live_count' = live_count - 1

\* smtp_reactor_forget(), then the caller closes the socket: in answer to a
\* result, or, once the batch has been worked off, because of a timeout.
Forget(s) ==
    /\ CallersTurn
    /\ s \in registered
    /\ results = {} \/ \E r \in results : r.sock = s
    /\ ended' = IF live_count > 0 THEN "NO" ELSE "ASSERT"
    /\ armed' = [armed EXCEPT ![s] = {}]
    /\ registered' = registered \ {s}
    /\ ReleaseCapacity
    /\ due' = [due EXCEPT ![s] = "NONE"]
    /\ results' = {r \in results : r.sock # s}
    /\ st' = [st EXCEPT ![s] = "CLOSED"]
    /\ UNCHANGED <<backend, op, pollVars>>

-----------------------------------------------------------------------------
(* smtp_reactor_poll()                                                       *)

Ready == {"CONNECTED", "REFUSED", "EOF", "RESET"}

\* What epoll_wait() or kevent() may report of s.  epoll reports a hang-up or
\* an error of every registered descriptor, even one with no direction armed;
\* kqueue never reports a socket that is neither connected nor in error.
Event(s) ==
    \/ armed[s] # {} /\ st[s] \in Ready
    \/ backend = "EPOLL" /\ s \in registered /\ st[s] \in {"DEAD", "REFUSED", "RESET"}

\* Bug: the batch is sized for the reactor's own event array only.
Bug_OwnArrayOnly == MaxConnections

\* Only as many events as fit into the caller's array are looked at.
BatchLimit == IF MaxOut < MaxConnections THEN MaxOut ELSE MaxConnections

Poll ==
    /\ CallersTurn /\ results = {}
    /\ \E events \in SUBSET {s \in Sockets : Event(s)} :
          /\ events # {} /\ Cardinality(events) <= BatchLimit
          /\ raw' = events
    /\ pc' = "BATCH"
    /\ UNCHANGED <<backend, st, opVars, results, ended>>

\* Bug: kqueue always deletes the write filter.
Bug_DisarmWrite(s) ==
    armed' = [armed EXCEPT ![s] = IF backend = "EPOLL" THEN {} ELSE @ \ {"OUT"}]

\* epoll: MOD to an empty mask, which also forgets the op.  kqueue: delete the
\* filter of the operation that completed.
Disarm(s) ==
    armed' = [armed EXCEPT ![s] =
                IF backend = "EPOLL" THEN {} ELSE @ \ {Filter(op[s])}]

\* A completion: the direction is disarmed and a result written.
Complete(s, outcome) ==
    /\ Disarm(s)
    /\ due' = [due EXCEPT ![s] = "NONE"]
    /\ results' = results \cup {[sock |-> s, kind |-> op[s], result |-> outcome]}
    /\ UNCHANGED <<op, registered, live_count, ended>>

\* EAGAIN after all: the event is skipped, and reported again.
Skip == UNCHANGED <<opVars, results, ended>>

\* smtp_reactor_handle_connect_ready(): SO_ERROR is the verdict.
ConnectReady(s) ==
    Complete(s, IF st[s] \in {"REFUSED", "RESET"} THEN "ERROR" ELSE "OK")

\* smtp_reactor_handle_read_ready()
ReadReady(s) ==
    \/ st[s] \in {"CONNECTED", "EOF"} /\ Complete(s, "OK")
    \/ st[s] = "CONNECTED" /\ Skip
    \/ st[s] = "EOF" /\ Complete(s, "EOF")
    \/ st[s] \in {"DEAD", "REFUSED", "RESET"} /\ Complete(s, "ERROR")

\* smtp_reactor_handle_write_ready().  epoll's send() has MSG_NOSIGNAL; kqueue's
\* has not, and nobody sets SO_NOSIGPIPE or ignores the signal.
Killed == ended' = "SIGPIPE" /\ UNCHANGED <<opVars, results>>

WriteReady(s) ==
    \/ st[s] \in {"CONNECTED", "EOF"} /\ (Complete(s, "OK") \/ Skip)
    \/ st[s] \in {"DEAD", "REFUSED"} /\ Complete(s, "ERROR")
    \/ st[s] = "RESET" /\ backend = "EPOLL" /\ Complete(s, "ERROR")
    \/ st[s] = "RESET" /\ backend = "KQUEUE" /\ Killed

\* An event that carries no op, or an op of no kind, trips an assertion.
NoOp(s) == armed[s] = {} \/ op[s] = "NONE"

HandleEvent(s) ==
    /\ pc = "BATCH" /\ ended = "NO"
    /\ s \in raw
    /\ raw' = raw \ {s}
    /\ IF NoOp(s)
         THEN ended' = "ASSERT" /\ UNCHANGED <<opVars, results>>
         ELSE \/ op[s] = "CONNECT" /\ ConnectReady(s)
              \/ op[s] = "READ" /\ ReadReady(s)
              \/ op[s] = "WRITE" /\ WriteReady(s)
    /\ UNCHANGED <<backend, st, pc>>

PollReturns ==
    /\ pc = "BATCH" /\ raw = {} /\ ended = "NO"
    /\ pc' = "CALLER"
    /\ UNCHANGED <<backend, st, opVars, raw, results, ended>>

-----------------------------------------------------------------------------
(* The network, and the end of the process.                                  *)

PeerActs(s) ==
    /\ ended = "NO"
    /\ \/ st[s] = "CONNECTING" /\ st' \in {[st EXCEPT ![s] = "CONNECTED"],
                                           [st EXCEPT ![s] = "REFUSED"]}
       \/ st[s] = "CONNECTED" /\ st' \in {[st EXCEPT ![s] = "EOF"],
                                          [st EXCEPT ![s] = "RESET"]}
       \/ st[s] = "EOF" /\ st' = [st EXCEPT ![s] = "RESET"]
    /\ UNCHANGED <<backend, opVars, pollVars, results, ended>>

Over == ended # "NO" /\ UNCHANGED vars

Next ==
    \/ \E s \in Sockets : SubmitConnect(s)
    \/ \E r \in results, kind \in {"READ", "WRITE"} : SubmitRw(r, kind)
    \/ \E s \in Sockets : Forget(s)
    \/ Poll
    \/ \E s \in Sockets : HandleEvent(s)
    \/ PollReturns
    \/ \E s \in Sockets : PeerActs(s)
    \/ Over

Spec == Init /\ [][Next]_vars

-----------------------------------------------------------------------------
(* Properties                                                                *)

\* poll() never meets an event without an op, and forget never releases what is
\* not held: epoll would report the hang-up of a socket that is disarmed, so
\* this rests on the caller's having re-armed or forgotten every socket it got
\* a result for before it polls again.
NoAssertFails == ended # "ASSERT"

\* What the kernel watches is what has been submitted: "strictly one op in
\* flight per fd", in one direction, for as long as it has not been reported.
\* An event skipped or left over by a full batch therefore comes again, and no
\* event comes for an operation that is over, nor for a previous socket of the
\* same number.
WatchedAsSubmitted ==
    \A s \in Sockets :
       /\ armed[s] = IF due[s] = "NONE" THEN {} ELSE {Filter(due[s])}
       /\ due[s] # "NONE" => op[s] = due[s] /\ s \in registered

\* Every socket from submit_connect to forget has one operation due or one
\* result waiting, never both or neither; the live count counts these sockets;
\* and poll() works only on events of operations that are due.
OneOpEach ==
    /\ live_count = Cardinality(registered)
    /\ \A s \in Sockets : s \in registered <=> st[s] # "CLOSED"
    /\ \A s \in registered : due[s] = "NONE" <=> \E r \in results : r.sock = s
    /\ \A r \in results : r.sock \in registered
    /\ \A r1, r2 \in results : r1.sock = r2.sock => r1 = r2
    /\ \A s \in raw : due[s] # "NONE"
    /\ pc = "CALLER" => raw = {}

Due      == {s \in Sockets : due[s] # "NONE"}
Answered == {r.sock : r \in results}

\* The caller's array is never overrun (KeepsReactorContract): the proof needs that
\* the results written and the events still to be handled fit into it together.
BatchFits == Cardinality(Answered \cup raw) <= MaxOut

\* What the caller sees: it learns of completions when poll() returns.
Pending  == IF pc = "BATCH" THEN Due \cup Answered ELSE Due
Batch    == IF pc = "BATCH" THEN {} ELSE Answered

Contract == INSTANCE ReactorContract WITH
    Handles <- Sockets,
    tracked <- registered,
    pending <- Pending,
    batch   <- Batch

\* Both backends keep the completion-based contract of smtp_reactor.h, within
\* max_connections: one report per submission, none lost, none after forget.
KeepsReactorContract == Contract!Spec

=============================================================================
