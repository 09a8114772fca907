---------------------------- MODULE ReactorIocp ----------------------------
(***************************************************************************)
(* The completion backend of smtp_reactor.h (IOCP), between a caller that   *)
(* behaves as the orchestrator does and a kernel that works on accepted     *)
(* operations in its own time.  An operation is identified by the address   *)
(* of the OVERLAPPED inside the slot's smtp_io_op, so the kernel and poll() *)
(* see whatever that struct holds by then.                                  *)
(*                                                                          *)
(* The caller's results are worked off in order; between two batches a      *)
(* deadline may expire, and then a socket is closed with its operation      *)
(* still in flight.  Sockets are numbered in the order they are opened.     *)
(***************************************************************************)
EXTENDS Integers, Sequences, FiniteSets

CONSTANTS
    Slots,           \* connection slots; each embeds one smtp_io_op
    MaxConnections,  \* max_connections
    MaxOut,          \* max_out, the room in the caller's result array
    MaxSockets       \* bound: how many sockets are opened

ASSUME IocpAssumption ==
    /\ IsFiniteSet(Slots)
    /\ MaxConnections \in Nat \ {0} /\ MaxOut \in Nat \ {0} /\ MaxSockets \in Nat

VARIABLES
    tracked,    \* slots whose connection is in flight, with an open socket
    sock,       \* slot -> op->sock
    opened,     \* sockets opened so far
    op,         \* slot -> op->kind, "NONE" in a struct of zeros
    ovl,        \* slot -> op->ovl: what WSAGetOverlappedResult() finds there
    inflight,   \* kernel: operations it works on
    port,       \* kernel: completion packets not yet dequeued, oldest first
    live_count, \* r->live_count
    results,    \* result_out[], as far as the caller has not consumed it
    abandoned,  \* history: a connection was dropped, its operation outstanding
    ended       \* "NO", or "ASSERT": abort() has ended the process

opVars == <<sock, opened, op, ovl>>
vars == <<tracked, opVars, inflight, port, live_count, results, abandoned, ended>>

Kinds == {"CONNECT", "READ", "WRITE"}
Operations == [slot : Slots, sock : 1..MaxSockets, kind : Kinds]
Packets == [of : Operations, ok : BOOLEAN]
\* A result names a slot (its user_data), a kind and a verdict; of an op that has
\* been wiped, user_data is NULL and the kind "NONE".  "packet" is history: the
\* completion the result was made from.
Results == [slot : Slots, kind : Kinds \cup {"NONE"}, ok : BOOLEAN, packet : Packets]

TypeOK ==
    /\ tracked \subseteq Slots
    /\ sock \in [Slots -> 0..MaxSockets] /\ opened \in 0..MaxSockets
    /\ op \in [Slots -> Kinds \cup {"NONE"}]
    /\ ovl \in [Slots -> {"CLEAR", "PENDING", "OK", "ERROR"}]
    /\ inflight \subseteq Operations
    /\ port \in Seq(Packets)
    /\ live_count \in 0..MaxConnections
    /\ results \in Seq(Results)
    /\ abandoned \in BOOLEAN
    /\ ended \in {"NO", "ASSERT"}

Init ==
    /\ tracked = {} /\ opened = 0 /\ live_count = 0
    /\ sock = [s \in Slots |-> 0]
    /\ op = [s \in Slots |-> "NONE"] /\ ovl = [s \in Slots |-> "CLEAR"]
    /\ inflight = {} /\ port = <<>> /\ results = <<>>
    /\ abandoned = FALSE /\ ended = "NO"

-----------------------------------------------------------------------------
(* Submissions.  Each overwrites the slot's op, OVERLAPPED included, and     *)
(* then hands it to the kernel, which may refuse it on the spot.             *)

Accepted(s, n, kind) ==
    /\ op' = [op EXCEPT ![s] = kind]
    /\ ovl' = [ovl EXCEPT ![s] = "PENDING"]
    /\ inflight' = inflight \cup {[slot |-> s, sock |-> n, kind |-> kind]}

Refused(s, kind) ==
    /\ op' = [op EXCEPT ![s] = kind]
    /\ ovl' = [ovl EXCEPT ![s] = "CLEAR"]
    /\ UNCHANGED inflight

\* smtp_connection_init() has zeroed the slot's op, and submit_connect() has not
\* come to fill it in.
Wiped(s) ==
    /\ sock' = [sock EXCEPT ![s] = 0]
    /\ Refused(s, "NONE")

\* Bug: the capacity check is off by one.
Bug_RoomForOneMore == live_count <= MaxConnections

HasRoom == live_count < MaxConnections

\* The next attempt of a free slot: a new socket, bound and associated with the
\* port, and ConnectEx().  No room, a failed bind or a failed association ends it
\* before the op is filled in, a refusal of ConnectEx() after that; either way the
\* socket is closed again at once.
SubmitConnect(s) ==
    /\ ended = "NO" /\ results = <<>>
    /\ s \notin tracked /\ opened < MaxSockets
    /\ opened' = opened + 1
    /\ \/ /\ HasRoom
          /\ sock' = [sock EXCEPT ![s] = opened + 1]
          /\ Accepted(s, opened + 1, "CONNECT")
          /\ tracked' = tracked \cup {s} /\ live_count' = live_count + 1
       \/ /\ HasRoom
          /\ sock' = [sock EXCEPT ![s] = opened + 1]
          /\ Refused(s, "CONNECT")
          /\ UNCHANGED <<tracked, live_count>>
       \/ Wiped(s) /\ UNCHANGED <<tracked, live_count>>
    /\ UNCHANGED <<port, results, abandoned, ended>>

\* An operation of the slot is with the kernel, or its packet still in the port.
Outstanding(s) ==
    \/ \E o \in inflight : o.slot = s
    \/ \E i \in DOMAIN port : port[i].of.slot = s

\* smtp_reactor_forget(), which only gives the capacity back, and closesocket().
Release(s) ==
    /\ tracked' = tracked \ {s}
    /\ live_count' = live_count - 1
    /\ abandoned' = (abandoned \/ Outstanding(s))

\* The caller takes the next result.  The connection of that slot goes on with
\* another operation, or ends, an operation the kernel refuses included; for a
\* slot without one, or for no slot at all, on_io() asserts.
TakeResult ==
    /\ ended = "NO" /\ results # <<>>
    /\ results' = Tail(results)
    /\ LET r == Head(results) IN
         \/ /\ r.slot \in tracked /\ r.ok
            /\ \E kind \in {"READ", "WRITE"} : Accepted(r.slot, sock[r.slot], kind)
            /\ UNCHANGED <<sock, tracked, live_count, abandoned, ended>>
         \/ /\ r.slot \in tracked
            /\ Release(r.slot)
            /\ \/ UNCHANGED <<op, ovl, inflight>>
               \/ r.ok /\ \E kind \in {"READ", "WRITE"} : Refused(r.slot, kind)
            /\ UNCHANGED <<sock, ended>>
         \/ /\ r.slot \notin tracked
            /\ ended' = "ASSERT"
            /\ UNCHANGED <<sock, op, ovl, inflight, tracked, live_count, abandoned>>
    /\ UNCHANGED <<opened, port>>

\* The sweep, after a batch: the deadline of s has passed.
TimeOut(s) ==
    /\ ended = "NO" /\ results = <<>> /\ s \in tracked
    /\ Release(s)
    /\ UNCHANGED <<opVars, inflight, port, results, ended>>

-----------------------------------------------------------------------------
(* The kernel: it writes the outcome into the OVERLAPPED it was given and    *)
(* posts a packet.  Closing a socket cancels what is in flight on it.        *)

IsOpen(o) == o.slot \in tracked /\ sock[o.slot] = o.sock

KernelCompletes(o, ok) ==
    /\ ended = "NO" /\ o \in inflight
    /\ ok => IsOpen(o)
    /\ inflight' = inflight \ {o}
    /\ ovl' = [ovl EXCEPT ![o.slot] = IF ok THEN "OK" ELSE "ERROR"]
    /\ port' = Append(port, [of |-> o, ok |-> ok])
    /\ UNCHANGED <<tracked, sock, opened, op, live_count, results, abandoned, ended>>

-----------------------------------------------------------------------------
(* smtp_reactor_poll()                                                       *)

\* Dequeuing is final, so no more is asked for than the caller can be given.
Request == IF MaxConnections < MaxOut THEN MaxConnections ELSE MaxOut

\* Bug: success is assumed, as for a readiness backend.
Bug_AssumeSuccess(s) == {TRUE}

\* WSAGetOverlappedResult() on op->sock: an operation that is still pending, or
\* a socket that has been closed, is an error; but a closed socket's number may
\* belong to another socket by now, and an OVERLAPPED of zeros reads as success.
Verdicts(s) ==
    IF ovl[s] \in {"PENDING", "ERROR"} \/ op[s] = "NONE" THEN {FALSE}
    ELSE IF s \in tracked THEN {TRUE} ELSE BOOLEAN

\* smtp_reactor_handle_completion(): everything comes from the op.
ResultOf(packet, ok) ==
    [slot |-> packet.of.slot, kind |-> op[packet.of.slot], ok |-> ok, packet |-> packet]

Poll ==
    /\ ended = "NO" /\ results = <<>> /\ port # <<>>
    /\ LET n == IF Len(port) < Request THEN Len(port) ELSE Request IN
         /\ \E ok \in [1..n -> BOOLEAN] :
               /\ \A i \in 1..n : ok[i] \in Verdicts(port[i].of.slot)
               /\ results' = [i \in 1..n |-> ResultOf(port[i], ok[i])]
         /\ port' = SubSeq(port, n + 1, Len(port))
    /\ UNCHANGED <<tracked, opVars, inflight, live_count, abandoned, ended>>

\* No more sockets will be opened, and none is open; or the process is over.
Over ==
    /\ \/ ended # "NO"
       \/ opened = MaxSockets /\ tracked = {} /\ inflight = {} /\ port = <<>> /\ results = <<>>
    /\ UNCHANGED vars

Next ==
    \/ \E s \in Slots : SubmitConnect(s)
    \/ TakeResult
    \/ \E s \in Slots : TimeOut(s)
    \/ \E o \in inflight, ok \in BOOLEAN : KernelCompletes(o, ok)
    \/ Poll
    \/ Over

Spec == Init /\ [][Next]_vars

-----------------------------------------------------------------------------
(* Properties                                                                *)

OwnOutcomes(s) ==
    {o \in inflight : o.slot = s}
        \cup {port[i].of : i \in {j \in DOMAIN port : port[j].of.slot = s}}
        \cup {results[i].packet.of : i \in {j \in DOMAIN results : results[j].slot = s}}

\* As long as no operation has been abandoned: each connection in flight has its
\* one operation with the kernel, in the port or in the batch, and a result
\* tells what was submitted and how it came out.
CompletionsAreTheSlots ==
    ~abandoned =>
        /\ \A s \in Slots : OwnOutcomes(s) = IF s \in tracked THEN {[slot |-> s, sock |-> sock[s], kind |-> op[s]]}
                                      ELSE {}
        /\ \A i \in DOMAIN results :
              results[i].kind = results[i].packet.of.kind /\ results[i].ok = results[i].packet.ok

Pending == {o.slot : o \in inflight} \cup {port[i].of.slot : i \in DOMAIN port}
Batch == {results[i].slot : i \in DOMAIN results}

Contract == INSTANCE ReactorContract WITH Handles <- Slots, pending <- Pending, batch <- Batch

\* The completion backend keeps the contract the readiness backends keep, array
\* bound and capacity included, until an operation is abandoned: so a Windows
\* build is sound exactly as long as no attempt ends by its deadline.
KeepsContractUntilAbandoned ==
    Contract!Init /\ [][abandoned' \/ Contract!Next]_(Contract!rvars)

\* smtp_reactor.h:129: an operation stays "valid and untouched until its
\* completion is reported", so what the kernel works on is what the op says.
OpUntouchedWhilePending ==
    \A o \in inflight : sock[o.slot] = o.sock /\ op[o.slot] = o.kind
=============================================================================
