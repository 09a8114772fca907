-------------------------- MODULE ReactorContract --------------------------
(***************************************************************************)
(* smtp_reactor.h as its two sides rely on it: a socket is tracked from an  *)
(* accepted submit_connect to forget; meanwhile its one operation is either *)
(* pending or has been reported and waits for the caller to submit the next *)
(* one.  Reactor implements this from below, SmtpOrchestrator from above.   *)
(***************************************************************************)
EXTENDS Integers, FiniteSets

CONSTANTS Handles, MaxConnections, MaxOut

VARIABLES tracked, pending, batch

rvars == <<tracked, pending, batch>>

Init == tracked = {} /\ pending = {} /\ batch = {}

\* submit_connect, accepted: only below max_connections.
Connect(h) ==
    /\ h \notin tracked /\ Cardinality(tracked) < MaxConnections
    /\ tracked' = tracked \cup {h}
    /\ pending' = pending \cup {h}
    /\ UNCHANGED batch

\* poll: up to MaxOut pending operations are reported, each once.
Report(reported) ==
    /\ batch = {} /\ Cardinality(reported) <= MaxOut
    /\ pending' = pending \ reported
    /\ batch' = reported
    /\ UNCHANGED tracked

\* submit_read or submit_write, in answer to a report.
Resubmit(h) ==
    /\ h \in batch
    /\ batch' = batch \ {h}
    /\ pending' = pending \cup {h}
    /\ UNCHANGED tracked

\* forget: nothing more is reported for the socket.
Forget(h) ==
    /\ h \in tracked
    /\ tracked' = tracked \ {h}
    /\ pending' = pending \ {h}
    /\ batch' = batch \ {h}

Next ==
    \/ \E h \in Handles : Connect(h) \/ Resubmit(h) \/ Forget(h)
    \/ \E reported \in SUBSET pending : Report(reported)

Spec == Init /\ [][Next]_rvars
=============================================================================
