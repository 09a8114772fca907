-------------------------- MODULE AttemptContract --------------------------
(***************************************************************************)
(* What an owner of smtp_connection structs may rely on, and all that the  *)
(* orchestrator relies on, as operators on one attempt: an attempt under    *)
(* way has exactly one reactor operation in flight and a deadline; each     *)
(* completion either submits the next operation or ends the attempt; the    *)
(* deadline is renewed at most MaxRenewals times.                           *)
(***************************************************************************)
EXTENDS Integers

CONSTANTS
    ConnectTimeout,  \* first deadline, relative to the start
    StepTimeout,     \* every later deadline, relative to its step
    MaxRenewals      \* how often the deadline may be set after the start

ASSUME ContractAssumption ==
    ConnectTimeout \in Nat /\ StepTimeout \in Nat /\ MaxRenewals \in Nat

Ops      == {"CONNECT", "READ", "WRITE"}
Outcomes == {"READY", "ERROR", "TIMED_OUT"}

\* An attempt is a record: its phase, the operation in flight, the deadline
\* and the renewals left.  Everything but the phase is void once it has ended.
Idle          == [phase |-> "IDLE", op |-> "NONE", deadline |-> 0, renewals |-> 0]
Ended(phase)  == [phase |-> phase, op |-> "NONE", deadline |-> 0, renewals |-> 0]
Started(t)    == [phase |-> "ACTIVE", op |-> "CONNECT",
                  deadline |-> t + ConnectTimeout, renewals |-> MaxRenewals]
ActiveAttempts == [phase : {"ACTIVE"}, op : Ops, deadline : Nat,
                   renewals : 0..MaxRenewals]

\* smtp_connection_on_io() at time t on an active attempt c.
SameStep(c) == {[c EXCEPT !.op = kind] : kind \in {"READ", "WRITE"}}
NextStep(c, t) ==
    {[phase |-> "ACTIVE", op |-> kind, deadline |-> t + StepTimeout, renewals |-> r] :
        kind \in {"READ", "WRITE"}, r \in 0..(c.renewals - 1)}
Continue(c, t)     == SameStep(c) \cup NextStep(c, t)
OnIoOutcomes(c, t) == Continue(c, t) \cup {Ended("READY"), Ended("ERROR")}

\* smtp_connection_check_timeout() at time t.
Expired(c, t) == t >= c.deadline
=============================================================================
