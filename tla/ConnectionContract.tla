------------------------- MODULE ConnectionContract -------------------------
(***************************************************************************)
(* The contract of AttemptContract as the specification of one attempt, its *)
(* owner's clock, and whose capabilities the shared buffer holds: READY is  *)
(* reported by the very call that filled it.  SmtpConnection implements     *)
(* this specification (SmtpConnectionRefinement).                           *)
(***************************************************************************)
EXTENDS AttemptContract

VARIABLES attempt, clock, caps_mine

cvars == <<attempt, clock, caps_mine>>

Active == attempt.phase = "ACTIVE"

Init == attempt = Idle /\ clock = 0 /\ caps_mine = FALSE

\* Accepted by the reactor, or failed on the spot.
Start ==
    /\ attempt = Idle
    /\ attempt' \in {Started(clock), Ended("ERROR")}
    /\ UNCHANGED <<clock, caps_mine>>

\* Only READY promises that the capabilities are this attempt's own.
OnIo ==
    /\ Active
    /\ attempt' \in OnIoOutcomes(attempt, clock)
    /\ caps_mine' \in BOOLEAN
    /\ attempt'.phase = "READY" => caps_mine'
    /\ UNCHANGED clock

Timeout ==
    /\ Active /\ Expired(attempt, clock)
    /\ attempt' = Ended("TIMED_OUT")
    /\ UNCHANGED <<clock, caps_mine>>

\* Time passes, or another attempt of the thread uses the shared buffer.
Environment ==
    /\ Active
    /\ UNCHANGED attempt
    /\ \/ clock' = clock + 1 /\ UNCHANGED caps_mine
       \/ caps_mine' = FALSE /\ UNCHANGED clock

Close ==
    /\ attempt.phase \in Outcomes
    /\ attempt' = Ended("CLOSED")
    /\ UNCHANGED <<clock, caps_mine>>

Next == Start \/ OnIo \/ Timeout \/ Environment \/ Close

Spec == Init /\ [][Next]_cvars
=============================================================================
