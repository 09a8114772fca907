----------------------- MODULE SmtpOrchestratorProofs -----------------------
(***************************************************************************)
(* Theorems about SmtpOrchestrator, for any number of slots, any batch size *)
(* and any timeouts: every attempt is accounted for and reported once, the  *)
(* reactor's results reach the attempt that asked for them, run() uses the   *)
(* reactor as it demands, and sweeps and stops are not delayed.             *)
(***************************************************************************)
EXTENDS SmtpOrchestrator, FiniteSetTheorems, WellFoundedInduction, TLAPS

\* The connections in flight have ids of their own, so a report is theirs.
IdsUnique ==
    /\ \A s \in in_use : id[s] \in launched
    /\ \A s, t \in in_use : id[s] = id[t] => s = t

\* The reactor and the batch hold the operation of every attempt in flight, and
\* nothing else.
OpsTracked ==
    /\ submitted \cap results = {}
    /\ \A o \in submitted \cup results : o.slot \in in_use /\ id[o.slot] = o.id
    /\ \A s \in in_use : [slot |-> s, id |-> id[s]] \in submitted \cup results

\* A batch is worked off before the loop goes on.
BatchDispatched == results # {} => pc = "DISPATCH"

\* The inductive invariant: what the properties say needs the uniqueness of ids
\* and the one-to-one correspondence of attempts and operations.
IInv ==
    /\ TypeOK /\ StatsAddUp /\ ReportedExactlyOnce /\ ResourcesFollowSlots
    /\ IdsUnique /\ OpsTracked /\ BatchDispatched /\ ~aborted

LEMMA InUseFinite ==
    ASSUME TypeOK
    PROVE  IsFiniteSet(in_use) /\ Cardinality(in_use) \in Nat
BY OrchAssumption, FS_Subset, FS_CardinalityType DEF TypeOK

LEMMA InitInvariant == Init => IInv
<1>. SUFFICES ASSUME Init PROVE IInv
  OBVIOUS
<1>1. TypeOK
  <2>1. reports \in [1..(next_id - 1) -> Nat]
    BY DEF Init
  <2>2. DOMAIN conn = Slots /\ \A s \in Slots : conn[s] = Idle
    BY DEF Init
  <2>3. \A s \in Slots : s \notin in_use /\ conn[s] \in {Idle} \cup {Ended(o) : o \in Outcomes}
    BY <2>2 DEF Init
  <2>4. stats \in Stats /\ launched \subseteq 1..(next_id - 1) /\ id \in [Slots -> Nat]
    BY DEF Init, Stats
  <2>5. pc = "CALLER" /\ in_use = {} /\ submitted = {} /\ results = {}
    BY DEF Init
  <2>6. /\ clock = 0 /\ now_ms = 0 /\ poll_until = 0 /\ total_target = 0 /\ stop_at = 0
        /\ next_id = 1 /\ runs = 0 /\ run_at = 0 /\ live_count = 0 /\ sockets = 0
        /\ stop_requested = FALSE /\ aborted = FALSE
    BY DEF Init
  <2>7. \A s \in Slots : IF s \in in_use THEN conn[s] \in ActiveAttempts
                          ELSE conn[s] \in {Idle} \cup {Ended(o) : o \in Outcomes}
    BY <2>3
  <2>8. /\ {clock, now_ms, poll_until, total_target, stop_at, runs, run_at} \subseteq Nat
        /\ next_id \in Nat \ {0}
        /\ {live_count, sockets} \subseteq Nat
    BY <2>6
  <2>. QED  BY <2>1, <2>2, <2>4, <2>5, <2>6, <2>7, <2>8 DEF TypeOK
<1>2. Cardinality(in_use) = 0
  BY FS_EmptySet DEF Init
<1>3. StatsAddUp /\ ResourcesFollowSlots
  BY <1>2 DEF Init, StatsAddUp, ResourcesFollowSlots
<1>4. ReportedExactlyOnce
  BY DEF Init, ReportedExactlyOnce
<1>5. IdsUnique /\ OpsTracked /\ BatchDispatched /\ ~aborted
  BY DEF Init, IdsUnique, OpsTracked, BatchDispatched
<1>. QED  BY <1>1, <1>3, <1>4, <1>5 DEF IInv

-----------------------------------------------------------------------------
(* What the steps of an attempt leave behind.                                *)

LEMMA NextAttempt ==
    ASSUME NEW c \in ActiveAttempts, NEW t \in Nat, NEW d \in OnIoOutcomes(c, t)
    PROVE  d \in ActiveAttempts \/ d = Ended("READY") \/ d = Ended("ERROR")
BY ContractAssumption
   DEF OnIoOutcomes, Continue, SameStep, NextStep, ActiveAttempts, Ops

\* Actions that leave the slots alone.
LEMMA SlotsUntouched ==
    ASSUME IInv, UNCHANGED <<slotVars, results, aborted>>, TypeOK',
           results # {} => pc' = "DISPATCH"
    PROVE  IInv'
BY DEF IInv, slotVars, StatsAddUp, ReportedExactlyOnce, ResourcesFollowSlots,
       IdsUnique, OpsTracked, BatchDispatched, InFlight

LEMMA Counted ==
    ASSUME NEW outcome, stats \in Stats
    PROVE  /\ CountFinished(outcome) \in Stats
           /\ CountFinished(outcome).total_started = stats.total_started
           /\ CountFinished(outcome).total_completed = stats.total_completed + 1
           /\ CountFinished(outcome).total_succeeded + CountFinished(outcome).total_failed
                = stats.total_succeeded + stats.total_failed + 1
<1>. DEFINE c == CountFinished(outcome)
            good == IF outcome = "READY" THEN stats.total_succeeded + 1
                                         ELSE stats.total_succeeded
            bad  == IF outcome = "READY" THEN stats.total_failed
                                         ELSE stats.total_failed + 1
<1>1. /\ stats.total_started \in Nat /\ stats.total_completed \in Nat
      /\ stats.total_succeeded \in Nat /\ stats.total_failed \in Nat
  BY DEF Stats
<1>2. c = [stats EXCEPT !.total_completed = stats.total_completed + 1,
                        !.total_succeeded = good, !.total_failed = bad]
  BY Zenon DEF CountFinished
<1>3. good \in Nat /\ bad \in Nat
      /\ good + bad = stats.total_succeeded + stats.total_failed + 1
  BY <1>1
<1>. HIDE DEF c, good, bad
<1>4. c = [total_started |-> stats.total_started,
           total_completed |-> stats.total_completed + 1,
           total_succeeded |-> good, total_failed |-> bad]
  BY <1>2 DEF Stats
<1>5. c \in Stats /\ c.total_started = stats.total_started
      /\ c.total_completed = stats.total_completed + 1
      /\ c.total_succeeded = good /\ c.total_failed = bad
  BY <1>1, <1>3, <1>4 DEF Stats
<1>. QED  BY <1>3, <1>5 DEF c

\* smtp_orch_finish_slot() for a slot in use whose operation is not with the
\* reactor any more, or is dropped by it.
LEMMA FinishSlotStep ==
    ASSUME IInv, NEW s \in in_use, NEW outcome \in Outcomes, FinishSlot(s, outcome),
           UNCHANGED <<pc, clock, now_ms, poll_until, callVars, aborted>>,
           results' = {r \in results : r.slot # s}
    PROVE  IInv'
<1>. USE DEF IInv
<1>1. s \in Slots /\ id[s] \in 1..(next_id - 1) /\ id[s] \in launched
  BY DEF TypeOK, IdsUnique
<1>2. IsFiniteSet(in_use) /\ Cardinality(in_use) \in Nat
      /\ Cardinality(in_use') = Cardinality(in_use) - 1
  BY InUseFinite, FS_RemoveElement DEF FinishSlot
<1>3. Cardinality(in_use') \in Nat
  BY <1>2, FS_RemoveElement, FS_CardinalityType DEF FinishSlot
<1>4. TypeOK'
  <2>1. /\ conn' = [conn EXCEPT ![s] = Ended(outcome)] /\ DOMAIN conn' = Slots
        /\ \A u \in Slots : IF u \in in_use' THEN conn'[u] \in ActiveAttempts
                            ELSE conn'[u] \in {Idle} \cup {Ended(o) : o \in Outcomes}
    BY DEF TypeOK, FinishSlot
  <2>2. stats' \in Stats
    BY Counted DEF TypeOK, FinishSlot
  <2>3. {live_count', sockets'} \subseteq Nat
    BY <1>2, <1>3 DEF FinishSlot, Release, ResourcesFollowSlots
  <2>4. reports' \in [1..(next_id' - 1) -> Nat]
    BY <1>1 DEF TypeOK, FinishSlot
  <2>5. submitted' \subseteq Operations /\ results' \subseteq Operations
        /\ in_use' \subseteq Slots
    BY DEF TypeOK, FinishSlot, Release
  <2>6. UNCHANGED <<pc, clock, now_ms, poll_until, total_target, stop_requested, stop_at,
                    runs, run_at, aborted, id, next_id, launched>>
    BY DEF FinishSlot, callVars
  <2>. QED  BY <2>1, <2>2, <2>3, <2>4, <2>5, <2>6 DEF TypeOK
<1>5. StatsAddUp' /\ ResourcesFollowSlots'
  <2>1. stats \in Stats /\ stats' = CountFinished(outcome)
    BY DEF TypeOK, FinishSlot
  <2>2. stats.total_started \in Nat /\ stats.total_completed \in Nat
    BY <2>1 DEF Stats
  <2>3. StatsAddUp'
    BY <1>2, <2>1, <2>2, Counted DEF StatsAddUp
  <2>. QED  BY <1>2, <2>3 DEF ResourcesFollowSlots, FinishSlot, Release
<1>6. ReportedExactlyOnce'
  <2>1. \A i : i \in InFlight' <=> i \in InFlight /\ i # id[s]
    BY DEF InFlight, FinishSlot, IdsUnique
  <2>2. launched' = launched /\ DOMAIN reports' = DOMAIN reports
        /\ reports' = [reports EXCEPT ![id[s]] = @ + 1]
        /\ reports \in [1..(next_id - 1) -> Nat]
    BY DEF FinishSlot, TypeOK
  <2>3. id[s] \in InFlight
    BY DEF InFlight
  <2>. QED  BY <1>1, <2>1, <2>2, <2>3 DEF ReportedExactlyOnce
<1>7. IdsUnique'
  BY DEF IdsUnique, FinishSlot
<1>8. OpsTracked'
  BY DEF OpsTracked, FinishSlot, Release
<1>9. BatchDispatched'
  BY DEF BatchDispatched
<1>. QED  BY <1>4, <1>5, <1>6, <1>7, <1>8, <1>9

-----------------------------------------------------------------------------
(* Starting an attempt, in its three outcomes.                               *)

LEMMA CountStartedStats ==
    ASSUME stats \in Stats
    PROVE  /\ CountStarted \in Stats /\ CountRejected \in Stats
           /\ CountStarted.total_started = stats.total_started + 1
           /\ CountStarted.total_completed = stats.total_completed
           /\ CountStarted.total_succeeded = stats.total_succeeded
           /\ CountStarted.total_failed = stats.total_failed
           /\ CountRejected.total_started = stats.total_started + 1
           /\ CountRejected.total_completed = stats.total_completed + 1
           /\ CountRejected.total_succeeded = stats.total_succeeded
           /\ CountRejected.total_failed = stats.total_failed + 1
<1>1. /\ stats.total_started \in Nat /\ stats.total_completed \in Nat
      /\ stats.total_succeeded \in Nat /\ stats.total_failed \in Nat
  BY DEF Stats
<1>2. CountStarted = [total_started |-> stats.total_started + 1,
                      total_completed |-> stats.total_completed,
                      total_succeeded |-> stats.total_succeeded,
                      total_failed |-> stats.total_failed]
  BY DEF Stats, CountStarted
<1>. DEFINE started == stats.total_started + 1
            completed == stats.total_completed + 1
            failed == stats.total_failed + 1
<1>3. CountRejected = [total_started |-> started, total_completed |-> completed,
                       total_succeeded |-> stats.total_succeeded, total_failed |-> failed]
  <2>1. CountRejected = [stats EXCEPT !.total_started = started,
                                      !.total_completed = completed, !.total_failed = failed]
    BY Zenon DEF CountRejected
  <2>. HIDE DEF started, completed, failed
  <2>. QED  BY <2>1 DEF Stats
<1>4. CountStarted \in Stats /\ CountRejected \in Stats
  BY <1>1, <1>2, <1>3 DEF Stats
<1>. QED  BY <1>2, <1>3, <1>4

LEMMA SocketFailedStep ==
    ASSUME IInv, pc = "FILL", SocketFailed,
           UNCHANGED <<clock, now_ms, poll_until, results, callVars, aborted>>
    PROVE  IInv'
<1>. USE DEF IInv
<1>1. results' = {}
  BY DEF BatchDispatched
<1>2. stats \in Stats /\ stats' = CountRejected
  BY DEF TypeOK, SocketFailed
<1>3. StatsAddUp'
  BY <1>2, CountStartedStats, InUseFinite DEF StatsAddUp, SocketFailed, Stats
<1>4. TypeOK'
  BY <1>2, CountStartedStats DEF TypeOK, SocketFailed, callVars
<1>5. ReportedExactlyOnce' /\ ResourcesFollowSlots' /\ IdsUnique' /\ OpsTracked'
  BY DEF SocketFailed, ReportedExactlyOnce, ResourcesFollowSlots, IdsUnique, OpsTracked,
         InFlight
<1>. QED  BY <1>1, <1>3, <1>4, <1>5 DEF BatchDispatched

\* The fresh id: none of the others, with no report yet.
Fresh(s, attempt) ==
    /\ next_id \in Nat \ {0} /\ next_id' = next_id + 1
    /\ id' \in [Slots -> Nat] /\ id'[s] = next_id
    /\ \A u \in Slots : u # s => id'[u] = id[u] /\ conn'[u] = conn[u]
    /\ DOMAIN conn' = Slots /\ conn'[s] = attempt
    /\ reports' \in [1..next_id -> Nat] /\ reports'[next_id] = 0
    /\ reports \in [1..(next_id - 1) -> Nat]
    /\ \A i \in 1..(next_id - 1) : reports'[i] = reports[i]
    /\ launched \subseteq 1..(next_id - 1)
    /\ in_use \subseteq Slots

LEMMA FreshConnection ==
    ASSUME TypeOK, NEW s \in Slots, NEW attempt, InitConnection(s, attempt)
    PROVE  Fresh(s, attempt)
BY DEF TypeOK, InitConnection, Fresh

LEMMA ConnectRejectedStep ==
    ASSUME IInv, NEW s \in Slots, s \notin in_use, pc = "FILL", ConnectRejected(s),
           UNCHANGED <<clock, now_ms, poll_until, results, callVars, aborted>>
    PROVE  IInv'
<1>. USE DEF IInv
<1>1. results' = {} /\ pc' = "CHECK"
  BY DEF BatchDispatched, ConnectRejected
<1>2. stats \in Stats /\ stats' = CountRejected
  BY DEF TypeOK, ConnectRejected
<1>3. StatsAddUp'
  BY <1>2, CountStartedStats, InUseFinite DEF StatsAddUp, ConnectRejected, Stats
<1>4. InitConnection(s, Ended("ERROR")) /\ "ERROR" \in Outcomes
      /\ UNCHANGED <<in_use, submitted, live_count, sockets, launched>>
  BY DEF ConnectRejected, Outcomes
<1>5. Fresh(s, Ended("ERROR"))
  BY <1>4, FreshConnection
<1>6. TypeOK'
  <2>1. \A u \in Slots : IF u \in in_use' THEN conn'[u] \in ActiveAttempts
                          ELSE conn'[u] \in {Idle} \cup {Ended(o) : o \in Outcomes}
    <3>1. \A u \in Slots : IF u \in in_use THEN conn[u] \in ActiveAttempts
                            ELSE conn[u] \in {Idle} \cup {Ended(o) : o \in Outcomes}
      BY DEF TypeOK
    <3>. QED  BY <1>4, <1>5, <3>1 DEF Fresh
  <2>2. stats' \in Stats
    BY <1>2, CountStartedStats
  <2>3. /\ next_id' \in Nat \ {0} /\ id' \in [Slots -> Nat] /\ DOMAIN conn' = Slots
        /\ launched' \subseteq 1..(next_id' - 1) /\ reports' \in [1..(next_id' - 1) -> Nat]
    BY <1>4, <1>5 DEF Fresh
  <2>. QED  BY <1>1, <1>4, <2>1, <2>2, <2>3 DEF TypeOK, callVars
<1>7. IdsUnique' /\ OpsTracked'
  BY <1>4, <1>5 DEF Fresh, IdsUnique, OpsTracked
<1>8. InFlight' = InFlight
  BY <1>4, <1>5 DEF Fresh, InFlight
<1>9. ReportedExactlyOnce'
  <2>1. next_id \notin launched /\ DOMAIN reports' = 1..next_id
        /\ DOMAIN reports = 1..(next_id - 1)
    BY <1>5 DEF Fresh
  <2>2. \A i \in DOMAIN reports' : i = next_id \/ i \in DOMAIN reports
    BY <1>5, <2>1 DEF Fresh
  <2>. QED  BY <1>4, <1>5, <1>8, <2>1, <2>2 DEF Fresh, ReportedExactlyOnce
<1>10. ResourcesFollowSlots'
  BY <1>4 DEF ResourcesFollowSlots
<1>. QED  BY <1>1, <1>3, <1>6, <1>7, <1>9, <1>10 DEF BatchDispatched

LEMMA ConnectAcceptedStep ==
    ASSUME IInv, NEW s \in Slots, s \notin in_use, pc = "FILL", ConnectAccepted(s),
           UNCHANGED <<clock, now_ms, poll_until, results, callVars, aborted>>
    PROVE  IInv'
<1>. USE DEF IInv
<1>1. results = {} /\ results' = {} /\ pc' = "FILL"
  BY DEF BatchDispatched, ConnectAccepted
<1>2. stats \in Stats /\ stats' = CountStarted
  BY DEF TypeOK, ConnectAccepted
<1>3. /\ InitConnection(s, Started(now_ms)) /\ in_use' = in_use \cup {s}
      /\ submitted' = submitted \cup {[slot |-> s, id |-> next_id]}
      /\ live_count' = live_count + 1 /\ sockets' = sockets + 1
      /\ launched' = launched \cup {next_id}
  BY DEF ConnectAccepted
<1>4. Cardinality(in_use') = Cardinality(in_use) + 1 /\ Cardinality(in_use) \in Nat
  BY <1>3, InUseFinite, FS_AddElement
<1>5. StatsAddUp' /\ ResourcesFollowSlots'
  BY <1>2, <1>3, <1>4, CountStartedStats DEF StatsAddUp, ResourcesFollowSlots, Stats
<1>6. Fresh(s, Started(now_ms))
  BY <1>3, FreshConnection
<1>7. TypeOK'
  <2>1. Started(now_ms) \in ActiveAttempts
    BY ContractAssumption DEF TypeOK, Started, ActiveAttempts, Ops
  <2>2. \A u \in Slots : IF u \in in_use' THEN conn'[u] \in ActiveAttempts
                          ELSE conn'[u] \in {Idle} \cup {Ended(o) : o \in Outcomes}
    <3>1. \A u \in Slots : IF u \in in_use THEN conn[u] \in ActiveAttempts
                            ELSE conn[u] \in {Idle} \cup {Ended(o) : o \in Outcomes}
      BY DEF TypeOK
    <3>. QED  BY <1>3, <1>6, <2>1, <3>1 DEF Fresh
  <2>3. submitted' \subseteq Operations
    <3>1. next_id \in Nat
      BY <1>6 DEF Fresh
    <3>2. [slot |-> s, id |-> next_id] \in Operations
      BY ONLY s \in Slots, <3>1 DEF Operations
    <3>3. submitted \subseteq Operations
      BY DEF TypeOK
    <3>4. submitted' = submitted \cup {[slot |-> s, id |-> next_id]}
      BY <1>3
    <3>. QED  BY ONLY <3>2, <3>3, <3>4, Zenon
  <2>4. stats' \in Stats
    BY <1>2, CountStartedStats
  <2>5. /\ next_id' \in Nat \ {0} /\ id' \in [Slots -> Nat] /\ DOMAIN conn' = Slots
        /\ launched' \subseteq 1..(next_id' - 1) /\ reports' \in [1..(next_id' - 1) -> Nat]
    <3>1. next_id \in Nat \ {0} /\ next_id' = next_id + 1 /\ next_id' - 1 = next_id
          /\ launched \subseteq 1..(next_id - 1)
      BY <1>6 DEF Fresh
    <3>2. \A i \in 1..(next_id - 1) : i \in 1..next_id
      BY <3>1
    <3>3. launched' \subseteq 1..next_id
      BY <1>3, <3>1, <3>2
    <3>. QED  BY <1>6, <3>1, <3>3 DEF Fresh
  <2>6. in_use' \subseteq Slots /\ live_count' \in Nat /\ sockets' \in Nat
    BY <1>3 DEF TypeOK
  <2>. QED  BY <1>1, <2>2, <2>3, <2>4, <2>5, <2>6 DEF TypeOK, callVars
<1>8. \A u \in in_use : id'[u] = id[u] /\ id[u] # next_id /\ u # s
  BY <1>6 DEF Fresh, IdsUnique
<1>9. IdsUnique'
  <2>0. IdsUnique
    OBVIOUS
  <2>1. in_use' = in_use \cup {s} /\ launched' = launched \cup {next_id} /\ id'[s] = next_id
    BY <1>3, <1>6 DEF Fresh
  <2>2. in_use \subseteq Slots /\ s \in Slots
    BY <1>6 DEF Fresh
  <2>. HIDE DEF IInv
  <2>. QED  BY <2>0, <2>1, <2>2, <1>8 DEF IdsUnique
<1>10. OpsTracked'
  <2>1. id'[s] = next_id /\ results = {} /\ results' = {}
    BY <1>1, <1>6 DEF Fresh
  <2>2. \A o \in submitted' : o.slot \in in_use' /\ id'[o.slot] = o.id
    BY <1>3, <1>8, <2>1 DEF OpsTracked
  <2>3. \A u \in in_use' : [slot |-> u, id |-> id'[u]] \in submitted'
    BY <1>3, <1>8, <2>1 DEF OpsTracked
  <2>. QED  BY <2>1, <2>2, <2>3 DEF OpsTracked
<1>11. ReportedExactlyOnce'
  <2>1. next_id \notin launched /\ DOMAIN reports' = 1..next_id
        /\ DOMAIN reports = 1..(next_id - 1)
    BY <1>6 DEF Fresh
  <2>2. \A i : i \in InFlight' <=> i \in InFlight \/ i = next_id
    <3>1. InFlight' = {id'[u] : u \in in_use \cup {s}}
      BY <1>3 DEF InFlight
    <3>2. id'[s] = next_id
      BY <1>6 DEF Fresh
    <3>. QED  BY <1>8, <3>1, <3>2 DEF InFlight
  <2>3. \A i \in DOMAIN reports' : i = next_id \/ (i \in DOMAIN reports /\ i # next_id)
    BY <1>6, <2>1 DEF Fresh
  <2>. QED  BY <1>3, <1>6, <2>1, <2>2, <2>3 DEF Fresh, ReportedExactlyOnce
<1>. QED  BY <1>1, <1>5, <1>7, <1>9, <1>10, <1>11 DEF BatchDispatched, ConnectAccepted

-----------------------------------------------------------------------------
(* poll(), the dispatch of its results, and the sweep.                        *)

LEMMA PollStep ==
    ASSUME IInv, Poll
    PROVE  IInv'
<1>. USE DEF IInv
<1>1. PICK batch \in SUBSET submitted : results' = batch /\ submitted' = submitted \ batch
  BY DEF Poll
<1>2. results = {} /\ pc' = "DISPATCH" /\ now_ms' = clock /\ poll_until' = 0
      /\ UNCHANGED <<clock, in_use, conn, id, next_id, live_count, sockets,
                     stats, launched, reports, callVars, aborted>>
  BY DEF Poll, BatchDispatched
<1>3. TypeOK'
  BY <1>1, <1>2 DEF TypeOK, callVars
<1>4. OpsTracked'
  BY <1>1, <1>2 DEF OpsTracked
<1>5. StatsAddUp' /\ ReportedExactlyOnce' /\ ResourcesFollowSlots' /\ IdsUnique'
  BY <1>2 DEF StatsAddUp, ReportedExactlyOnce, ResourcesFollowSlots, IdsUnique, InFlight
<1>. QED  BY <1>2, <1>3, <1>4, <1>5 DEF BatchDispatched

LEMMA ContinueSlotStep ==
    ASSUME IInv, NEW r \in results, NEW c \in ActiveAttempts, ContinueSlot(r.slot, c),
           results' = results \ {r},
           UNCHANGED <<pc, clock, now_ms, poll_until, callVars, aborted>>
    PROVE  IInv'
<1>. USE DEF IInv
<1>1. r.slot \in in_use /\ id[r.slot] = r.id /\ r \in Operations
  BY DEF OpsTracked, TypeOK
<1>2. r = [slot |-> r.slot, id |-> id[r.slot]]
  BY <1>1 DEF Operations
<1>3. submitted' = submitted \cup {r}
  BY <1>2 DEF ContinueSlot, Resubmit
<1>4. conn' = [conn EXCEPT ![r.slot] = c]
      /\ UNCHANGED <<in_use, id, next_id, live_count, sockets, stats, launched, reports>>
  BY DEF ContinueSlot
<1>5. TypeOK'
  <2>1. DOMAIN conn' = Slots
        /\ \A u \in Slots : IF u \in in_use' THEN conn'[u] \in ActiveAttempts
                            ELSE conn'[u] \in {Idle} \cup {Ended(o) : o \in Outcomes}
    BY <1>1, <1>4 DEF TypeOK
  <2>. QED  BY <1>1, <1>3, <1>4, <2>1 DEF TypeOK, callVars
<1>6. OpsTracked'
  BY <1>3, <1>4 DEF OpsTracked
<1>7. StatsAddUp' /\ ReportedExactlyOnce' /\ ResourcesFollowSlots' /\ IdsUnique'
  BY <1>4 DEF StatsAddUp, ReportedExactlyOnce, ResourcesFollowSlots, IdsUnique, InFlight
<1>. QED  BY <1>5, <1>6, <1>7 DEF BatchDispatched

\* The batch holds one result for the slot, so dropping it drops all of them.
LEMMA OneResultPerSlot ==
    ASSUME IInv, NEW r \in results
    PROVE  results \ {r} = {q \in results : q.slot # r.slot}
<1>1. \A q \in results : q.slot = r.slot => q = r
  BY DEF IInv, OpsTracked, TypeOK, Operations
<1>. QED  BY <1>1

LEMMA DispatchStep ==
    ASSUME IInv, NEW r \in results, Dispatch(r)
    PROVE  IInv'
<1>1. r.slot \in in_use /\ r.slot \in Slots
  BY DEF IInv, OpsTracked, TypeOK
<1>2. UNCHANGED <<pc, clock, now_ms, poll_until, callVars, aborted>>
      /\ results' = results \ {r}
  <2>1. aborted' = FALSE
    BY <1>1, Zenon DEF Dispatch
  <2>2. aborted = FALSE
    BY DEF IInv, TypeOK
  <2>. QED  BY <2>1, <2>2 DEF Dispatch
<1>3. PICK c \in OnIoOutcomes(conn[r.slot], now_ms) :
          IF c.phase = "ACTIVE" THEN ContinueSlot(r.slot, c) ELSE FinishSlot(r.slot, c.phase)
  BY DEF Dispatch
<1>4. conn[r.slot] \in ActiveAttempts /\ now_ms \in Nat
  BY <1>1 DEF IInv, TypeOK
<1>5. c \in ActiveAttempts \/ c = Ended("READY") \/ c = Ended("ERROR")
  BY <1>4, NextAttempt
<1>6. CASE c \in ActiveAttempts
  <2>1. c.phase = "ACTIVE"
    BY <1>6 DEF ActiveAttempts
  <2>. QED  BY <1>2, <1>3, <1>6, <2>1, ContinueSlotStep
<1>7. ASSUME NEW outcome \in {"READY", "ERROR"}, c = Ended(outcome) PROVE IInv'
  <2>1. c.phase = outcome /\ outcome # "ACTIVE" /\ outcome \in Outcomes
    BY <1>7 DEF Ended, Outcomes
  <2>2. FinishSlot(r.slot, outcome)
    BY <1>3, <2>1
  <2>3. results' = {q \in results : q.slot # r.slot}
    BY <1>2, OneResultPerSlot
  <2>. QED  BY <1>1, <1>2, <2>1, <2>2, <2>3, FinishSlotStep
<1>. QED  BY <1>5, <1>6, <1>7

LEMMA SweepStep ==
    ASSUME IInv, NEW s \in Slots, Sweep(s)
    PROVE  IInv'
<1>1. s \in in_use /\ FinishSlot(s, "TIMED_OUT") /\ "TIMED_OUT" \in Outcomes
      /\ UNCHANGED <<pc, clock, now_ms, poll_until, results, callVars, aborted>>
  BY DEF Sweep, Overdue, Outcomes
<1>2. results = {}
  BY DEF Sweep, IInv, BatchDispatched
<1>. QED  BY <1>1, <1>2, FinishSlotStep

LEMMA StartSlotStep ==
    ASSUME IInv, NEW s \in Slots, StartSlot(s)
    PROVE  IInv'
<1>1. /\ pc = "FILL" /\ s \notin in_use
      /\ UNCHANGED <<clock, now_ms, poll_until, results, callVars, aborted>>
  BY DEF StartSlot
<1>2. SocketFailed \/ ConnectRejected(s) \/ ConnectAccepted(s)
  BY DEF StartSlot
<1>. QED  BY <1>1, <1>2, SocketFailedStep, ConnectRejectedStep, ConnectAcceptedStep

-----------------------------------------------------------------------------
(* The invariant, and what follows from it.                                  *)

LEMMA Minimum ==
    ASSUME NEW T \in SUBSET Nat, T # {}
    PROVE  \E m \in T : \A n \in T : m <= n
<1>. DEFINE R == OpToRel(<, Nat)
<1>1. IsWellFoundedOn(R, Nat)
  BY NatLessThanWellFounded
<1>2. \A x, y \in Nat : x < y => <<x, y>> \in R
  BY DEF OpToRel
<1>. HIDE DEF R
<1>3. PICK m \in T : \A y \in T : ~ (<<y, m>> \in R)
  BY <1>1, WFMin
<1>4. \A y \in T : ~ (y < m)
  BY <1>2, <1>3
<1>. QED  BY <1>4

LEMMA Soonest ==
    ASSUME TypeOK, in_use # {}
    PROVE  /\ SoonestDeadline \in Nat
           /\ \A s \in in_use : conn[s].deadline \in Nat /\ SoonestDeadline <= conn[s].deadline
<1>. DEFINE D == {conn[s].deadline : s \in in_use}
<1>1. \A s \in in_use : conn[s].deadline \in Nat
  BY DEF TypeOK, ActiveAttempts
<1>2. D \in SUBSET Nat /\ D # {}
  BY <1>1
<1>3. \E m \in D : \A n \in D : m <= n
  BY <1>2, Minimum
<1>4. SoonestDeadline \in D /\ \A s \in in_use : SoonestDeadline <= conn[s].deadline
  BY <1>3 DEF SoonestDeadline
<1>. QED  BY <1>1, <1>2, <1>4

\* smtp_orch_next_poll_timeout_ms(): poll() waits no longer than the safety net,
\* and not past a deadline unless it has passed already.
LEMMA PollTimeout ==
    ASSUME TypeOK
    PROVE  /\ NextPollTimeout \in 0..MaxPollInterval
           /\ \A s \in in_use : /\ conn[s].deadline \in Nat
                                /\ (NextPollTimeout = 0 \/ now_ms + NextPollTimeout <= conn[s].deadline)
<1>. USE OrchAssumption
<1>1. CASE in_use = {}
  BY <1>1 DEF NextPollTimeout
<1>2. CASE in_use # {}
  <2>1. /\ SoonestDeadline \in Nat /\ now_ms \in Nat /\ MaxPollInterval \in Nat
        /\ \A s \in in_use : conn[s].deadline \in Nat /\ SoonestDeadline <= conn[s].deadline
    BY <1>2, Soonest DEF TypeOK
  <2>2. CASE SoonestDeadline <= now_ms
    BY <1>2, <2>1, <2>2 DEF NextPollTimeout
  <2>3. CASE ~ (SoonestDeadline <= now_ms)
    <3>1. /\ NextPollTimeout \in 0..MaxPollInterval
          /\ now_ms + NextPollTimeout <= SoonestDeadline
      BY <1>2, <2>1, <2>3 DEF NextPollTimeout, AtMostInterval
    <3>. QED  BY <2>1, <3>1
  <2>. QED  BY <2>2, <2>3
<1>. QED  BY <1>1, <1>2

LEMMA NextInvariant == IInv /\ [Next]_vars => IInv'
<1>. SUFFICES ASSUME IInv, [Next]_vars PROVE IInv'
  OBVIOUS
<1>. USE DEF IInv
<1>1. ASSUME NEW target \in Targets, Run(target) PROVE IInv'
  <2>1. target \in Nat /\ runs' \in Nat /\ run_at' \in Nat /\ stop_at' \in Nat
    BY <1>1, OrchAssumption DEF TypeOK, Run
  <2>2. TypeOK' /\ results = {}
    BY <1>1, <2>1 DEF TypeOK, Run, slotVars, BatchDispatched
  <2>. QED  BY <1>1, <2>2, SlotsUntouched DEF Run
<1>2. CASE RequestStop
  <2>1. TypeOK'
    BY <1>2 DEF TypeOK, RequestStop, slotVars
  <2>. QED  BY <1>2, <2>1, SlotsUntouched DEF RequestStop, BatchDispatched
<1>3. CASE Top
  <2>1. TypeOK' /\ results = {}
    BY <1>3 DEF TypeOK, Top, slotVars, callVars, BatchDispatched
  <2>. QED  BY <1>3, <2>1, SlotsUntouched DEF Top
<1>4. ASSUME NEW s \in Slots, StartSlot(s) PROVE IInv'
  BY <1>4, StartSlotStep
<1>5. CASE FillDone \/ SweepDone
  <2>1. TypeOK' /\ results = {}
    BY <1>5 DEF TypeOK, FillDone, SweepDone, slotVars, callVars, BatchDispatched
  <2>. QED  BY <1>5, <2>1, SlotsUntouched DEF FillDone, SweepDone
<1>6. CASE Check
  <2>1. TypeOK' /\ results = {}
    <3>1. poll_until' \in Nat
      BY <1>6, PollTimeout DEF TypeOK, Check
    <3>. QED  BY <1>6, <3>1 DEF TypeOK, Check, slotVars, callVars, BatchDispatched
  <2>. QED  BY <1>6, <2>1, SlotsUntouched DEF Check
<1>7. CASE Poll
  BY <1>7, PollStep
<1>8. ASSUME NEW r \in results, Dispatch(r) PROVE IInv'
  BY <1>8, DispatchStep
<1>9. CASE DispatchDone
  <2>1. TypeOK' /\ results = {}
    BY <1>9 DEF TypeOK, DispatchDone, slotVars, callVars
  <2>. QED  BY <1>9, <2>1, SlotsUntouched DEF DispatchDone
<1>10. ASSUME NEW s \in Slots, Sweep(s) PROVE IInv'
  BY <1>10, SweepStep
<1>11. CASE Tick
  <2>1. TypeOK'
    BY <1>11 DEF TypeOK, Tick, slotVars, callVars
  <2>. QED  BY <1>11, <2>1, SlotsUntouched DEF Tick, BatchDispatched
<1>12. CASE UNCHANGED vars
  <2>1. TypeOK'
    BY <1>12 DEF vars, TypeOK
  <2>. QED  BY <1>12, <2>1, SlotsUntouched DEF vars, slotVars, BatchDispatched
<1>. QED
  BY <1>1, <1>2, <1>3, <1>4, <1>5, <1>6, <1>7, <1>8, <1>9, <1>10, <1>11, <1>12
  DEF Next, Loop, Over

LEMMA Invariant == Spec => []IInv
BY InitInvariant, NextInvariant, PTL DEF Spec

\* Type correctness: counters of sockets, statistics and the live count never go
\* below zero, a slot in use holds an attempt under way.
THEOREM TypeCorrect == Spec => []TypeOK
<1>1. IInv => TypeOK
  BY DEF IInv
<1>. QED  BY <1>1, Invariant, PTL

\* The statistics account for every attempt, for any number of slots.
THEOREM StatsInvariant == Spec => []StatsAddUp
<1>1. IInv => StatsAddUp
  BY DEF IInv
<1>. QED  BY <1>1, Invariant, PTL

\* on_terminal() is called once for every connection that got in flight and is
\* no longer, and for no other.
THEOREM ReportInvariant == Spec => []ReportedExactlyOnce
<1>1. IInv => ReportedExactlyOnce
  BY DEF IInv
<1>. QED  BY <1>1, Invariant, PTL

\* Sockets and the live count follow the slots in use.
THEOREM ResourceInvariant == Spec => []ResourcesFollowSlots
<1>1. IInv => ResourcesFollowSlots
  BY DEF IInv
<1>. QED  BY <1>1, Invariant, PTL

\* A result reaches the attempt that submitted the operation.
THEOREM RoutingInvariant == Spec => []ResultsReachTheirAttempt
<1>1. IInv => ResultsReachTheirAttempt
  BY DEF IInv, OpsTracked, ResultsReachTheirAttempt
<1>. QED  BY <1>1, Invariant, PTL

\* on_io() is never called for a finished connection: its assertion holds.
THEOREM NeverAborts == Spec => []~aborted
<1>1. IInv => ~aborted
  BY DEF IInv
<1>. QED  BY <1>1, Invariant, PTL

\* Every attempt in flight has exactly one operation with the reactor or in the
\* batch.
THEOREM OneOperationInvariant == Spec => []OneOperationEach
<1>1. ASSUME IInv, NEW s \in in_use
      PROVE  Cardinality({o \in submitted \cup results : o.slot = s}) = 1
  <2>1. {o \in submitted \cup results : o.slot = s} = {[slot |-> s, id |-> id[s]]}
    <3>1. \A o \in submitted \cup results : o = [slot |-> o.slot, id |-> o.id]
      BY <1>1 DEF IInv, TypeOK, Operations
    <3>2. \A o \in submitted \cup results : o.slot = s => o.id = id[s]
      BY <1>1 DEF IInv, OpsTracked
    <3>3. [slot |-> s, id |-> id[s]] \in submitted \cup results
      BY <1>1 DEF IInv, OpsTracked
    <3>. QED  BY <3>1, <3>2, <3>3
  <2>. QED  BY <2>1, FS_Singleton
<1>2. IInv => OneOperationEach
  BY <1>1 DEF OneOperationEach
<1>. QED  BY <1>2, Invariant, PTL

-----------------------------------------------------------------------------
(* run() returns only when its work is done.                                  *)

\* The first run starts no more attempts than it was asked for.
FirstRunBounded ==
    /\ runs = 0 => stats.total_started = 0 /\ pc = "CALLER"
    /\ runs = 1 /\ total_target # 0 => stats.total_started <= total_target

LEMMA StartedBy ==
    ASSUME IInv, [Next]_vars
    PROVE  \/ stats'.total_started = stats.total_started
           \/ /\ stats'.total_started = stats.total_started + 1
              /\ MoreWanted /\ pc = "FILL" /\ UNCHANGED <<total_target, runs>>
<1>1. stats \in Stats
  BY DEF IInv, TypeOK
<1>2. ASSUME NEW s \in Slots, StartSlot(s)
      PROVE  /\ stats'.total_started = stats.total_started + 1
             /\ MoreWanted /\ pc = "FILL" /\ UNCHANGED <<total_target, runs>>
  <2>1. stats' = CountRejected \/ stats' = CountStarted
    BY <1>2 DEF StartSlot, SocketFailed, ConnectRejected, ConnectAccepted
  <2>. QED  BY <1>1, <1>2, <2>1, CountStartedStats DEF StartSlot, callVars
<1>3. ASSUME NEW s, NEW outcome, FinishSlot(s, outcome)
      PROVE  stats'.total_started = stats.total_started
  BY <1>1, <1>3, Counted DEF FinishSlot
<1>4. ASSUME NEW r \in results, Dispatch(r)
      PROVE  stats'.total_started = stats.total_started
  BY <1>3, <1>4 DEF Dispatch, ContinueSlot
<1>5. ASSUME NEW s \in Slots, Sweep(s)
      PROVE  stats'.total_started = stats.total_started
  BY <1>3, <1>5 DEF Sweep
<1>6. CASE \/ \E target \in Targets : Run(target)
           \/ RequestStop \/ Top \/ FillDone \/ Check \/ Poll \/ DispatchDone \/ SweepDone
           \/ Tick \/ UNCHANGED vars
  BY <1>6 DEF Run, RequestStop, Top, FillDone, Check, Poll, DispatchDone, SweepDone, Tick,
              vars, slotVars
<1>. QED  BY <1>2, <1>4, <1>5, <1>6 DEF Next, Loop, Over

LEMMA RunsAndTarget ==
    ASSUME IInv, [Next]_vars
    PROVE  \/ UNCHANGED <<total_target, runs>> /\ (pc = "CALLER" => pc' = "CALLER")
           \/ runs' = runs + 1 /\ UNCHANGED stats
BY DEF Next, Loop, Over, Run, RequestStop, Top, StartSlot, FillDone, Check, Poll, Dispatch,
       DispatchDone, Sweep, SweepDone, Tick, vars, callVars, slotVars

LEMMA FirstRunStep == IInv /\ FirstRunBounded /\ [Next]_vars => FirstRunBounded'
<1>. SUFFICES ASSUME IInv, FirstRunBounded, [Next]_vars PROVE FirstRunBounded'
  OBVIOUS
<1>1. runs \in Nat /\ total_target \in Nat /\ stats.total_started \in Nat
      /\ runs' \in Nat /\ total_target' \in Nat
  BY NextInvariant DEF IInv, TypeOK, Stats
<1>2. CASE runs' = runs + 1 /\ UNCHANGED stats
  BY <1>1, <1>2 DEF FirstRunBounded
<1>3. ASSUME UNCHANGED <<total_target, runs>>, pc = "CALLER" => pc' = "CALLER"
      PROVE  FirstRunBounded'
  <2>1. CASE stats'.total_started = stats.total_started
    BY <1>3, <2>1 DEF FirstRunBounded
  <2>2. CASE /\ stats'.total_started = stats.total_started + 1
             /\ MoreWanted /\ pc = "FILL"
    <3>1. runs # 0
      BY <2>2 DEF FirstRunBounded
    <3>2. total_target # 0 => stats.total_started < total_target
      BY <2>2 DEF MoreWanted, AttemptsWanted
    <3>. QED  BY <1>1, <1>3, <2>2, <3>1, <3>2 DEF FirstRunBounded
  <2>. QED  BY <2>1, <2>2, StartedBy
<1>. QED  BY <1>2, <1>3, RunsAndTarget

LEMMA FirstRun == Spec => []FirstRunBounded
<1>1. Init => FirstRunBounded
  BY DEF Init, FirstRunBounded
<1>. QED  BY <1>1, FirstRunStep, Invariant, PTL DEF Spec

\* Unless stopped, run() returns only when everything asked for has been
\* reported, and the first run leaves nothing in flight.
THEOREM ReturnsWhenDone == Spec => ReturnsOnlyWhenDone
<1>. DEFINE Returns == pc # "CALLER" /\ pc' = "CALLER"
            Done == \/ stop_requested
                    \/ /\ total_target # 0 /\ stats.total_completed >= total_target
                       /\ runs = 1 => in_use = {} /\ stats.total_started = total_target
<1>1. ASSUME IInv, FirstRunBounded, [Next]_vars, Returns PROVE Done
  <2>1. Top \/ Check
    BY <1>1 DEF Next, Loop, Over, Run, RequestStop, Top, StartSlot, SocketFailed,
                ConnectRejected, ConnectAccepted, FillDone, Check, Poll, Dispatch,
                DispatchDone, Sweep, SweepDone, Tick, vars
  <2>2. CASE Top
    BY <1>1, <2>2 DEF Top, StopSeen
  <2>3. CASE Check
    <3>1. /\ total_target # 0 /\ stats.total_started >= total_target
          /\ stats.total_completed >= total_target \/ in_use = {}
      BY <1>1, <2>3 DEF Check, RunDone
    <3>2. /\ stats.total_started = stats.total_completed + Cardinality(in_use)
          /\ stats.total_started \in Nat /\ stats.total_completed \in Nat
          /\ total_target \in Nat /\ Cardinality(in_use) \in Nat
      BY <1>1, InUseFinite DEF IInv, StatsAddUp, TypeOK, Stats
    <3>3. in_use = {} <=> Cardinality(in_use) = 0
      BY <1>1, InUseFinite, FS_EmptySet DEF IInv
    <3>4. stats.total_completed >= total_target
      BY <3>1, <3>2, <3>3
    <3>5. runs = 1 => stats.total_started <= total_target
      BY <1>1, <3>1 DEF FirstRunBounded
    <3>6. runs = 1 => in_use = {} /\ stats.total_started = total_target
      BY <3>1, <3>2, <3>3, <3>4, <3>5
    <3>. QED  BY <3>1, <3>4, <3>6
  <2>. QED  BY <2>1, <2>2, <2>3
<1>2. IInv /\ FirstRunBounded /\ [Next]_vars => [Returns => Done]_vars
  BY <1>1
<1>. QED  BY <1>2, Invariant, FirstRun, PTL DEF Spec, ReturnsOnlyWhenDone

-----------------------------------------------------------------------------
(* Sweeps and stops.                                                         *)

\* How far the clock may be past the deadlines in flight, and past a request to
\* stop, at each place of the loop.
Limit(s) == Later(conn[s].deadline, run_at)
DeadlinesKept ==
    \A s \in in_use :
        /\ pc = "TOP" => clock <= Limit(s) + Lag
        /\ pc \in {"FILL", "CHECK"} => now_ms <= Limit(s) + Lag
        /\ pc = "POLL" => poll_until <= Limit(s) + 2 * Lag
        /\ pc \in {"DISPATCH", "SWEEP"} => now_ms <= Limit(s) + 2 * Lag
ClockKept ==
    /\ pc \in {"FILL", "CHECK", "DISPATCH", "SWEEP"} =>
          now_ms <= clock /\ clock <= now_ms + Lag
    /\ pc = "POLL" => /\ now_ms <= clock /\ clock <= poll_until
                      /\ poll_until <= now_ms + Lag + MaxPollInterval
StopKept ==
    stop_requested =>
        /\ pc = "TOP" => clock <= stop_at + MaxPollInterval + 2 * Lag
        /\ pc \in {"FILL", "CHECK", "POLL"} => now_ms <= stop_at
        /\ pc \in {"DISPATCH", "SWEEP"} => now_ms <= stop_at + Lag + MaxPollInterval
Timely == DeadlinesKept /\ ClockKept /\ StopKept

Times == /\ clock \in Nat /\ now_ms \in Nat /\ poll_until \in Nat /\ stop_at \in Nat
         /\ run_at \in Nat /\ MaxPollInterval \in Nat /\ Lag \in Nat
         /\ \A s \in in_use : conn[s].deadline \in Nat

LEMMA TimesNat == IInv => Times
BY OrchAssumption DEF IInv, TypeOK, ActiveAttempts, Times

\* The limit is the later of a deadline and the call of run().
LEMMA LimitIs ==
    ASSUME Times, NEW s \in in_use
    PROVE  /\ Limit(s) \in Nat /\ conn[s].deadline <= Limit(s) /\ run_at <= Limit(s)
           /\ Limit(s) \in {conn[s].deadline, run_at}
BY DEF Times, Limit, Later

\* What a step does to the deadlines: those of attempts that go on stay, a new
\* one lies ahead.
LEMMA DeadlineOf ==
    ASSUME IInv, [Next]_vars, NEW s \in in_use'
    PROVE  \/ s \in in_use /\ conn'[s].deadline = conn[s].deadline
           \/ pc \in {"FILL", "DISPATCH"} /\ pc' = pc /\ conn'[s].deadline >= now_ms
<1>. DEFINE Kept == s \in in_use /\ conn'[s].deadline = conn[s].deadline
            Ahead == pc' = pc /\ conn'[s].deadline >= now_ms
<1>1. now_ms \in Nat /\ in_use \subseteq Slots /\ DOMAIN conn = Slots
  BY DEF IInv, TypeOK
<1>2. ASSUME NEW u \in Slots, StartSlot(u) PROVE Kept \/ (pc = "FILL" /\ Ahead)
  <2>1. CASE SocketFailed
    BY <2>1 DEF SocketFailed
  <2>2. CASE ConnectRejected(u)
    BY <1>1, <1>2, <2>2 DEF ConnectRejected, InitConnection, StartSlot
  <2>3. CASE ConnectAccepted(u)
    <3>1. in_use' = in_use \cup {u} /\ conn' = [conn EXCEPT ![u] = Started(now_ms)]
          /\ pc = "FILL" /\ pc' = pc
      BY <1>2, <2>3 DEF ConnectAccepted, InitConnection, StartSlot
    <3>2. Started(now_ms).deadline >= now_ms
      BY <1>1, ContractAssumption DEF Started
    <3>. QED  BY <1>1, <3>1, <3>2
  <2>. QED  BY <1>2, <2>1, <2>2, <2>3 DEF StartSlot
<1>3. ASSUME NEW u \in in_use, NEW outcome, FinishSlot(u, outcome) PROVE Kept
  BY <1>1, <1>3 DEF FinishSlot
<1>4. ASSUME NEW r \in results, Dispatch(r) PROVE Kept \/ (pc = "DISPATCH" /\ Ahead)
  <2>1. r.slot \in in_use /\ conn[r.slot] \in ActiveAttempts
    BY DEF IInv, OpsTracked, TypeOK
  <2>2. PICK c \in OnIoOutcomes(conn[r.slot], now_ms) :
          IF c.phase = "ACTIVE" THEN ContinueSlot(r.slot, c) ELSE FinishSlot(r.slot, c.phase)
    BY <1>4 DEF Dispatch
  <2>3. CASE FinishSlot(r.slot, c.phase)
    BY <1>3, <2>1, <2>3
  <2>4. CASE c.phase = "ACTIVE" /\ ContinueSlot(r.slot, c)
    <3>1. c.deadline = conn[r.slot].deadline \/ c.deadline >= now_ms
      BY <1>1, <2>1, <2>4, ContractAssumption
      DEF OnIoOutcomes, Continue, SameStep, NextStep, Ended, ActiveAttempts
    <3>2. in_use' = in_use /\ conn' = [conn EXCEPT ![r.slot] = c]
          /\ pc = "DISPATCH" /\ pc' = pc
      BY <1>4, <2>4 DEF ContinueSlot, Dispatch
    <3>. QED  BY <1>1, <2>1, <3>1, <3>2
  <2>. QED  BY <2>2, <2>3, <2>4
<1>5. ASSUME NEW u \in Slots, Sweep(u) PROVE Kept
  BY <1>3, <1>5 DEF Sweep, Overdue
<1>6. CASE \/ \E target \in Targets : Run(target)
           \/ RequestStop \/ Top \/ FillDone \/ Check \/ Poll \/ DispatchDone \/ SweepDone
           \/ Tick \/ UNCHANGED vars
  BY <1>6 DEF Run, RequestStop, Top, FillDone, Check, Poll, DispatchDone, SweepDone, Tick,
              vars, slotVars
<1>. QED  BY <1>2, <1>4, <1>5, <1>6 DEF Next, Loop, Over

\* So a step that leaves run_at alone moves no limit, but for new attempts.
LEMMA LimitOf ==
    ASSUME IInv, [Next]_vars, Times, Times', NEW s \in in_use', run_at' = run_at
    PROVE  \/ s \in in_use /\ Limit(s)' = Limit(s)
           \/ pc \in {"FILL", "DISPATCH"} /\ pc' = pc /\ now_ms <= Limit(s)'
<1>1. CASE s \in in_use /\ conn'[s].deadline = conn[s].deadline
  BY <1>1 DEF Limit
<1>2. CASE pc \in {"FILL", "DISPATCH"} /\ pc' = pc /\ conn'[s].deadline >= now_ms
  <2>1. conn'[s].deadline \in Nat /\ run_at' \in Nat /\ now_ms \in Nat
    BY DEF Times
  <2>. QED  BY <1>2, <2>1 DEF Limit, Later
<1>. QED  BY <1>1, <1>2, DeadlineOf

LEMMA TimelyStep == IInv /\ Timely /\ [Next]_vars => Timely'
<1>. SUFFICES ASSUME IInv, Timely, [Next]_vars PROVE Timely'
  OBVIOUS
<1>0. Times /\ Times' /\ stop_requested \in BOOLEAN
  <2>1. IInv'
    BY NextInvariant
  <2>2. Times'
    BY <2>1, OrchAssumption DEF IInv, TypeOK, ActiveAttempts, Times
  <2>. QED  BY <2>2, TimesNat DEF IInv, TypeOK
<1>a. /\ clock \in Nat /\ now_ms \in Nat /\ poll_until \in Nat /\ stop_at \in Nat
      /\ clock' \in Nat /\ now_ms' \in Nat /\ poll_until' \in Nat /\ stop_at' \in Nat
      /\ run_at \in Nat /\ MaxPollInterval \in Nat /\ Lag \in Nat
  BY <1>0 DEF Times
<1>b. /\ \A s \in in_use : Limit(s) \in Nat /\ conn[s].deadline \in Nat
                           /\ conn[s].deadline <= Limit(s)
      /\ \A s \in in_use' : Limit(s)' \in Nat /\ run_at' <= Limit(s)'
  <2>1. \A s \in in_use' : conn'[s].deadline \in Nat /\ run_at' \in Nat
    BY <1>0 DEF Times
  <2>2. \A s \in in_use' : Limit(s)' \in Nat /\ run_at' <= Limit(s)'
    BY <2>1 DEF Limit, Later
  <2>. QED  BY <1>0, <2>2, LimitIs DEF Times
<1>c. \A s \in in_use' : run_at' = run_at =>
          \/ s \in in_use /\ Limit(s)' = Limit(s)
          \/ pc \in {"FILL", "DISPATCH"} /\ pc' = pc /\ now_ms <= Limit(s)'
  BY <1>0, LimitOf
<1>. USE <1>0, <1>a, <1>b, <1>c DEF Timely
<1>. HIDE DEF Limit
\* Steps that keep the place, the clock and the deadlines, but for new ones.
<1>1. ASSUME UNCHANGED <<pc, clock, now_ms, poll_until, stop_requested, stop_at, run_at>>
      PROVE  Timely'
  <2>1. DeadlinesKept'
    BY <1>1 DEF DeadlinesKept, ClockKept
  <2>. QED  BY <1>1, <2>1 DEF ClockKept, StopKept
<1>2. ASSUME NEW target \in Targets, Run(target) PROVE Timely'
  BY <1>2 DEF Run, DeadlinesKept, ClockKept, StopKept
<1>3. CASE RequestStop
  BY <1>3 DEF RequestStop, DeadlinesKept, ClockKept, StopKept
<1>4. CASE Top
  <2>1. /\ pc = "TOP" /\ run_at' = run_at /\ clock' = clock
        /\ UNCHANGED <<stop_requested, stop_at>>
    BY <1>4 DEF Top, callVars
  <2>2. CASE pc' = "CALLER"
    BY <2>1, <2>2 DEF DeadlinesKept, ClockKept, StopKept
  <2>3. CASE ~stop_requested /\ pc' = "FILL" /\ now_ms' = clock
    BY <2>1, <2>3 DEF DeadlinesKept, ClockKept, StopKept
  <2>. QED  BY <1>4, <2>2, <2>3 DEF Top, StopSeen
<1>5. ASSUME NEW s \in Slots, StartSlot(s) PROVE Timely'
  <2>1. CASE pc' = pc
    BY <1>1, <1>5, <2>1 DEF StartSlot, callVars
  <2>2. CASE pc' # pc
    <3>1. pc = "FILL" /\ pc' = "CHECK"
      BY <1>5, <2>2 DEF StartSlot, SocketFailed, ConnectRejected, ConnectAccepted
    <3>2. UNCHANGED <<clock, now_ms, poll_until, stop_requested, stop_at, run_at>>
      BY <1>5 DEF StartSlot, callVars
    <3>. QED  BY <3>1, <3>2 DEF DeadlinesKept, ClockKept, StopKept
  <2>. QED  BY <2>1, <2>2
<1>6. CASE FillDone
  BY <1>6 DEF FillDone, DeadlinesKept, ClockKept, StopKept, callVars
<1>7. CASE Check
  <2>0. UNCHANGED <<clock, now_ms, stop_requested, stop_at, run_at>> /\ pc = "CHECK"
    BY <1>7 DEF Check, callVars
  <2>1. CASE pc' = "CALLER"
    BY <2>0, <2>1 DEF DeadlinesKept, ClockKept, StopKept
  <2>2. CASE pc' = "POLL" /\ poll_until' = clock + NextPollTimeout
    <3>1. /\ NextPollTimeout \in 0..MaxPollInterval
          /\ \A s \in in_use : NextPollTimeout = 0
                \/ now_ms + NextPollTimeout <= conn[s].deadline
      BY PollTimeout DEF IInv
    <3>2. now_ms <= clock /\ clock <= now_ms + Lag
      BY <2>0 DEF ClockKept
    <3>3. ASSUME NEW s \in in_use' PROVE poll_until' <= Limit(s)' + 2 * Lag
      <4>1. s \in in_use /\ Limit(s)' = Limit(s) /\ now_ms <= Limit(s) + Lag
        BY <2>0, <2>2 DEF DeadlinesKept
      <4>. QED  BY <2>2, <3>1, <3>2, <4>1
    <3>4. DeadlinesKept'
      BY <2>2, <3>3 DEF DeadlinesKept
    <3>5. ClockKept'
      BY <2>0, <2>2, <3>1, <3>2 DEF ClockKept
    <3>. QED  BY <2>0, <2>2, <3>4, <3>5 DEF StopKept
  <2>. QED  BY <1>7, <2>1, <2>2 DEF Check
<1>8. CASE Poll
  BY <1>8 DEF Poll, DeadlinesKept, ClockKept, StopKept, callVars
<1>9. ASSUME NEW r \in results, Dispatch(r) PROVE Timely'
  BY <1>1, <1>9 DEF Dispatch, callVars
<1>10. CASE DispatchDone
  BY <1>10 DEF DispatchDone, DeadlinesKept, ClockKept, StopKept, callVars
<1>11. ASSUME NEW s \in Slots, Sweep(s) PROVE Timely'
  BY <1>1, <1>11 DEF Sweep, callVars
<1>12. CASE SweepDone
  <2>1. \A s \in in_use : now_ms < conn[s].deadline
    BY <1>12 DEF SweepDone, Overdue, Expired
  <2>. QED
    BY <1>12, <2>1 DEF SweepDone, DeadlinesKept, ClockKept, StopKept, callVars
<1>13. CASE Tick
  BY <1>13 DEF Tick, DeadlinesKept, ClockKept, StopKept, callVars
<1>14. CASE UNCHANGED vars
  BY <1>1, <1>14 DEF vars
<1>. QED
  BY <1>2, <1>3, <1>4, <1>5, <1>6, <1>7, <1>8, <1>9, <1>10, <1>11, <1>12, <1>13, <1>14
  DEF Next, Loop, Over

LEMMA TimelyInvariant == Spec => []Timely
<1>1. Init => Timely
  BY OrchAssumption DEF Init, Timely, DeadlinesKept, ClockKept, StopKept
<1>. QED  BY <1>1, TimelyStep, Invariant, PTL DEF Spec

\* While run() runs, no attempt outlives its deadline, or the call of run() if
\* that came after it, by more than the work of an iteration and a half.
THEOREM SweepInvariant == Spec => []SweptInTime
<1>1. IInv /\ Timely => SweptInTime
  <2>. SUFFICES ASSUME IInv, Timely, pc # "CALLER", NEW s \in in_use
                PROVE  clock <= Limit(s) + 3 * Lag
    BY DEF SweptInTime, Limit
  <2>1. pc \in {"TOP", "FILL", "CHECK", "POLL", "DISPATCH", "SWEEP"}
    BY DEF IInv, TypeOK
  <2>2. /\ clock \in Nat /\ now_ms \in Nat /\ poll_until \in Nat /\ Lag \in Nat
        /\ Limit(s) \in Nat
    BY TimesNat, LimitIs DEF Times
  <2>. HIDE DEF Limit
  <2>. QED  BY <2>1, <2>2 DEF Timely, DeadlinesKept, ClockKept
<1>. QED  BY <1>1, TimelyInvariant, Invariant, PTL

\* A stop is noticed within one poll interval and the work of one iteration.
THEOREM StopInvariant == Spec => []StopNoticed
<1>1. IInv /\ Timely => StopNoticed
  <2>. SUFFICES ASSUME IInv, Timely, pc # "CALLER", stop_requested
                PROVE  clock <= stop_at + MaxPollInterval + 2 * Lag
    BY DEF StopNoticed
  <2>1. pc \in {"TOP", "FILL", "CHECK", "POLL", "DISPATCH", "SWEEP"}
    BY DEF IInv, TypeOK
  <2>2. /\ clock \in Nat /\ now_ms \in Nat /\ poll_until \in Nat /\ stop_at \in Nat
        /\ Lag \in Nat /\ MaxPollInterval \in Nat
    BY TimesNat DEF Times
  <2>. QED  BY <2>1, <2>2 DEF Timely, ClockKept, StopKept
<1>. QED  BY <1>1, TimelyInvariant, Invariant, PTL

-----------------------------------------------------------------------------
(* The loop keeps its side of the reactor's contract.                        *)

SlotsOf(ops) == {o.slot : o \in ops}

LEMMA SlotsWith ==
    ASSUME NEW ops, NEW s, NEW i
    PROVE  SlotsOf(ops \cup {[slot |-> s, id |-> i]}) = SlotsOf(ops) \cup {s}
<1>1. \A op : SlotsOf(ops \cup {op}) = SlotsOf(ops) \cup {op.slot}
  BY DEF SlotsOf
<1>2. [slot |-> s, id |-> i].slot = s
  OBVIOUS
<1>. QED  BY <1>1, <1>2, Zenon

\* A slot has at most one operation, so taking it away takes the slot away.
LEMMA SlotsWithout ==
    ASSUME IInv, NEW batch \in SUBSET submitted
    PROVE  SlotsOf(submitted \ batch) = SlotsOf(submitted) \ SlotsOf(batch)
<1>1. \A o, q \in submitted : o.slot = q.slot => o = q
  BY DEF IInv, OpsTracked, TypeOK, Operations
<1>. QED  BY <1>1 DEF SlotsOf

LEMMA BatchNoLarger ==
    ASSUME IInv, NEW batch \in SUBSET submitted, Cardinality(batch) <= PollBatch
    PROVE  Cardinality(SlotsOf(batch)) <= PollBatch
<1>1. IsFiniteSet(batch)
  <2>. DEFINE f == [o \in batch |-> o.slot]
  <2>1. f \in [batch -> Slots] /\ \A o, q \in batch : f[o] = f[q] => o = q
    BY DEF IInv, OpsTracked, TypeOK, Operations
  <2>2. f \in Injection(batch, Slots)
    BY <2>1 DEF Injection, IsInjective
  <2>. QED  BY <2>2, FS_Injection, OrchAssumption
<1>2. SlotsOf(batch) = {[q \in batch |-> q.slot][o] : o \in batch}
  BY DEF SlotsOf
<1>3. Cardinality(SlotsOf(batch)) <= Cardinality(batch) /\ IsFiniteSet(SlotsOf(batch))
  <2>. DEFINE f == [o \in batch |-> o.slot]
  <2>1. f \in Surjection(batch, SlotsOf(batch))
    BY DEF SlotsOf, Surjection
  <2>. QED  BY <1>1, <2>1, FS_Surjection
<1>. QED  BY <1>1, <1>3, FS_CardinalityType, OrchAssumption

LEMMA RefineFinishSlot ==
    ASSUME IInv, NEW s \in in_use, NEW outcome, FinishSlot(s, outcome),
           results' = {r \in results : r.slot # s}
    PROVE  ReactorUse!Forget(s)
<1>1. in_use' = in_use \ {s} /\ submitted' = {o \in submitted : o.slot # s}
  BY DEF FinishSlot, Release
<1>2. SlotsOf(submitted') = SlotsOf(submitted) \ {s}
      /\ SlotsOf(results') = SlotsOf(results) \ {s}
  BY <1>1 DEF SlotsOf
<1>. QED  BY <1>1, <1>2 DEF ReactorUse!Forget, SlotsOf

LEMMA RefineDispatch ==
    ASSUME IInv, NEW r \in results, Dispatch(r)
    PROVE  ReactorUse!Resubmit(r.slot) \/ ReactorUse!Forget(r.slot)
<1>1. r.slot \in in_use /\ id[r.slot] = r.id /\ r \in Operations
  BY DEF IInv, OpsTracked, TypeOK
<1>2. results' = results \ {r} /\ results' = {q \in results : q.slot # r.slot}
  BY OneResultPerSlot DEF Dispatch
<1>3. ASSUME NEW c, ContinueSlot(r.slot, c) PROVE ReactorUse!Resubmit(r.slot)
  <2>1. submitted' = submitted \cup {[slot |-> r.slot, id |-> id[r.slot]]} /\ in_use' = in_use
    BY <1>3 DEF ContinueSlot, Resubmit
  <2>2. SlotsOf(submitted') = SlotsOf(submitted) \cup {r.slot}
    BY <2>1, SlotsWith
  <2>3. SlotsOf(results') = SlotsOf(results) \ {r.slot} /\ r.slot \in SlotsOf(results)
    BY <1>2 DEF SlotsOf
  <2>. QED  BY <2>1, <2>2, <2>3 DEF ReactorUse!Resubmit, SlotsOf
<1>4. ASSUME NEW outcome, FinishSlot(r.slot, outcome) PROVE ReactorUse!Forget(r.slot)
  BY <1>1, <1>2, <1>4, RefineFinishSlot
<1>. QED  BY <1>3, <1>4 DEF Dispatch

LEMMA RefineStartSlot ==
    ASSUME IInv, NEW s \in Slots, StartSlot(s)
    PROVE  ReactorUse!Connect(s) \/ UNCHANGED <<in_use, submitted, results>>
<1>1. UNCHANGED results
  BY DEF StartSlot
<1>2. CASE SocketFailed \/ ConnectRejected(s)
  BY <1>1, <1>2 DEF SocketFailed, ConnectRejected
<1>3. CASE ConnectAccepted(s)
  <2>1. /\ s \notin in_use /\ in_use' = in_use \cup {s}
        /\ submitted' = submitted \cup {[slot |-> s, id |-> next_id]}
    BY <1>3 DEF StartSlot, ConnectAccepted
  <2>2. Cardinality(in_use) < Cardinality(Slots)
    BY <1>3 DEF ConnectAccepted, IInv, ResourcesFollowSlots
  <2>3. ReactorUse!Cardinality(in_use) = Cardinality(in_use)
    BY DEF ReactorUse!Cardinality, Cardinality
  <2>4. SlotsOf(submitted') = SlotsOf(submitted) \cup {s}
    BY <2>1, SlotsWith
  <2>. QED  BY <1>1, <2>1, <2>2, <2>3, <2>4 DEF ReactorUse!Connect, SlotsOf
<1>. QED  BY <1>2, <1>3 DEF StartSlot

LEMMA RefinePoll ==
    ASSUME IInv, Poll
    PROVE  \E reported \in SUBSET SlotsOf(submitted) : ReactorUse!Report(reported)
<1>1. PICK batch \in SUBSET submitted :
        Cardinality(batch) <= PollBatch /\ results' = batch /\ submitted' = submitted \ batch
  BY DEF Poll
<1>2. results = {} /\ in_use' = in_use
  BY DEF Poll, IInv, BatchDispatched
<1>3. SlotsOf(submitted') = SlotsOf(submitted) \ SlotsOf(batch) /\ SlotsOf(results) = {}
  BY <1>1, <1>2, SlotsWithout DEF SlotsOf
<1>4. Cardinality(SlotsOf(batch)) <= PollBatch
  BY <1>1, BatchNoLarger
<1>5. ReactorUse!Cardinality(SlotsOf(batch)) = Cardinality(SlotsOf(batch))
  BY DEF ReactorUse!Cardinality, Cardinality
<1>6. SlotsOf(batch) \in SUBSET SlotsOf(submitted)
  BY DEF SlotsOf
<1>7. ReactorUse!Report(SlotsOf(batch))
  BY <1>1, <1>2, <1>3, <1>4, <1>5 DEF ReactorUse!Report, SlotsOf
<1>. QED  BY <1>6, <1>7

LEMMA RefineStep == IInv /\ [Next]_vars => [ReactorUse!Next]_(ReactorUse!rvars)
<1>. SUFFICES ASSUME IInv, [Next]_vars
              PROVE  ReactorUse!Next \/ UNCHANGED <<in_use, submitted, results>>
  BY DEF ReactorUse!rvars
<1>1. ASSUME NEW s \in Slots, StartSlot(s)
      PROVE  ReactorUse!Next \/ UNCHANGED <<in_use, submitted, results>>
  BY <1>1, RefineStartSlot DEF ReactorUse!Next
<1>2. CASE Poll
  BY <1>2, RefinePoll DEF ReactorUse!Next, SlotsOf
<1>3. ASSUME NEW r \in results, Dispatch(r) PROVE ReactorUse!Next
  <2>1. r.slot \in Slots
    BY <1>3 DEF IInv, TypeOK, Operations
  <2>. QED  BY <1>3, <2>1, RefineDispatch DEF ReactorUse!Next
<1>4. ASSUME NEW s \in Slots, Sweep(s) PROVE ReactorUse!Next
  <2>1. s \in in_use /\ FinishSlot(s, "TIMED_OUT") /\ results' = results /\ results = {}
    BY <1>4 DEF Sweep, Overdue, IInv, BatchDispatched
  <2>. QED  BY <1>4, <2>1, RefineFinishSlot DEF ReactorUse!Next
<1>5. CASE \/ \E target \in Targets : Run(target)
           \/ RequestStop \/ Top \/ FillDone \/ Check \/ DispatchDone \/ SweepDone
           \/ Tick \/ UNCHANGED vars
  BY <1>5 DEF Run, RequestStop, Top, FillDone, Check, DispatchDone, SweepDone, Tick,
              vars, slotVars
<1>. QED  BY <1>1, <1>2, <1>3, <1>4, <1>5 DEF Next, Loop, Over

\* run() uses the reactor as smtp_reactor.h demands, for any number of slots and
\* any batch size: each result is answered before the next poll(), and
\* max_connections is never exceeded.
THEOREM ReactorUsedAsAgreed == Spec => UsesReactorAsAgreed
<1>1. Init => ReactorUse!Init
  BY DEF Init, ReactorUse!Init
<1>2. IInv /\ [Next]_vars => [ReactorUse!Next]_(ReactorUse!rvars)
  BY RefineStep
<1>. QED  BY <1>1, <1>2, Invariant, PTL DEF Spec, UsesReactorAsAgreed, ReactorUse!Spec
=============================================================================
