--------------------------- MODULE ReactorProofs ---------------------------
(***************************************************************************)
(* Theorems about Reactor, for any number of sockets, any capacity and any  *)
(* size of the caller's array: what the kernel watches is what has been     *)
(* submitted, no assertion of poll() or forget fails, and both backends     *)
(* implement ReactorContract.                                               *)
(***************************************************************************)
EXTENDS Reactor, FiniteSetTheorems, TLAPS

\* The inductive invariant.  TypeOK and WatchedAsSubmitted need OneOpEach: only
\* because a disarmed socket always has its result waiting, and the caller works
\* those off before it polls, does poll() never see a hang-up without an op.
IInv == TypeOK /\ WatchedAsSubmitted /\ OneOpEach /\ BatchFits /\ NoAssertFails

LEMMA RegisteredFinite ==
    ASSUME TypeOK
    PROVE  IsFiniteSet(registered) /\ Cardinality(registered) \in Nat
BY ReactorAssumption, FS_Subset, FS_CardinalityType DEF TypeOK

\* The array stays large enough as long as nothing is added to the batch.
LEMMA BatchShrinks ==
    ASSUME TypeOK, BatchFits, (Answered \cup raw)' \subseteq Answered \cup raw
    PROVE  BatchFits'
<1>1. Answered \subseteq Sockets /\ raw \subseteq Sockets
  BY DEF TypeOK, Answered, Results
<1>2. IsFiniteSet(Answered \cup raw)
  BY <1>1, ReactorAssumption, FS_Subset
<1>3. /\ Cardinality(Answered \cup raw) \in Nat
      /\ Cardinality((Answered \cup raw)') \in Nat
      /\ Cardinality((Answered \cup raw)') <= Cardinality(Answered \cup raw)
  BY <1>2, FS_Subset, FS_CardinalityType
<1>. QED  BY <1>3, ReactorAssumption DEF BatchFits

LEMMA InitInvariant == Init => IInv
<1>. SUFFICES ASSUME Init PROVE IInv
  OBVIOUS
<1>1. TypeOK
  BY ReactorAssumption DEF Init, TypeOK, SocketStates
<1>2. WatchedAsSubmitted
  BY DEF Init, WatchedAsSubmitted
<1>3. OneOpEach
  <2>1. Cardinality(registered) = 0
    BY FS_EmptySet DEF Init
  <2>. QED  BY <2>1 DEF Init, OneOpEach
<1>4. BatchFits
  <2>1. Answered \cup raw = {}
    BY DEF Init, Answered
  <2>. QED  BY <2>1, FS_EmptySet, ReactorAssumption DEF BatchFits
<1>5. NoAssertFails
  BY DEF Init, NoAssertFails
<1>. QED  BY <1>1, <1>2, <1>3, <1>4, <1>5 DEF IInv

-----------------------------------------------------------------------------
(* Preservation, one lemma per group of actions.                             *)

LEMMA SubmitConnectStep ==
    ASSUME IInv, NEW s \in Sockets, SubmitConnect(s)
    PROVE  IInv'
<1>. USE DEF IInv
<1>1. s \notin registered /\ ~ \E r \in results : r.sock = s
  BY DEF SubmitConnect, OneOpEach
<1>2. live_count' \in 1..MaxConnections
  BY ReactorAssumption DEF SubmitConnect, HasRoom, TypeOK
<1>3. TypeOK'
  BY <1>2 DEF SubmitConnect, Arm, Filter, TypeOK, SocketStates, Kinds, pollVars
<1>4. WatchedAsSubmitted'
  BY DEF SubmitConnect, Arm, Filter, TypeOK, WatchedAsSubmitted, pollVars
<1>5. OneOpEach'
  <2>1. Cardinality(registered') = Cardinality(registered) + 1
    BY <1>1, RegisteredFinite, FS_AddElement DEF SubmitConnect
  <2>2. pc = "CALLER" /\ raw' = {}
    BY DEF SubmitConnect, CallersTurn, OneOpEach, pollVars
  <2>. QED
    BY <1>1, <2>1, <2>2 DEF SubmitConnect, TypeOK, OneOpEach, pollVars
<1>6. NoAssertFails'
  BY DEF SubmitConnect, NoAssertFails
<1>7. BatchFits'
  BY BatchShrinks DEF SubmitConnect, Answered, pollVars
<1>. QED  BY <1>3, <1>4, <1>5, <1>6, <1>7

LEMMA SubmitRwStep ==
    ASSUME IInv, NEW r \in results, NEW kind \in {"READ", "WRITE"}, SubmitRw(r, kind)
    PROVE  IInv'
<1>. USE DEF IInv
<1>1. r.sock \in registered /\ r.sock \in Sockets
  BY DEF OneOpEach, TypeOK
<1>2. \A q \in results' : q.sock # r.sock
  BY DEF SubmitRw, OneOpEach
<1>3. TypeOK'
  BY <1>1 DEF SubmitRw, Arm, Filter, TypeOK, Kinds, pollVars
<1>4. WatchedAsSubmitted'
  BY <1>1 DEF SubmitRw, Arm, Filter, TypeOK, WatchedAsSubmitted, pollVars
<1>5. OneOpEach'
  BY <1>1, <1>2 DEF SubmitRw, CallersTurn, TypeOK, OneOpEach, pollVars
<1>6. NoAssertFails'
  BY DEF SubmitRw, NoAssertFails
<1>7. BatchFits'
  BY BatchShrinks DEF SubmitRw, Answered, pollVars
<1>. QED  BY <1>3, <1>4, <1>5, <1>6, <1>7

LEMMA ForgetStep ==
    ASSUME IInv, NEW s \in Sockets, Forget(s)
    PROVE  IInv'
<1>. USE DEF IInv
<1>1. /\ Cardinality(registered') = Cardinality(registered) - 1
      /\ Cardinality(registered) > 0
  <2>1. s \in registered /\ registered' = registered \ {s}
    BY DEF Forget
  <2>2. IsFiniteSet(registered) /\ Cardinality(registered) \in Nat
    BY RegisteredFinite
  <2>3. Cardinality(registered) # 0
    BY <2>1, <2>2, FS_EmptySet
  <2>4. Cardinality(registered \ {s}) = Cardinality(registered) - 1
    BY <2>1, <2>2, FS_RemoveElement
  <2>. QED  BY <2>1, <2>2, <2>3, <2>4
<1>2. live_count > 0 /\ live_count' = Cardinality(registered')
  BY <1>1 DEF Forget, ReleaseCapacity, OneOpEach
<1>3. TypeOK'
  <2>1. live_count' \in 0..MaxConnections
    BY <1>2, ReactorAssumption DEF Forget, ReleaseCapacity, TypeOK
  <2>2. results' \subseteq Results /\ ended' = "NO"
    BY <1>2 DEF Forget, TypeOK
  <2>. QED  BY <2>1, <2>2 DEF Forget, TypeOK, SocketStates, pollVars
<1>4. WatchedAsSubmitted'
  BY DEF Forget, TypeOK, WatchedAsSubmitted, pollVars
<1>5. OneOpEach'
  <2>1. \A t \in Sockets : t # s => due'[t] = due[t] /\ st'[t] = st[t]
    BY DEF Forget, TypeOK
  <2>2. st'[s] = "CLOSED" /\ registered' = registered \ {s} /\ registered \subseteq Sockets
    BY DEF Forget, TypeOK
  <2>3. \A r : r \in results' <=> r \in results /\ r.sock # s
    BY DEF Forget
  <2>3a. \A r \in results : r.sock \in registered
    BY DEF OneOpEach
  <2>4. pc' = "CALLER" /\ raw' = {}
    BY DEF Forget, CallersTurn, OneOpEach, pollVars
  <2>5. \A t \in Sockets : t \in registered' <=> st'[t] # "CLOSED"
    BY <2>1, <2>2 DEF OneOpEach
  <2>6. \A t \in registered' : due'[t] = "NONE" <=> \E r \in results' : r.sock = t
    BY <2>1, <2>2, <2>3 DEF OneOpEach
  <2>7. \A r \in results' : r.sock \in registered'
    BY <2>2, <2>3 DEF OneOpEach
  <2>8. \A r1, r2 \in results' : r1.sock = r2.sock => r1 = r2
    BY <2>3 DEF OneOpEach
  <2>. QED  BY <1>2, <2>4, <2>5, <2>6, <2>7, <2>8 DEF OneOpEach
<1>6. NoAssertFails'
  BY <1>2 DEF Forget, NoAssertFails
<1>7. BatchFits'
  BY BatchShrinks DEF Forget, Answered, pollVars
<1>. QED  BY <1>3, <1>4, <1>5, <1>6, <1>7

\* Every event poll() is shown belongs to an operation that is due.
LEMMA PollStep ==
    ASSUME IInv, Poll
    PROVE  IInv'
<1>. USE DEF IInv
<1>1. \A s \in Sockets : Event(s) => due[s] # "NONE"
  BY DEF Poll, Event, WatchedAsSubmitted, OneOpEach
<1>2. raw' \subseteq Sockets /\ \A s \in raw' : due[s] # "NONE"
  BY <1>1 DEF Poll
<1>3. TypeOK'
  BY <1>2 DEF Poll, TypeOK, opVars
<1>4. WatchedAsSubmitted'
  BY DEF Poll, WatchedAsSubmitted, opVars
<1>5. OneOpEach'
  BY <1>2 DEF Poll, OneOpEach, opVars
<1>6. NoAssertFails'
  BY DEF Poll, NoAssertFails
<1>7. BatchFits'
  <2>1. (Answered \cup raw)' = raw'
    BY DEF Poll, Answered
  <2>2. Cardinality(raw') \in Nat /\ Cardinality(raw') <= BatchLimit
    BY <1>2, ReactorAssumption, FS_Subset, FS_CardinalityType DEF Poll
  <2>3. BatchLimit <= MaxOut /\ BatchLimit \in Nat
    BY ReactorAssumption DEF BatchLimit
  <2>4. Cardinality((Answered \cup raw)') = Cardinality(raw')
    BY <2>1, Zenon
  <2>. QED  BY <2>2, <2>3, <2>4, ReactorAssumption DEF BatchFits
<1>. QED  BY <1>3, <1>4, <1>5, <1>6, <1>7

\* An event handled is completed, skipped, or (kqueue) deadly; it has its op.
LEMMA EventOutcomes ==
    ASSUME IInv, NEW s \in Sockets, HandleEvent(s)
    PROVE  /\ due[s] # "NONE" /\ op[s] = due[s] /\ s \in registered
           /\ raw' = raw \ {s} /\ UNCHANGED <<backend, st, pc>> /\ pc = "BATCH"
           /\ \/ \E outcome \in {"OK", "EOF", "ERROR"} : Complete(s, outcome)
              \/ Skip
              \/ Killed
<1>. USE DEF IInv
<1>1. due[s] # "NONE" /\ op[s] = due[s] /\ s \in registered /\ armed[s] # {}
  BY DEF HandleEvent, OneOpEach, WatchedAsSubmitted
<1>2. ~NoOp(s)
  BY <1>1 DEF NoOp
<1>. QED
  BY <1>1, <1>2 DEF HandleEvent, ConnectReady, ReadReady, WriteReady

LEMMA HandleEventStep ==
    ASSUME IInv, NEW s \in Sockets, HandleEvent(s)
    PROVE  IInv'
<1>. USE DEF IInv
<1>1. /\ due[s] # "NONE" /\ op[s] = due[s] /\ s \in registered
      /\ raw' = raw \ {s} /\ UNCHANGED <<backend, st, pc>> /\ pc = "BATCH"
  BY EventOutcomes
<1>2. CASE Skip
  <2>1. TypeOK' /\ WatchedAsSubmitted' /\ OneOpEach' /\ NoAssertFails'
    BY <1>1, <1>2 DEF Skip, opVars, TypeOK, WatchedAsSubmitted, OneOpEach, NoAssertFails
  <2>. QED  BY <1>1, <1>2, <2>1, BatchShrinks DEF Skip, Answered
<1>3. CASE Killed
  <2>1. TypeOK' /\ WatchedAsSubmitted' /\ OneOpEach' /\ NoAssertFails'
    BY <1>1, <1>3 DEF Killed, opVars, TypeOK, WatchedAsSubmitted, OneOpEach, NoAssertFails
  <2>. QED  BY <1>1, <1>3, <2>1, BatchShrinks DEF Killed, Answered
<1>4. ASSUME NEW outcome \in {"OK", "EOF", "ERROR"}, Complete(s, outcome)
      PROVE  IInv'
  <2>0. armed[s] = {Filter(op[s])}
    BY <1>1 DEF WatchedAsSubmitted
  <2>1. armed' = [armed EXCEPT ![s] = {}]
    BY <1>4, <2>0 DEF Complete, Disarm, TypeOK
  <2>2. [sock |-> s, kind |-> op[s], result |-> outcome] \in Results
    BY <1>1, <1>4 DEF Results, TypeOK
  <2>3. TypeOK'
    BY <1>1, <1>4, <2>1, <2>2 DEF Complete, TypeOK
  <2>4. WatchedAsSubmitted'
    BY <1>1, <1>4, <2>1 DEF Complete, TypeOK, WatchedAsSubmitted
  <2>5. ~ \E r \in results : r.sock = s
    BY <1>1 DEF OneOpEach
  <2>6. OneOpEach'
    <3>1. \A t \in Sockets : due'[t] = IF t = s THEN "NONE" ELSE due[t]
      BY <1>4 DEF Complete, TypeOK
    <3>2. registered \subseteq Sockets /\ raw \subseteq Sockets /\ UNCHANGED <<registered, live_count>>
      BY <1>4 DEF Complete, TypeOK
    <3>3. \A r : r \in results' <=> \/ r \in results
                                    \/ r = [sock |-> s, kind |-> op[s], result |-> outcome]
      BY <1>4 DEF Complete
    <3>4. \A t \in registered' : due'[t] = "NONE" <=> \E r \in results' : r.sock = t
      <4>1. \E r \in results' : r.sock = s
        <5>1. [sock |-> s, kind |-> op[s], result |-> outcome] \in results'
          BY <3>3
        <5>. QED  BY <5>1
      <4>2. \A t \in Sockets : t # s => ((\E r \in results' : r.sock = t)
                                        <=> (\E r \in results : r.sock = t))
        BY <3>3
      <4>. QED  BY <3>1, <3>2, <4>1, <4>2 DEF OneOpEach
    <3>5. \A r \in results' : r.sock \in registered'
      BY <1>1, <3>2, <3>3 DEF OneOpEach
    <3>6. \A r1, r2 \in results' : r1.sock = r2.sock => r1 = r2
      BY <3>3, <2>5 DEF OneOpEach
    <3>7. \A t \in raw' : due'[t] # "NONE"
      BY <1>1, <3>1, <3>2 DEF OneOpEach
    <3>. QED  BY <1>1, <3>2, <3>4, <3>5, <3>6, <3>7 DEF OneOpEach
  <2>7. NoAssertFails'
    BY <1>4 DEF Complete, NoAssertFails
  <2>8. BatchFits'
    <3>1. \A r : r \in results' => r \in results \/ r.sock = s
      BY <1>4 DEF Complete
    <3>2. s \in raw
      BY DEF HandleEvent
    <3>. QED  BY <1>1, <3>1, <3>2, BatchShrinks DEF Answered
  <2>. QED  BY <2>3, <2>4, <2>6, <2>7, <2>8
<1>. QED  BY <1>2, <1>3, <1>4, EventOutcomes

LEMMA OtherSteps ==
    ASSUME IInv,
           \/ PollReturns
           \/ \E s \in Sockets : PeerActs(s)
           \/ UNCHANGED vars
    PROVE  IInv'
<1>. USE DEF IInv
<1>1. CASE PollReturns
  BY <1>1 DEF PollReturns, opVars, TypeOK, WatchedAsSubmitted, OneOpEach, NoAssertFails,
     BatchFits, Answered
<1>2. CASE UNCHANGED vars
  BY <1>2 DEF vars, TypeOK, WatchedAsSubmitted, OneOpEach, NoAssertFails, BatchFits, Answered
<1>3. ASSUME NEW s \in Sockets, PeerActs(s)
      PROVE  IInv'
  <2>1. \E now \in SocketStates \ {"CLOSED"} : st[s] # "CLOSED" /\ st' = [st EXCEPT ![s] = now]
    BY <1>3 DEF PeerActs, SocketStates
  <2>2. TypeOK'
    BY <1>3, <2>1 DEF PeerActs, opVars, pollVars, TypeOK
  <2>3. WatchedAsSubmitted' /\ NoAssertFails'
    BY <1>3 DEF PeerActs, opVars, pollVars, WatchedAsSubmitted, NoAssertFails
  <2>4. OneOpEach'
    BY <1>3, <2>1 DEF PeerActs, opVars, pollVars, TypeOK, OneOpEach
  <2>5. BatchFits'
    BY <1>3 DEF PeerActs, pollVars, BatchFits, Answered
  <2>. QED  BY <2>2, <2>3, <2>4, <2>5
<1>. QED  BY <1>1, <1>2, <1>3

LEMMA NextInvariant == IInv /\ [Next]_vars => IInv'
<1>. SUFFICES ASSUME IInv, [Next]_vars PROVE IInv'
  OBVIOUS
<1>1. ASSUME NEW s \in Sockets, SubmitConnect(s) PROVE IInv'
  BY <1>1, SubmitConnectStep
<1>2. ASSUME NEW r \in results, NEW kind \in {"READ", "WRITE"}, SubmitRw(r, kind) PROVE IInv'
  BY <1>2, SubmitRwStep
<1>3. ASSUME NEW s \in Sockets, Forget(s) PROVE IInv'
  BY <1>3, ForgetStep
<1>4. CASE Poll
  BY <1>4, PollStep
<1>5. ASSUME NEW s \in Sockets, HandleEvent(s) PROVE IInv'
  BY <1>5, HandleEventStep
<1>6. CASE PollReturns
  BY <1>6, OtherSteps
<1>7. ASSUME NEW s \in Sockets, PeerActs(s) PROVE IInv'
  BY <1>7, OtherSteps
<1>8. CASE UNCHANGED vars
  BY <1>8, OtherSteps
<1>. QED
  BY <1>1, <1>2, <1>3, <1>4, <1>5, <1>6, <1>7, <1>8 DEF Next, Over

LEMMA Invariant == Spec => []IInv
BY InitInvariant, NextInvariant, PTL DEF Spec

-----------------------------------------------------------------------------
(* The theorems.                                                             *)

\* The live count stays within max_connections, and everything keeps its type.
THEOREM TypeCorrect == Spec => []TypeOK
BY Invariant, PTL DEF IInv

\* The kernel watches exactly what has been submitted and not yet reported, in
\* one direction per socket, on both backends.
THEOREM WatchInvariant == Spec => []WatchedAsSubmitted
BY Invariant, PTL DEF IInv

\* Every socket between submit_connect and forget has one operation due or one
\* result waiting.
THEOREM OneOpInvariant == Spec => []OneOpEach
BY Invariant, PTL DEF IInv

\* poll() never meets an event without an op, nor forget an empty reactor.
THEOREM NoAssertInvariant == Spec => []NoAssertFails
BY Invariant, PTL DEF IInv

\* What poll() writes never overruns the caller's array.
THEOREM BatchInvariant == Spec => []BatchFits
BY Invariant, PTL DEF IInv

-----------------------------------------------------------------------------
(* The backends implement the contract.                                      *)

LEMMA InitRefines == Init => Contract!Init
BY DEF Init, Contract!Init, Pending, Batch, Due, Answered

LEMMA RefineSubmitConnect ==
    ASSUME IInv, NEW s \in Sockets, SubmitConnect(s)
    PROVE  Contract!Connect(s)
<1>1. s \notin registered /\ Cardinality(registered) < MaxConnections
  BY DEF IInv, OneOpEach, SubmitConnect, HasRoom
<1>2. pc = "CALLER" /\ pc' = "CALLER" /\ results' = results /\ registered' = registered \cup {s}
  BY DEF SubmitConnect, CallersTurn, pollVars
<1>3. Due' = Due \cup {s}
  BY DEF IInv, TypeOK, SubmitConnect, Due
<1>. QED
  <2>1. Contract!Cardinality(registered) = Cardinality(registered)
    BY DEF Contract!Cardinality, Cardinality
  <2>. QED  BY <1>1, <1>2, <1>3, <2>1 DEF Contract!Connect, Pending, Batch, Answered

LEMMA RefineSubmitRw ==
    ASSUME IInv, NEW r \in results, NEW kind \in {"READ", "WRITE"}, SubmitRw(r, kind)
    PROVE  r.sock \in Sockets /\ Contract!Resubmit(r.sock)
<1>1. r.sock \in Sockets
  BY DEF IInv, TypeOK, Results
<1>2. pc = "CALLER" /\ pc' = "CALLER" /\ registered' = registered
  BY DEF SubmitRw, CallersTurn, pollVars
<1>3. Due' = Due \cup {r.sock}
  BY <1>1 DEF IInv, TypeOK, SubmitRw, Due
<1>4. Answered' = Answered \ {r.sock}
  BY DEF IInv, OneOpEach, SubmitRw, Answered
<1>5. r.sock \in Answered
  BY DEF Answered
<1>. QED
  BY <1>1, <1>2, <1>3, <1>4, <1>5 DEF Contract!Resubmit, Pending, Batch

LEMMA RefineForget ==
    ASSUME IInv, NEW s \in Sockets, Forget(s)
    PROVE  Contract!Forget(s)
<1>1. pc = "CALLER" /\ pc' = "CALLER" /\ s \in registered /\ registered' = registered \ {s}
  BY DEF Forget, CallersTurn, pollVars
<1>2. Due' = Due \ {s}
  BY DEF IInv, TypeOK, Forget, Due
<1>3. Answered' = Answered \ {s}
  BY DEF Forget, Answered
<1>. QED
  BY <1>1, <1>2, <1>3 DEF Contract!Forget, Pending, Batch

\* Inside poll() nothing is visible yet: an operation that has completed stays
\* pending until poll() returns.
LEMMA RefinePoll ==
    ASSUME IInv, Poll \/ \E s \in Sockets : HandleEvent(s)
    PROVE  UNCHANGED <<registered, Pending, Batch>>
<1>1. CASE Poll
  BY <1>1 DEF Poll, CallersTurn, opVars, Pending, Batch, Due, Answered
<1>2. ASSUME NEW s \in Sockets, HandleEvent(s)
      PROVE  UNCHANGED <<registered, Pending, Batch>>
  <2>1. pc = "BATCH" /\ pc' = "BATCH" /\ due[s] # "NONE"
    BY <1>2, EventOutcomes
  <2>2. CASE Skip \/ Killed
    BY <2>1, <2>2 DEF Skip, Killed, opVars, Pending, Batch, Due, Answered
  <2>3. ASSUME NEW outcome \in {"OK", "EOF", "ERROR"}, Complete(s, outcome)
        PROVE  UNCHANGED <<registered, Pending, Batch>>
    <3>1. registered' = registered /\ Due' = Due \ {s}
      BY <2>3 DEF IInv, TypeOK, Complete, Due
    <3>2. Answered' = Answered \cup {s}
      <4>1. results' = results \cup {[sock |-> s, kind |-> op[s], result |-> outcome]}
        BY <2>3 DEF Complete
      <4>2. [sock |-> s, kind |-> op[s], result |-> outcome].sock = s
        OBVIOUS
      <4>. QED  BY <4>1, <4>2 DEF Answered
    <3>3. s \in Due
      BY <2>1 DEF Due
    <3>. QED  BY <2>1, <3>1, <3>2, <3>3 DEF Pending, Batch
  <2>. QED  BY <1>2, <2>2, <2>3, EventOutcomes
<1>. QED  BY <1>1, <1>2

\* The return of poll() is the report, of everything that completed in it.
LEMMA RefinePollReturns ==
    ASSUME IInv, PollReturns
    PROVE  \E reported \in SUBSET Pending : Contract!Report(reported)
<1>1. pc = "BATCH" /\ pc' = "CALLER" /\ raw = {} /\ UNCHANGED <<registered, due, results>>
  BY DEF PollReturns, opVars
<1>2. Due' = Due /\ Answered' = Answered
  BY <1>1 DEF Due, Answered
<1>3. Due \cap Answered = {}
  BY DEF IInv, OneOpEach, Due, Answered
<1>4. Contract!Cardinality(Answered) <= MaxOut
  <2>1. Answered \cup raw = Answered
    BY <1>1
  <2>2. Cardinality(Answered) <= MaxOut
    BY <2>1 DEF IInv, BatchFits
  <2>3. Contract!Cardinality(Answered) = Cardinality(Answered)
    BY DEF Contract!Cardinality, Cardinality
  <2>. QED  BY <2>2, <2>3
<1>5. Pending = Due \cup Answered /\ Pending' = Due /\ Batch = {} /\ Batch' = Answered
  BY <1>1, <1>2 DEF Pending, Batch
<1>. QED  BY <1>1, <1>3, <1>4, <1>5 DEF Contract!Report

LEMMA RefineStep == IInv /\ [Next]_vars => [Contract!Next]_(Contract!rvars)
<1>. SUFFICES ASSUME IInv, [Next]_vars
              PROVE  Contract!Next \/ UNCHANGED <<registered, Pending, Batch>>
  BY DEF Contract!rvars
<1>1. ASSUME NEW s \in Sockets, SubmitConnect(s) PROVE Contract!Next
  BY <1>1, RefineSubmitConnect DEF Contract!Next
<1>2. ASSUME NEW r \in results, NEW kind \in {"READ", "WRITE"}, SubmitRw(r, kind)
      PROVE  Contract!Next
  BY <1>2, RefineSubmitRw DEF Contract!Next
<1>3. ASSUME NEW s \in Sockets, Forget(s) PROVE Contract!Next
  BY <1>3, RefineForget DEF Contract!Next
<1>4. CASE Poll \/ \E s \in Sockets : HandleEvent(s)
  BY <1>4, RefinePoll
<1>5. CASE PollReturns
  BY <1>5, RefinePollReturns DEF Contract!Next
<1>6. ASSUME NEW s \in Sockets, PeerActs(s)
      PROVE  UNCHANGED <<registered, Pending, Batch>>
  BY <1>6 DEF PeerActs, opVars, pollVars, Pending, Batch, Due, Answered
<1>7. CASE UNCHANGED vars
  BY <1>7 DEF vars, Pending, Batch, Due, Answered
<1>. QED
  BY <1>1, <1>2, <1>3, <1>4, <1>5, <1>6, <1>7 DEF Next, Over

\* Both backends implement the contract of smtp_reactor.h for every number of
\* sockets, capacity and array size: one report per submission, within the
\* caller's array, and none for a socket that was forgotten.
THEOREM Refinement == Spec => KeepsReactorContract
<1>1. IInv /\ [Next]_vars => [Contract!Next]_(Contract!rvars)
  BY RefineStep
<1>. QED
  BY <1>1, InitRefines, Invariant, PTL DEF Spec, KeepsReactorContract, Contract!Spec

=============================================================================
