-------------------------- MODULE ReactorIocpProofs --------------------------
(***************************************************************************)
(* Theorems about ReactorIocp, for any number of slots and sockets, any      *)
(* capacity and any length of the caller's array: as long as no operation    *)
(* outlives its connection, each connection in flight has one operation,     *)
(* which is with the kernel, in the port or in the batch, its result says    *)
(* what it was and how it came out, and ReactorContract is kept.             *)
(***************************************************************************)
EXTENDS ReactorIocp, FiniteSetTheorems, SequenceTheorems, TLAPS

\* The operation a slot's op describes.
OpOf(s) == [slot |-> s, sock |-> sock[s], kind |-> op[s]]

\* ... and the one it describes after the step.
OpNext(s) == [slot |-> s, sock |-> sock'[s], kind |-> op'[s]]

\* The live count counts the connections; an operation has been submitted for
\* each.
Counted ==
    /\ live_count = Cardinality(tracked)
    /\ \A s \in tracked : sock[s] # 0 /\ op[s] # "NONE"

\* Each operation is what its slot says, a verdict in the port what the slot's
\* OVERLAPPED says, and a result what was in the port.
Faithful ==
    /\ \A o \in inflight : o.slot \in tracked /\ o = OpOf(o.slot)
    /\ \A i \in 1..Len(port) :
          /\ port[i].of.slot \in tracked /\ port[i].of = OpOf(port[i].of.slot)
          /\ ovl[port[i].of.slot] = IF port[i].ok THEN "OK" ELSE "ERROR"
    /\ \A i \in 1..Len(results) :
          /\ results[i].slot \in tracked /\ results[i].packet.of = OpOf(results[i].slot)
          /\ results[i].kind = op[results[i].slot] /\ results[i].ok = results[i].packet.ok

\* No slot has two.
Once ==
    /\ \A i, j \in 1..Len(port) : port[i].of.slot = port[j].of.slot => i = j
    /\ \A i, j \in 1..Len(results) : results[i].slot = results[j].slot => i = j
    /\ \A o \in inflight :
          /\ \A i \in 1..Len(port) : port[i].of.slot # o.slot
          /\ \A i \in 1..Len(results) : results[i].slot # o.slot
    /\ \A i \in 1..Len(port) : \A j \in 1..Len(results) : port[i].of.slot # results[j].slot

\* Every connection has one.
Covered ==
    \A s \in tracked :
        \/ OpOf(s) \in inflight
        \/ \E i \in 1..Len(port) : port[i].of.slot = s
        \/ \E i \in 1..Len(results) : results[i].slot = s

Placed == Faithful /\ Once /\ Covered

IInv == TypeOK /\ Counted /\ (~abandoned => Placed)

-----------------------------------------------------------------------------
(* Types, and the count.                                                     *)

LEMMA TrackedFinite ==
    ASSUME TypeOK
    PROVE  IsFiniteSet(tracked) /\ Cardinality(tracked) \in Nat
  BY IocpAssumption, FS_Subset, FS_CardinalityType DEF TypeOK

LEMMA ConnectionsChange ==
    ASSUME TypeOK, NEW s
    PROVE  /\ s \notin tracked => Cardinality(tracked \cup {s}) = Cardinality(tracked) + 1
           /\ s \in tracked => /\ Cardinality(tracked \ {s}) = Cardinality(tracked) - 1
                               /\ Cardinality(tracked) # 0
<1>1. IsFiniteSet(tracked) /\ Cardinality(tracked) \in Nat
  BY TrackedFinite
<1>2. Cardinality(tracked) = 0 => tracked = {}
  BY <1>1, FS_EmptySet
<1>. QED  BY <1>1, <1>2, FS_AddElement, FS_RemoveElement

LEMMA HeadAndTail ==
    ASSUME TypeOK, results # <<>>
    PROVE  /\ Head(results) = results[1] /\ Head(results) \in Results
           /\ Tail(results) \in Seq(Results) /\ Len(Tail(results)) = Len(results) - 1
           /\ Len(results) \in Nat \ {0}
           /\ \A i \in 1..(Len(results) - 1) : Tail(results)[i] = results[i + 1]
  BY DEF TypeOK

LEMMA PortHolds ==
    ASSUME TypeOK
    PROVE  /\ Len(port) \in Nat
           /\ \A i \in 1..Len(port) :
                 port[i] \in Packets /\ port[i].of \in Operations /\ port[i].of.slot \in Slots
           /\ \A o \in inflight : o \in Operations /\ o.slot \in Slots
<1>1. \A i \in 1..Len(port) : port[i] \in Packets
  BY DEF TypeOK
<1>. QED  BY <1>1 DEF TypeOK, Packets, Operations

LEMMA InitInvariant == Init => IInv
<1> SUFFICES ASSUME Init PROVE IInv
  OBVIOUS
<1>1. TypeOK
  <2>1. /\ sock \in [Slots -> 0..MaxSockets] /\ op \in [Slots -> Kinds \cup {"NONE"}]
        /\ ovl \in [Slots -> {"CLEAR", "PENDING", "OK", "ERROR"}]
    BY IocpAssumption DEF Init
  <2>2. port \in Seq(Packets) /\ results \in Seq(Results)
    BY DEF Init
  <2>3. /\ tracked = {} /\ inflight = {} /\ opened \in 0..MaxSockets
        /\ live_count \in 0..MaxConnections /\ abandoned = FALSE /\ ended = "NO"
    BY IocpAssumption DEF Init
  <2>. QED  BY <2>1, <2>2, <2>3 DEF TypeOK
<1>2. Counted
  BY FS_EmptySet DEF Init, Counted
<1>3. Placed
  BY DEF Init, Placed, Faithful, Once, Covered
<1>. QED  BY <1>1, <1>2, <1>3 DEF IInv

-----------------------------------------------------------------------------
(* The submissions.                                                          *)

LEMMA ConnectStep ==
    ASSUME IInv, NEW s \in Slots, SubmitConnect(s)
    PROVE  IInv'
<1>. USE DEF IInv
<1>. DEFINE o == [slot |-> s, sock |-> opened + 1, kind |-> "CONNECT"]
<1>. DEFINE Taken ==
                /\ HasRoom /\ Accepted(s, opened + 1, "CONNECT")
                /\ tracked' = tracked \cup {s} /\ live_count' = live_count + 1
            Turned == UNCHANGED <<inflight, tracked, live_count>> /\ ovl' = [ovl EXCEPT ![s] = "CLEAR"]
<1>1. /\ results = <<>> /\ s \notin tracked /\ opened + 1 \in 1..MaxSockets
      /\ UNCHANGED <<port, results, abandoned, ended>>
      /\ opened' = opened + 1
      /\ HasRoom => live_count + 1 \in 0..MaxConnections
  BY IocpAssumption DEF SubmitConnect, HasRoom, TypeOK
<1>a. \E n \in 0..MaxSockets, kind \in Kinds \cup {"NONE"} :
        /\ sock' = [sock EXCEPT ![s] = n] /\ op' = [op EXCEPT ![s] = kind]
        /\ Turned \/ (Taken /\ n = opened + 1 /\ kind = "CONNECT")
  <2>1. opened + 1 \in 0..MaxSockets /\ 0 \in 0..MaxSockets
    BY <1>1, IocpAssumption
  <2>2. CASE /\ sock' = [sock EXCEPT ![s] = opened + 1]
             /\ HasRoom /\ Accepted(s, opened + 1, "CONNECT")
             /\ tracked' = tracked \cup {s} /\ live_count' = live_count + 1
    BY <2>1, <2>2 DEF Accepted, Kinds
  <2>3. CASE /\ sock' = [sock EXCEPT ![s] = opened + 1]
             /\ Refused(s, "CONNECT") /\ UNCHANGED <<tracked, live_count>>
    BY <2>1, <2>3 DEF Refused, Kinds
  <2>4. CASE Wiped(s) /\ UNCHANGED <<tracked, live_count>>
    BY <2>1, <2>4 DEF Wiped, Refused
  <2>. QED  BY <2>2, <2>3, <2>4 DEF SubmitConnect
<1>b. PICK n \in 0..MaxSockets, kind \in Kinds \cup {"NONE"} :
        /\ sock' = [sock EXCEPT ![s] = n] /\ op' = [op EXCEPT ![s] = kind]
        /\ Turned \/ (Taken /\ n = opened + 1 /\ kind = "CONNECT")
  BY <1>a
<1>2. /\ sock' \in [Slots -> 0..MaxSockets] /\ opened' \in 0..MaxSockets
      /\ op' \in [Slots -> Kinds \cup {"NONE"}]
      /\ sock'[s] = n /\ op'[s] = kind
      /\ \A t \in Slots \ {s} : sock'[t] = sock[t] /\ op'[t] = op[t]
  BY <1>1, <1>b DEF TypeOK
<1>3. \A p \in Operations : p.slot \in Slots
  BY DEF Operations
<1>4. \A i \in 1..Len(port) : port[i] \in Packets /\ port[i].of \in Operations
  BY PortHolds
<1>5. CASE Turned
  <2>1. UNCHANGED inflight /\ ovl' = [ovl EXCEPT ![s] = "CLEAR"]
    BY <1>5
  <2>2. TypeOK'
    BY <1>1, <1>2, <1>5, <2>1 DEF TypeOK
  <2>3. Counted'
    BY <1>1, <1>2, <1>5 DEF Counted, TypeOK
  <2>4. ASSUME Placed PROVE Placed'
    <3>1. \A t \in tracked : OpOf(t)' = OpOf(t) /\ ovl'[t] = ovl[t] /\ op'[t] = op[t]
      BY <1>1, <1>2, <2>1 DEF OpOf, TypeOK
    <3>2. Faithful'
      BY <1>1, <1>5, <2>1, <2>4, <3>1 DEF Placed, Faithful
    <3>3. Once'
      BY <1>1, <2>1, <2>4 DEF Placed, Once
    <3>4. Covered'
      BY <1>1, <1>5, <2>1, <2>4, <3>1 DEF Placed, Covered
    <3>. QED  BY <3>2, <3>3, <3>4 DEF Placed
  <2>. QED  BY <1>1, <2>2, <2>3, <2>4
<1>6. CASE Taken /\ n = opened + 1 /\ kind = "CONNECT"
  <2>1. inflight' = inflight \cup {o} /\ ovl' = [ovl EXCEPT ![s] = "PENDING"]
    BY <1>6 DEF Accepted
  <2>2. o \in Operations
    BY <1>1 DEF Operations, Kinds
  <2>3. TypeOK'
    BY <1>1, <1>2, <1>6, <2>1, <2>2 DEF TypeOK
  <2>4. Counted'
    <3>1. live_count' = Cardinality(tracked')
      BY <1>1, <1>6, ConnectionsChange DEF Counted
    <3>2. \A t \in tracked' : sock'[t] # 0 /\ op'[t] # "NONE"
      BY <1>1, <1>2, <1>6 DEF Counted, TypeOK
    <3>. QED  BY <3>1, <3>2 DEF Counted
  <2>5. ASSUME Placed PROVE Placed'
    <3>1. \A t \in tracked : OpOf(t)' = OpOf(t) /\ ovl'[t] = ovl[t] /\ op'[t] = op[t]
      BY <1>1, <1>2, <2>1 DEF OpOf, TypeOK
    <3>2. OpOf(s)' = o /\ o.slot = s
      BY <1>2, <1>6 DEF OpOf
    <3>. HIDE DEF o
    <3>3. Faithful'
      <4>1. \A p \in inflight' : p.slot \in tracked' /\ p = OpOf(p.slot)'
        BY <1>6, <2>1, <2>5, <3>1, <3>2 DEF Placed, Faithful
      <4>. QED  BY <1>1, <1>6, <2>5, <3>1, <4>1 DEF Placed, Faithful
    <3>4. Once'
      <4>1. \A i \in 1..Len(port) : port[i].of.slot # s
        BY <1>1, <2>5 DEF Placed, Faithful
      <4>2. \A p \in inflight' : \A i \in 1..Len(port) : port[i].of.slot # p.slot
        BY <2>1, <2>5, <3>2, <4>1 DEF Placed, Once
      <4>. QED  BY <1>1, <2>5, <4>2 DEF Placed, Once
    <3>5. Covered'
      BY <1>1, <1>6, <2>1, <2>5, <3>1, <3>2 DEF Placed, Covered
    <3>. QED  BY <3>3, <3>4, <3>5 DEF Placed
  <2>. QED  BY <1>1, <2>3, <2>4, <2>5
<1>. QED  BY <1>b, <1>5, <1>6

\* The result of a connection in flight is worked off: the connection has
\* nothing with the kernel, and no other result in the batch.
LEMMA HeadIsAlone ==
    ASSUME TypeOK, Placed, results # <<>>
    PROVE  LET s == Head(results).slot IN
           /\ s \in tracked
           /\ \A o \in inflight : o.slot # s
           /\ \A i \in 1..Len(port) : port[i].of.slot # s
           /\ \A i \in 1..(Len(results) - 1) : Tail(results)[i].slot # s
<1>. DEFINE s == Head(results).slot
<1>1. /\ Head(results) = results[1] /\ Len(results) \in Nat \ {0}
      /\ \A i \in 1..(Len(results) - 1) : Tail(results)[i] = results[i + 1]
  BY HeadAndTail
<1>2. s = results[1].slot /\ 1 \in 1..Len(results)
  BY <1>1
<1>. HIDE DEF s
<1>3. s \in tracked
  BY <1>2 DEF Placed, Faithful
<1>4. \A o \in inflight : o.slot # s
  BY <1>2 DEF Placed, Once
<1>5. \A i \in 1..Len(port) : port[i].of.slot # s
  BY <1>2 DEF Placed, Once
<1>6. ASSUME NEW i \in 1..(Len(results) - 1), Tail(results)[i].slot = s PROVE FALSE
  <2>1. i + 1 \in 1..Len(results) /\ results[i + 1].slot = results[1].slot
    BY <1>1, <1>2, <1>6
  <2>2. i + 1 = 1
    BY <1>2, <2>1 DEF Placed, Once
  <2>. QED  BY <2>2
<1>. QED  BY <1>3, <1>4, <1>5, <1>6 DEF s

\* What is left of the batch is still in order.
LEMMA TailPlaced ==
    ASSUME TypeOK, Placed, results # <<>>
    PROVE  LET rest == Tail(results) IN
           /\ \A i \in 1..Len(rest) :
                /\ rest[i].slot \in tracked /\ rest[i].packet.of = OpOf(rest[i].slot)
                /\ rest[i].kind = op[rest[i].slot] /\ rest[i].ok = rest[i].packet.ok
           /\ \A i, j \in 1..Len(rest) : rest[i].slot = rest[j].slot => i = j
           /\ \A o \in inflight : \A i \in 1..Len(rest) : rest[i].slot # o.slot
           /\ \A i \in 1..Len(port) : \A j \in 1..Len(rest) : port[i].of.slot # rest[j].slot
           /\ \A s \in tracked : (\E i \in 1..Len(results) : results[i].slot = s)
                => s = Head(results).slot \/ \E i \in 1..Len(rest) : rest[i].slot = s
<1>. DEFINE rest == Tail(results)
<1>1. /\ Len(rest) = Len(results) - 1 /\ Len(results) \in Nat \ {0}
      /\ \A i \in 1..Len(rest) : i + 1 \in 1..Len(results) /\ rest[i] = results[i + 1]
      /\ Head(results) = results[1]
  BY HeadAndTail
<1>. HIDE DEF rest
<1>2. \A i \in 1..Len(rest) :
        /\ rest[i].slot \in tracked /\ rest[i].packet.of = OpOf(rest[i].slot)
        /\ rest[i].kind = op[rest[i].slot] /\ rest[i].ok = rest[i].packet.ok
  BY <1>1 DEF Placed, Faithful
<1>3. ASSUME NEW i \in 1..Len(rest), NEW j \in 1..Len(rest), rest[i].slot = rest[j].slot
      PROVE  i = j
  <2>1. i + 1 = j + 1
    BY <1>1, <1>3 DEF Placed, Once
  <2>. QED  BY <2>1
<1>4. \A o \in inflight : \A i \in 1..Len(rest) : rest[i].slot # o.slot
  BY <1>1 DEF Placed, Once
<1>5. \A i \in 1..Len(port) : \A j \in 1..Len(rest) : port[i].of.slot # rest[j].slot
  BY <1>1 DEF Placed, Once
<1>6. ASSUME NEW i \in 1..Len(results)
      PROVE  i = 1 \/ (i - 1 \in 1..Len(rest) /\ rest[i - 1] = results[i])
  BY <1>1
<1>7. ASSUME NEW s \in tracked, NEW i \in 1..Len(results), results[i].slot = s
      PROVE  s = Head(results).slot \/ \E j \in 1..Len(rest) : rest[j].slot = s
  BY <1>1, <1>6, <1>7
<1>. QED  BY <1>2, <1>3, <1>4, <1>5, <1>7 DEF rest

\* The three ways a result is taken.
GoesOn(s, kind) ==
    /\ s \in tracked /\ kind \in {"READ", "WRITE"} /\ Accepted(s, sock[s], kind)
    /\ UNCHANGED <<sock, tracked, live_count, abandoned, ended>>
IsOver(s) ==
    /\ s \in tracked /\ Release(s)
    /\ \/ UNCHANGED <<op, ovl, inflight>>
       \/ \E kind \in {"READ", "WRITE"} : Refused(s, kind)
    /\ UNCHANGED <<sock, ended>>
IsUnknown(s) ==
    /\ s \notin tracked /\ ended' = "ASSERT"
    /\ UNCHANGED <<sock, op, ovl, inflight, tracked, live_count, abandoned>>

LEMMA TakeResultWays ==
    ASSUME TypeOK, TakeResult
    PROVE  LET s == Head(results).slot IN
           /\ results # <<>> /\ s \in Slots /\ results' = Tail(results)
           /\ UNCHANGED <<opened, port>>
           /\ \/ \E kind \in {"READ", "WRITE"} : GoesOn(s, kind)
              \/ IsOver(s)
              \/ IsUnknown(s)
<1>1. results # <<>> /\ Head(results) \in Results
  BY HeadAndTail DEF TakeResult
<1>2. Head(results).slot \in Slots
  BY <1>1 DEF Results
<1>. QED  BY <1>1, <1>2 DEF TakeResult, GoesOn, IsOver, IsUnknown

LEMMA GoesOnStep ==
    ASSUME IInv, NEW s \in Slots, s = Head(results).slot, results # <<>>,
           results' = Tail(results), UNCHANGED <<opened, port>>, NEW kind, GoesOn(s, kind)
    PROVE  IInv'
<1>. USE DEF IInv
<1>. DEFINE o == [slot |-> s, sock |-> sock[s], kind |-> kind]
<1>1. /\ op' = [op EXCEPT ![s] = kind] /\ ovl' = [ovl EXCEPT ![s] = "PENDING"]
      /\ inflight' = inflight \cup {o} /\ kind \in {"READ", "WRITE"} /\ s \in tracked
      /\ UNCHANGED <<sock, tracked, live_count, abandoned, ended>>
  BY DEF GoesOn, Accepted
<1>2. sock[s] \in 1..MaxSockets
  BY <1>1, IocpAssumption DEF Counted, TypeOK
<1>3. o \in Operations
  BY <1>1, <1>2 DEF Operations, Kinds
<1>4. /\ op'[s] = kind /\ \A t \in Slots \ {s} : op'[t] = op[t] /\ ovl'[t] = ovl[t]
      /\ op' \in [Slots -> Kinds \cup {"NONE"}]
      /\ ovl' \in [Slots -> {"CLEAR", "PENDING", "OK", "ERROR"}]
      /\ o.slot = s /\ OpOf(s)' = o
  BY <1>1 DEF TypeOK, Kinds, OpOf
<1>. HIDE DEF o
<1>5. TypeOK'
  BY <1>1, <1>3, <1>4, HeadAndTail DEF TypeOK
<1>6. Counted'
  BY <1>1, <1>4, PortHolds DEF Counted
<1>7. ASSUME Placed PROVE Placed'
  <2>1. \A t \in tracked \ {s} : OpOf(t)' = OpOf(t) /\ OpNext(t) = OpOf(t) /\ ovl'[t] = ovl[t] /\ op'[t] = op[t]
    BY <1>1, <1>4 DEF OpOf, OpNext, TypeOK
  <2>2. /\ \A p \in inflight : p.slot # s
        /\ \A i \in 1..Len(port) : port[i].of.slot # s
        /\ \A i \in 1..Len(results') : results'[i].slot # s
    BY <1>7, HeadIsAlone, HeadAndTail
  <2>3. /\ \A i \in 1..Len(results') :
             /\ results'[i].slot \in tracked /\ results'[i].packet.of = OpOf(results'[i].slot)
             /\ results'[i].kind = op[results'[i].slot] /\ results'[i].ok = results'[i].packet.ok
        /\ \A i, j \in 1..Len(results') : results'[i].slot = results'[j].slot => i = j
        /\ \A p \in inflight : \A i \in 1..Len(results') : results'[i].slot # p.slot
        /\ \A i \in 1..Len(port) : \A j \in 1..Len(results') : port[i].of.slot # results'[j].slot
        /\ \A t \in tracked : (\E i \in 1..Len(results) : results[i].slot = t)
             => t = s \/ \E i \in 1..Len(results') : results'[i].slot = t
    <3>1. TypeOK /\ Placed /\ results # <<>> /\ results' = Tail(results) /\ s = Head(results).slot
      BY <1>7
    <3>. QED  BY ONLY <3>1, TailPlaced
  <2>4. Faithful'
    <3>1. \A p \in inflight' : p.slot \in tracked' /\ p = OpOf(p.slot)'
      BY <1>1, <1>4, <1>7, <2>1, <2>2 DEF Placed, Faithful
    <3>2. \A i \in 1..Len(port) :
             /\ port[i].of.slot \in tracked' /\ port[i].of = OpOf(port[i].of.slot)'
             /\ ovl'[port[i].of.slot] = IF port[i].ok THEN "OK" ELSE "ERROR"
      BY <1>1, <1>7, <2>1, <2>2 DEF Placed, Faithful
    <3>3. \A i \in 1..Len(results') :
             /\ results'[i].slot \in tracked' /\ results'[i].packet.of = OpNext(results'[i].slot)
             /\ results'[i].kind = op'[results'[i].slot] /\ results'[i].ok = results'[i].packet.ok
      BY <1>1, <2>1, <2>2, <2>3
    <3>. QED  BY <1>1, <3>1, <3>2, <3>3 DEF Faithful, OpOf, OpNext
  <2>5. Once'
    <3>1. \A p \in inflight' :
             /\ \A i \in 1..Len(port) : port[i].of.slot # p.slot
             /\ \A i \in 1..Len(results') : results'[i].slot # p.slot
      BY <1>1, <1>4, <1>7, <2>2, <2>3 DEF Placed, Once
    <3>. QED  BY <1>7, <2>3, <3>1 DEF Placed, Once
  <2>6. Covered'
    <3>1. ASSUME NEW t \in tracked
          PROVE  \/ OpOf(t)' \in inflight'
                 \/ \E i \in 1..Len(port) : port[i].of.slot = t
                 \/ \E i \in 1..Len(results') : results'[i].slot = t
      BY <1>1, <1>4, <1>7, <2>1, <2>3 DEF Placed, Covered
    <3>. QED  BY <1>1, <3>1 DEF Covered
  <2>. QED  BY <2>4, <2>5, <2>6 DEF Placed
<1>. QED  BY <1>1, <1>5, <1>6, <1>7

LEMMA IsOverStep ==
    ASSUME IInv, NEW s \in Slots, s = Head(results).slot, results # <<>>,
           results' = Tail(results), UNCHANGED <<opened, port>>, IsOver(s)
    PROVE  IInv'
<1>. USE DEF IInv
<1>1. /\ UNCHANGED <<inflight, sock, ended>> /\ s \in tracked
      /\ tracked' = tracked \ {s} /\ live_count' = live_count - 1
      /\ abandoned' = (abandoned \/ Outstanding(s))
  BY DEF IsOver, Release, Refused
<1>2. /\ \A t \in Slots \ {s} : op'[t] = op[t] /\ ovl'[t] = ovl[t]
      /\ op' \in [Slots -> Kinds \cup {"NONE"}]
      /\ ovl' \in [Slots -> {"CLEAR", "PENDING", "OK", "ERROR"}]
      /\ op'[s] # "NONE" \/ op'[s] = op[s]
  BY DEF IsOver, Refused, TypeOK, Kinds
<1>3. live_count' = Cardinality(tracked') /\ live_count' \in 0..MaxConnections
  <2>1. live_count' = Cardinality(tracked')
    BY <1>1, ConnectionsChange DEF Counted
  <2>2. live_count \in 0..MaxConnections /\ live_count # 0 /\ MaxConnections \in Nat
    BY <1>1, ConnectionsChange, IocpAssumption DEF Counted, TypeOK
  <2>. QED  BY <1>1, <2>1, <2>2
<1>4. abandoned' \in BOOLEAN
  BY <1>1 DEF TypeOK, Outstanding
<1>5. TypeOK'
  BY <1>1, <1>2, <1>3, <1>4, HeadAndTail DEF TypeOK
<1>6. Counted'
  BY <1>1, <1>2, <1>3 DEF Counted, TypeOK
<1>7. ASSUME Placed PROVE Placed'
  <2>1. \A t \in tracked \ {s} : OpOf(t)' = OpOf(t) /\ OpNext(t) = OpOf(t) /\ ovl'[t] = ovl[t] /\ op'[t] = op[t]
    BY <1>1, <1>2 DEF OpOf, OpNext, TypeOK
  <2>2. /\ \A p \in inflight : p.slot # s
        /\ \A i \in 1..Len(port) : port[i].of.slot # s
        /\ \A i \in 1..Len(results') : results'[i].slot # s
    BY <1>7, HeadIsAlone, HeadAndTail
  <2>3. /\ \A i \in 1..Len(results') :
             /\ results'[i].slot \in tracked /\ results'[i].packet.of = OpOf(results'[i].slot)
             /\ results'[i].kind = op[results'[i].slot] /\ results'[i].ok = results'[i].packet.ok
        /\ \A i, j \in 1..Len(results') : results'[i].slot = results'[j].slot => i = j
        /\ \A p \in inflight : \A i \in 1..Len(results') : results'[i].slot # p.slot
        /\ \A i \in 1..Len(port) : \A j \in 1..Len(results') : port[i].of.slot # results'[j].slot
        /\ \A t \in tracked : (\E i \in 1..Len(results) : results[i].slot = t)
             => t = s \/ \E i \in 1..Len(results') : results'[i].slot = t
    <3>1. TypeOK /\ Placed /\ results # <<>> /\ results' = Tail(results) /\ s = Head(results).slot
      BY <1>7
    <3>. QED  BY ONLY <3>1, TailPlaced
  <2>4. Faithful'
    <3>1. \A p \in inflight : p.slot \in tracked' /\ p = OpOf(p.slot)'
      BY <1>1, <1>7, <2>1, <2>2 DEF Placed, Faithful
    <3>2. \A i \in 1..Len(port) :
             /\ port[i].of.slot \in tracked' /\ port[i].of = OpOf(port[i].of.slot)'
             /\ ovl'[port[i].of.slot] = IF port[i].ok THEN "OK" ELSE "ERROR"
      BY <1>1, <1>7, <2>1, <2>2 DEF Placed, Faithful
    <3>3. \A i \in 1..Len(results') :
             /\ results'[i].slot \in tracked' /\ results'[i].packet.of = OpNext(results'[i].slot)
             /\ results'[i].kind = op'[results'[i].slot] /\ results'[i].ok = results'[i].packet.ok
      BY <1>1, <2>1, <2>2, <2>3
    <3>. QED  BY <1>1, <3>1, <3>2, <3>3 DEF Faithful, OpOf, OpNext
  <2>5. Once'
    BY <1>1, <1>7, <2>3 DEF Placed, Once
  <2>6. Covered'
    <3>1. ASSUME NEW t \in tracked \ {s}
          PROVE  \/ OpOf(t)' \in inflight
                 \/ \E i \in 1..Len(port) : port[i].of.slot = t
                 \/ \E i \in 1..Len(results') : results'[i].slot = t
      BY <1>7, <2>1, <2>3 DEF Placed, Covered
    <3>. QED  BY <1>1, <3>1 DEF Covered
  <2>. QED  BY <2>4, <2>5, <2>6 DEF Placed
<1>. QED  BY <1>1, <1>5, <1>6, <1>7

LEMMA IsUnknownStep ==
    ASSUME IInv, NEW s \in Slots, s = Head(results).slot, results # <<>>,
           results' = Tail(results), UNCHANGED <<opened, port>>, IsUnknown(s)
    PROVE  IInv'
<1>. USE DEF IInv
<1>1. /\ UNCHANGED <<sock, opened, op, ovl, inflight, tracked, live_count, port, abandoned>>
      /\ ended' = "ASSERT"
  BY DEF IsUnknown
<1>2. TypeOK'
  BY <1>1, HeadAndTail DEF TypeOK
<1>3. Counted'
  BY <1>1 DEF Counted
<1>4. ~Placed
  BY HeadIsAlone DEF IsUnknown
<1>. QED  BY <1>1, <1>2, <1>3, <1>4

LEMMA TakeResultStep ==
    ASSUME IInv, TakeResult
    PROVE  IInv'
<1>. DEFINE s == Head(results).slot
<1>1. /\ results # <<>> /\ s \in Slots /\ results' = Tail(results)
      /\ UNCHANGED <<opened, port>>
      /\ \/ \E kind \in {"READ", "WRITE"} : GoesOn(s, kind)
         \/ IsOver(s)
         \/ IsUnknown(s)
  BY TakeResultWays DEF IInv
<1>. QED  BY <1>1, GoesOnStep, IsOverStep, IsUnknownStep

-----------------------------------------------------------------------------
(* The sweep and the kernel.                                                 *)

\* Between two batches each connection's operation is outstanding, so a
\* deadline abandons one.
LEMMA TimeOutAbandons ==
    ASSUME IInv, NEW s \in Slots, TimeOut(s)
    PROVE  abandoned' = TRUE
<1>1. results = <<>> /\ s \in tracked /\ abandoned' = (abandoned \/ Outstanding(s))
  BY DEF TimeOut, Release
<1>2. ASSUME ~abandoned PROVE Outstanding(s)
  <2>1. OpOf(s) \in inflight \/ \E i \in 1..Len(port) : port[i].of.slot = s
    BY <1>1, <1>2 DEF IInv, Placed, Covered
  <2>2. OpOf(s).slot = s /\ DOMAIN port = 1..Len(port)
    BY DEF OpOf, IInv, TypeOK
  <2>. QED  BY <2>1, <2>2 DEF Outstanding
<1>3. abandoned \in BOOLEAN
  BY DEF IInv, TypeOK
<1>. QED  BY <1>1, <1>2, <1>3

LEMMA TimeOutStep ==
    ASSUME IInv, NEW s \in Slots, TimeOut(s)
    PROVE  IInv'
<1>. USE DEF IInv
<1>1. /\ UNCHANGED <<sock, opened, op, ovl, inflight, port, results, ended>> /\ s \in tracked
      /\ tracked' = tracked \ {s} /\ live_count' = live_count - 1
  BY DEF TimeOut, Release, opVars
<1>2. abandoned' = TRUE
  BY TimeOutAbandons
<1>3. live_count' = Cardinality(tracked') /\ live_count' \in 0..MaxConnections
  <2>1. live_count' = Cardinality(tracked')
    BY <1>1, ConnectionsChange DEF Counted
  <2>2. live_count \in 0..MaxConnections /\ live_count # 0 /\ MaxConnections \in Nat
    BY <1>1, ConnectionsChange, IocpAssumption DEF Counted, TypeOK
  <2>. QED  BY <1>1, <2>1, <2>2
<1>4. TypeOK'
  BY <1>1, <1>2, <1>3 DEF TypeOK
<1>5. Counted'
  BY <1>1, <1>3 DEF Counted
<1>. QED  BY <1>2, <1>4, <1>5

LEMMA KernelStep ==
    ASSUME IInv, NEW o \in inflight, NEW ok \in BOOLEAN, KernelCompletes(o, ok)
    PROVE  IInv'
<1>. USE DEF IInv
<1>. DEFINE packet == [of |-> o, ok |-> ok]
<1>1. /\ UNCHANGED <<tracked, sock, opened, op, live_count, results, abandoned, ended>>
      /\ inflight' = inflight \ {o}
      /\ ovl' = [ovl EXCEPT ![o.slot] = IF ok THEN "OK" ELSE "ERROR"]
      /\ port' = Append(port, packet)
  BY DEF KernelCompletes
<1>2. o \in Operations /\ o.slot \in Slots /\ packet \in Packets /\ port \in Seq(Packets)
  BY PortHolds DEF TypeOK, Packets
<1>3. packet.of = o /\ packet.ok = ok
  OBVIOUS
<1>. HIDE DEF packet
<1>4. /\ port' \in Seq(Packets) /\ Len(port') = Len(port) + 1 /\ Len(port) \in Nat
      /\ port'[Len(port) + 1] = packet
      /\ \A i \in 1..Len(port) : port'[i] = port[i]
  BY <1>1, <1>2
<1>5. \A i \in 1..Len(port') : i \in 1..Len(port) \/ i = Len(port) + 1
  BY <1>4
<1>6. /\ ovl' \in [Slots -> {"CLEAR", "PENDING", "OK", "ERROR"}]
      /\ ovl'[o.slot] = (IF ok THEN "OK" ELSE "ERROR")
      /\ \A t \in Slots \ {o.slot} : ovl'[t] = ovl[t]
  BY <1>1, <1>2 DEF TypeOK
<1>7. TypeOK'
  BY <1>1, <1>4, <1>6 DEF TypeOK
<1>8. Counted'
  BY <1>1, <1>3, <1>4, <1>5 DEF Counted
<1>9. ASSUME Placed PROVE Placed'
  <2>1. \A t : OpOf(t)' = OpOf(t)
    BY <1>1 DEF OpOf
  <2>2. o.slot \in tracked /\ o = OpOf(o.slot)
    BY <1>9 DEF Placed, Faithful
  <2>3. \A i \in 1..Len(port) : port[i].of.slot # o.slot /\ port[i].of.slot \in Slots
    BY <1>9, PortHolds DEF Placed, Once
  <2>4. \A p \in inflight' : p \in inflight /\ p.slot # o.slot
    BY <1>1, <1>9, <2>2 DEF Placed, Faithful
  <2>5. Faithful'
    <3>1. \A p \in inflight' : p.slot \in tracked' /\ p = OpOf(p.slot)'
      BY <1>1, <1>9, <2>1, <2>4 DEF Placed, Faithful
    <3>2. \A i \in 1..Len(port) :
             /\ port'[i].of.slot \in tracked' /\ port'[i].of = OpOf(port[i].of.slot)
             /\ ovl'[port'[i].of.slot] = IF port'[i].ok THEN "OK" ELSE "ERROR"
      BY <1>1, <1>4, <1>6, <1>9, <2>3 DEF Placed, Faithful
    <3>3. \A i \in 1..Len(port') :
             /\ port'[i].of.slot \in tracked' /\ port'[i].of = OpNext(port'[i].of.slot)
             /\ ovl'[port'[i].of.slot] = IF port'[i].ok THEN "OK" ELSE "ERROR"
      <4>1. \A t : OpNext(t) = OpOf(t)
        BY <1>1 DEF OpOf, OpNext
      <4>2. ASSUME NEW i \in 1..Len(port)
            PROVE  port'[i].of = OpNext(port'[i].of.slot)
        BY <1>4, <3>2, <4>1
      <4>3. ASSUME NEW i, i = Len(port) + 1
            PROVE  /\ port'[i].of.slot \in tracked' /\ port'[i].of = OpNext(port'[i].of.slot)
                   /\ ovl'[port'[i].of.slot] = IF port'[i].ok THEN "OK" ELSE "ERROR"
        BY <1>1, <1>3, <1>4, <1>6, <2>2, <4>1, <4>3
      <4>. QED  BY <1>5, <3>2, <4>2, <4>3
    <3>4. \A i \in 1..Len(results) :
             /\ results[i].slot \in tracked' /\ results[i].packet.of = OpOf(results[i].slot)'
             /\ results[i].kind = op'[results[i].slot] /\ results[i].ok = results[i].packet.ok
      BY <1>1, <1>9, <2>1 DEF Placed, Faithful
    <3>. QED  BY <1>1, <3>1, <3>3, <3>4 DEF Faithful, OpOf, OpNext
  <2>6. Once'
    <3>1. ASSUME NEW i \in 1..Len(port'), NEW j \in 1..Len(port'),
                 port'[i].of.slot = port'[j].of.slot
          PROVE  i = j
      BY <1>3, <1>4, <1>5, <1>9, <2>3, <3>1 DEF Placed, Once
    <3>2. \A p \in inflight' :
             /\ \A i \in 1..Len(port') : port'[i].of.slot # p.slot
             /\ \A i \in 1..Len(results) : results[i].slot # p.slot
      BY <1>3, <1>4, <1>5, <1>9, <2>4 DEF Placed, Once
    <3>3. \A i \in 1..Len(port') : \A j \in 1..Len(results) : port'[i].of.slot # results[j].slot
      BY <1>3, <1>4, <1>5, <1>9 DEF Placed, Once
    <3>. QED  BY <1>1, <1>9, <3>1, <3>2, <3>3 DEF Placed, Once
  <2>7. Covered'
    <3>1. ASSUME NEW t \in tracked
          PROVE  \/ OpOf(t) \in inflight'
                 \/ \E i \in 1..Len(port') : port'[i].of.slot = t
                 \/ \E i \in 1..Len(results) : results[i].slot = t
      <4>1. CASE OpOf(t) = o
        <5>1. Len(port) + 1 \in 1..Len(port') /\ port'[Len(port) + 1].of.slot = t
          BY <1>3, <1>4, <4>1 DEF OpOf
        <5>. QED  BY <5>1
      <4>2. CASE OpOf(t) # o
        <5>1. \A i \in 1..Len(port) : i \in 1..Len(port') /\ port'[i] = port[i]
          BY <1>4
        <5>. QED  BY <1>1, <1>9, <4>2, <5>1 DEF Placed, Covered
      <4>. QED  BY <4>1, <4>2
    <3>. QED  BY <1>1, <2>1, <3>1 DEF Covered
  <2>. QED  BY <2>5, <2>6, <2>7 DEF Placed
<1>. QED  BY <1>1, <1>7, <1>8, <1>9

-----------------------------------------------------------------------------
(* poll(), which moves the oldest packets from the port into the batch.      *)

\* How many it dequeues.
Dequeued == IF Len(port) < Request THEN Len(port) ELSE Request

LEMMA PollMoves ==
    ASSUME TypeOK, Poll
    PROVE  /\ results = <<>> /\ UNCHANGED <<tracked, sock, opened, op, ovl, inflight>>
           /\ UNCHANGED <<live_count, abandoned, ended>>
           /\ Dequeued \in 1..Len(port) /\ Dequeued <= MaxOut /\ Len(port) \in Nat
           /\ \E ok \in [1..Dequeued -> BOOLEAN] :
                 /\ \A i \in 1..Dequeued : ok[i] \in Verdicts(port[i].of.slot)
                 /\ results' = [i \in 1..Dequeued |-> ResultOf(port[i], ok[i])]
           /\ Len(results') = Dequeued /\ Len(port') = Len(port) - Dequeued
           /\ port' \in Seq(Packets)
           /\ \A i \in 1..(Len(port) - Dequeued) : port'[i] = port[i + Dequeued]
<1>1. /\ Request \in Nat \ {0} /\ Request <= MaxOut
  BY IocpAssumption DEF Request
<1>2. port \in Seq(Packets) /\ port # <<>> /\ Len(port) \in Nat \ {0}
  BY DEF TypeOK, Poll
<1>3. Dequeued \in 1..Len(port) /\ Dequeued <= MaxOut
  BY <1>1, <1>2, IocpAssumption DEF Dequeued
<1>4. /\ results = <<>> /\ port' = SubSeq(port, Dequeued + 1, Len(port))
      /\ \E ok \in [1..Dequeued -> BOOLEAN] :
            /\ \A i \in 1..Dequeued : ok[i] \in Verdicts(port[i].of.slot)
            /\ results' = [i \in 1..Dequeued |-> ResultOf(port[i], ok[i])]
      /\ UNCHANGED <<tracked, sock, opened, op, ovl, inflight>>
      /\ UNCHANGED <<live_count, abandoned, ended>>
  BY DEF Poll, Dequeued, opVars
<1>. HIDE DEF Dequeued
<1>5. /\ port' \in Seq(Packets) /\ Len(port') = Len(port) - Dequeued
      /\ \A i \in 1..(Len(port) - Dequeued) : port'[i] = port[i + Dequeued]
  BY <1>2, <1>3, <1>4
<1>6. Len(results') = Dequeued
  BY <1>3, <1>4
<1>. QED  BY <1>2, <1>3, <1>4, <1>5, <1>6

LEMMA PollStep ==
    ASSUME IInv, Poll
    PROVE  IInv'
<1>. USE DEF IInv
<1>1. /\ results = <<>> /\ UNCHANGED <<tracked, sock, opened, op, ovl, inflight>>
      /\ UNCHANGED <<live_count, abandoned, ended>>
      /\ Dequeued \in 1..Len(port) /\ Len(port) \in Nat
      /\ Len(results') = Dequeued /\ Len(port') = Len(port) - Dequeued
      /\ port' \in Seq(Packets)
      /\ \A i \in 1..(Len(port) - Dequeued) : port'[i] = port[i + Dequeued]
  BY PollMoves
<1>2. PICK ok \in [1..Dequeued -> BOOLEAN] :
            /\ \A i \in 1..Dequeued : ok[i] \in Verdicts(port[i].of.slot)
            /\ results' = [i \in 1..Dequeued |-> ResultOf(port[i], ok[i])]
  BY PollMoves
<1>. HIDE DEF Dequeued
<1>3. \A i \in 1..Dequeued : i \in 1..Len(port)
  BY <1>1
<1>4. \A i \in 1..Len(port') : i + Dequeued \in 1..Len(port) /\ port'[i] = port[i + Dequeued]
  BY <1>1
<1>5. \A i \in 1..Len(results') :
         /\ i \in 1..Dequeued /\ ok[i] \in BOOLEAN
         /\ results'[i].slot = port[i].of.slot /\ results'[i].kind = op[port[i].of.slot]
         /\ results'[i].ok = ok[i] /\ results'[i].packet = port[i]
  BY <1>1, <1>2 DEF ResultOf
<1>6. \A i \in 1..Dequeued : ResultOf(port[i], ok[i]) \in Results
  <2>1. \A i \in 1..Dequeued :
          /\ port[i] \in Packets /\ port[i].of.slot \in Slots /\ ok[i] \in BOOLEAN
          /\ op[port[i].of.slot] \in Kinds \cup {"NONE"}
    BY <1>2, <1>3, PortHolds DEF TypeOK
  <2>. QED  BY <2>1 DEF ResultOf, Results
<1>7. TypeOK'
  <2>1. results' \in Seq(Results)
    <3>1. results' \in [1..Dequeued -> Results] /\ Dequeued \in Nat
      BY <1>1, <1>2, <1>6
    <3>. QED  BY <3>1, SeqDef
  <2>. QED  BY <1>1, <2>1 DEF TypeOK
<1>8. Counted'
  BY <1>1, <1>4 DEF Counted
<1>9. ASSUME Placed PROVE Placed'
  <2>1. \A t : OpOf(t)' = OpOf(t) /\ OpNext(t) = OpOf(t)
    BY <1>1 DEF OpOf, OpNext
  <2>2. Faithful'
    <3>1. \A i \in 1..Len(port') :
             /\ port'[i].of.slot \in tracked /\ port'[i].of = OpOf(port'[i].of.slot)
             /\ ovl[port'[i].of.slot] = IF port'[i].ok THEN "OK" ELSE "ERROR"
      BY <1>4, <1>9 DEF Placed, Faithful
    <3>2. \A i \in 1..Dequeued : ok[i] = port[i].ok
      <4>1. \A i \in 1..Dequeued :
               /\ port[i].of.slot \in tracked /\ port[i].ok \in BOOLEAN
               /\ ovl[port[i].of.slot] = IF port[i].ok THEN "OK" ELSE "ERROR"
        BY <1>3, <1>9, PortHolds DEF Placed, Faithful, Packets
      <4>2. \A i \in 1..Dequeued : op[port[i].of.slot] # "NONE"
        BY <4>1 DEF Counted
      <4>. QED  BY <1>2, <4>1, <4>2 DEF Verdicts
    <3>3. \A i \in 1..Len(results') :
             /\ results'[i].slot \in tracked /\ results'[i].packet.of = OpOf(results'[i].slot)
             /\ results'[i].kind = op[results'[i].slot] /\ results'[i].ok = results'[i].packet.ok
      BY <1>3, <1>5, <1>9, <3>2 DEF Placed, Faithful
    <3>. QED  BY <1>1, <1>9, <2>1, <3>1, <3>3 DEF Placed, Faithful, OpOf, OpNext
  <2>3. Once'
    <3>1. ASSUME NEW i \in 1..Len(port'), NEW j \in 1..Len(port'),
                 port'[i].of.slot = port'[j].of.slot
          PROVE  i = j
      <4>1. i + Dequeued = j + Dequeued
        BY <1>4, <1>9, <3>1 DEF Placed, Once
      <4>. QED  BY <1>1, <4>1
    <3>2. ASSUME NEW i \in 1..Len(results'), NEW j \in 1..Len(results'),
                 results'[i].slot = results'[j].slot
          PROVE  i = j
      BY <1>3, <1>5, <1>9, <3>2 DEF Placed, Once
    <3>3. ASSUME NEW o \in inflight
          PROVE  /\ \A i \in 1..Len(port') : port'[i].of.slot # o.slot
                 /\ \A i \in 1..Len(results') : results'[i].slot # o.slot
      BY <1>3, <1>4, <1>5, <1>9 DEF Placed, Once
    <3>4. ASSUME NEW i \in 1..Len(port'), NEW j \in 1..Len(results'),
                 port'[i].of.slot = results'[j].slot
          PROVE  FALSE
      <4>1. i + Dequeued = j /\ j \in 1..Dequeued
        BY <1>3, <1>4, <1>5, <1>9, <3>4 DEF Placed, Once
      <4>. QED  BY <1>1, <4>1
    <3>. QED  BY <1>1, <3>1, <3>2, <3>3, <3>4 DEF Once
  <2>4. Covered'
    <3>1. ASSUME NEW i \in 1..Len(port)
          PROVE  \/ i \in 1..Len(results') /\ results'[i].slot = port[i].of.slot
                 \/ i - Dequeued \in 1..Len(port') /\ port'[i - Dequeued] = port[i]
      BY <1>1, <1>5
    <3>2. ASSUME NEW t \in tracked
          PROVE  \/ OpOf(t) \in inflight
                 \/ \E i \in 1..Len(port') : port'[i].of.slot = t
                 \/ \E i \in 1..Len(results') : results'[i].slot = t
      <4>1. OpOf(t) \in inflight \/ \E i \in 1..Len(port) : port[i].of.slot = t
        BY <1>1, <1>9 DEF Placed, Covered
      <4>. QED  BY <3>1, <4>1
    <3>. QED  BY <1>1, <2>1, <3>2 DEF Covered
  <2>. QED  BY <2>2, <2>3, <2>4 DEF Placed
<1>. QED  BY <1>1, <1>7, <1>8, <1>9

LEMMA StepInvariant ==
    ASSUME IInv, [Next]_vars
    PROVE  IInv'
<1>1. ASSUME UNCHANGED vars PROVE IInv'
  <2>1. TypeOK'
    BY <1>1 DEF IInv, vars, opVars, TypeOK
  <2>2. Counted'
    BY <1>1 DEF IInv, vars, opVars, Counted
  <2>3. Placed => Placed'
    BY <1>1 DEF vars, opVars, Placed, Faithful, Once, Covered, OpOf
  <2>4. abandoned' = abandoned
    BY <1>1 DEF vars
  <2>. QED  BY <2>1, <2>2, <2>3, <2>4 DEF IInv
<1>. QED
  BY <1>1, ConnectStep, TakeResultStep, TimeOutStep, KernelStep, PollStep DEF Next, Over

\* The invariant: as long as no operation has been abandoned, every connection
\* has exactly one operation, faithfully described by its op.
THEOREM Invariant == Spec => []IInv
<1>. QED  BY InitInvariant, StepInvariant, PTL DEF Spec

-----------------------------------------------------------------------------
(* The slots are the completions' owners.                                    *)

LEMMA OneOutcomeEach ==
    ASSUME TypeOK, Placed, NEW s \in Slots
    PROVE  OwnOutcomes(s) = IF s \in tracked THEN {OpOf(s)} ELSE {}
<1>1. DOMAIN port = 1..Len(port) /\ DOMAIN results = 1..Len(results)
  BY DEF TypeOK
<1>2. \A o \in OwnOutcomes(s) : s \in tracked /\ o = OpOf(s)
  BY <1>1 DEF OwnOutcomes, Placed, Faithful
<1>3. ASSUME s \in tracked PROVE OpOf(s) \in OwnOutcomes(s)
  <2>1. CASE OpOf(s) \in inflight
    BY <2>1 DEF OwnOutcomes, OpOf
  <2>2. ASSUME NEW i \in 1..Len(port), port[i].of.slot = s PROVE OpOf(s) \in OwnOutcomes(s)
    <3>1. port[i].of = OpOf(s) /\ i \in {j \in DOMAIN port : port[j].of.slot = s}
      BY <1>1, <2>2 DEF Placed, Faithful
    <3>. QED  BY <3>1 DEF OwnOutcomes
  <2>3. ASSUME NEW i \in 1..Len(results), results[i].slot = s PROVE OpOf(s) \in OwnOutcomes(s)
    <3>1. results[i].packet.of = OpOf(s) /\ i \in {j \in DOMAIN results : results[j].slot = s}
      BY <1>1, <2>3 DEF Placed, Faithful
    <3>. QED  BY <3>1 DEF OwnOutcomes
  <2>. QED  BY <1>3, <2>1, <2>2, <2>3 DEF Placed, Covered
<1>. QED  BY <1>2, <1>3

LEMMA InvariantImpliesCompletions == IInv => CompletionsAreTheSlots
<1> SUFFICES ASSUME IInv, ~abandoned PROVE CompletionsAreTheSlots
  BY DEF CompletionsAreTheSlots
<1>1. TypeOK /\ Placed /\ DOMAIN results = 1..Len(results)
  BY DEF IInv, TypeOK
<1>2. \A i \in DOMAIN results :
         results[i].kind = results[i].packet.of.kind /\ results[i].ok = results[i].packet.ok
  <2>1. \A s : OpOf(s).kind = op[s]
    BY DEF OpOf
  <2>2. \A i \in DOMAIN results :
           /\ results[i].packet.of = OpOf(results[i].slot)
           /\ results[i].kind = op[results[i].slot] /\ results[i].ok = results[i].packet.ok
    BY <1>1 DEF Placed, Faithful
  <2>. QED  BY <2>1, <2>2
<1>. QED  BY <1>1, <1>2, OneOutcomeEach DEF CompletionsAreTheSlots, OpOf

\* On Windows, as long as no deadline has closed a socket under its operation,
\* each connection in flight has exactly one operation, with the kernel, in the
\* port or in the batch, and a result tells which it was and how it ended.
THEOREM CompletionsInvariant == Spec => []CompletionsAreTheSlots
<1>. QED  BY Invariant, InvariantImpliesCompletions, PTL

-----------------------------------------------------------------------------
(* The contract of smtp_reactor.h.                                           *)

LEMMA Mapped ==
    ASSUME TypeOK, TypeOK'
    PROVE  /\ \A t : t \in Pending <=> \/ \E o \in inflight : o.slot = t
                                      \/ \E i \in 1..Len(port) : port[i].of.slot = t
           /\ \A t : t \in Pending' <=> \/ \E o \in inflight' : o.slot = t
                                       \/ \E i \in 1..Len(port') : port'[i].of.slot = t
           /\ \A t : t \in Batch <=> \E i \in 1..Len(results) : results[i].slot = t
           /\ \A t : t \in Batch' <=> \E i \in 1..Len(results') : results'[i].slot = t
<1>1. /\ DOMAIN port = 1..Len(port) /\ DOMAIN results = 1..Len(results)
      /\ DOMAIN port' = 1..Len(port') /\ DOMAIN results' = 1..Len(results')
  BY DEF TypeOK
<1>. QED  BY <1>1 DEF Pending, Batch

LEMMA RefineConnect ==
    ASSUME IInv, NEW s \in Slots, SubmitConnect(s)
    PROVE  Contract!Connect(s) \/ UNCHANGED <<tracked, Pending, Batch>>
<1>1. s \notin tracked /\ UNCHANGED <<port, results>>
  BY DEF SubmitConnect
<1>2. Batch' = Batch
  BY <1>1 DEF Batch
<1>3. HasRoom => Contract!Cardinality(tracked) < MaxConnections
  <2>1. Contract!Cardinality(tracked) = Cardinality(tracked)
    BY DEF Contract!Cardinality, Cardinality
  <2>. QED  BY <2>1 DEF IInv, Counted, HasRoom
<1>4. CASE UNCHANGED <<inflight, tracked>>
  BY <1>1, <1>2, <1>4 DEF Pending
<1>5. CASE HasRoom /\ Accepted(s, opened + 1, "CONNECT") /\ tracked' = tracked \cup {s}
  <2>1. Pending' = Pending \cup {s}
    <3>. DEFINE o == [slot |-> s, sock |-> opened + 1, kind |-> "CONNECT"]
    <3>1. inflight' = inflight \cup {o} /\ o.slot = s
      BY <1>5 DEF Accepted
    <3>. HIDE DEF o
    <3>. QED  BY <1>1, <3>1 DEF Pending
  <2>. QED  BY <1>1, <1>2, <1>3, <1>5, <2>1 DEF Contract!Connect
<1>. QED  BY <1>4, <1>5 DEF SubmitConnect, Wiped, Refused

\* A result that is taken leaves the batch, and no other is there.
LEMMA BatchShrinks ==
    ASSUME TypeOK, TypeOK', Placed, results # <<>>, results' = Tail(results)
    PROVE  /\ Head(results).slot \in Batch /\ Batch' = Batch \ {Head(results).slot}
           /\ Head(results).slot \notin Pending
<1>. DEFINE s == Head(results).slot
<1>1. s = results[1].slot /\ 1 \in 1..Len(results)
  BY HeadAndTail
<1>2. /\ \A o \in inflight : o.slot # s
      /\ \A i \in 1..Len(port) : port[i].of.slot # s
      /\ \A i \in 1..Len(results') : results'[i].slot # s
      /\ \A i \in 1..Len(results') :
            i + 1 \in 1..Len(results) /\ results'[i] = results[i + 1]
      /\ \A i \in 1..Len(results) :
            i = 1 \/ (i - 1 \in 1..Len(results') /\ results'[i - 1] = results[i])
  BY HeadIsAlone, HeadAndTail
<1>. HIDE DEF s
<1>3. s \in Batch /\ s \notin Batch' /\ s \notin Pending
  BY <1>1, <1>2, Mapped
<1>4. \A t : t \in Batch' => t \in Batch
  BY <1>2, Mapped
<1>5. ASSUME NEW t \in Batch, t # s PROVE t \in Batch'
  <2>1. PICK i \in 1..Len(results) : results[i].slot = t
    BY Mapped
  <2>2. i - 1 \in 1..Len(results') /\ results'[i - 1] = results[i]
    BY <1>1, <1>2, <1>5, <2>1
  <2>. QED  BY <2>1, <2>2, Mapped
<1>. QED  BY <1>3, <1>4, <1>5 DEF s

LEMMA RefineTakeResult ==
    ASSUME IInv, IInv', ~abandoned, TakeResult
    PROVE  \E s \in Slots : Contract!Resubmit(s) \/ Contract!Forget(s)
<1>. DEFINE s == Head(results).slot
<1>1. /\ results # <<>> /\ s \in Slots /\ results' = Tail(results) /\ port' = port
      /\ \/ \E kind \in {"READ", "WRITE"} : GoesOn(s, kind)
         \/ IsOver(s)
         \/ IsUnknown(s)
  BY TakeResultWays DEF IInv
<1>2. s \in Batch /\ Batch' = Batch \ {s} /\ s \notin Pending /\ s \in tracked
  BY <1>1, BatchShrinks, HeadIsAlone DEF IInv
<1>. HIDE DEF s
<1>3. ASSUME NEW kind, GoesOn(s, kind) PROVE Contract!Resubmit(s)
  <2>. DEFINE o == [slot |-> s, sock |-> sock[s], kind |-> kind]
  <2>1. inflight' = inflight \cup {o} /\ o.slot = s /\ tracked' = tracked
    BY <1>3 DEF GoesOn, Accepted
  <2>. HIDE DEF o
  <2>2. Pending' = Pending \cup {s}
    BY <1>1, <2>1 DEF Pending
  <2>. QED  BY <1>2, <2>1, <2>2 DEF Contract!Resubmit
<1>4. CASE IsOver(s)
  <2>1. inflight' = inflight /\ tracked' = tracked \ {s}
    BY <1>4 DEF IsOver, Release, Refused
  <2>2. Pending' = Pending
    BY <1>1, <2>1 DEF Pending
  <2>. QED  BY <1>1, <1>2, <2>1, <2>2 DEF Contract!Forget
<1>5. ~IsUnknown(s)
  BY <1>2 DEF IsUnknown
<1>. QED  BY <1>1, <1>3, <1>4, <1>5

\* A completion only moves an operation from the kernel to the port.
LEMMA RefineKernel ==
    ASSUME IInv, IInv', NEW o \in inflight, NEW ok \in BOOLEAN, KernelCompletes(o, ok)
    PROVE  UNCHANGED <<tracked, Pending, Batch>>
<1>. DEFINE packet == [of |-> o, ok |-> ok]
<1>1. /\ UNCHANGED <<tracked, results>> /\ inflight' = inflight \ {o}
      /\ port' = Append(port, packet) /\ packet.of = o
  BY DEF KernelCompletes
<1>2. packet \in Packets /\ port \in Seq(Packets)
  BY PortHolds DEF IInv, TypeOK, Packets
<1>. HIDE DEF packet
<1>3. /\ Len(port') = Len(port) + 1 /\ Len(port) \in Nat
      /\ port'[Len(port) + 1] = packet
      /\ \A i \in 1..Len(port) : port'[i] = port[i]
  BY <1>1, <1>2
<1>4. \A i \in 1..Len(port') : i \in 1..Len(port) \/ i = Len(port) + 1
  BY <1>3
<1>5. \A i \in 1..Len(port) : i \in 1..Len(port')
  BY <1>3
<1>6. Len(port) + 1 \in 1..Len(port')
  BY <1>3
<1>7. ASSUME NEW t \in Pending PROVE t \in Pending'
  <2>1. (\E p \in inflight : p.slot = t) \/ \E i \in 1..Len(port) : port[i].of.slot = t
    BY Mapped DEF IInv
  <2>2. (\E p \in inflight' : p.slot = t) \/ \E i \in 1..Len(port') : port'[i].of.slot = t
    BY <1>1, <1>3, <1>5, <1>6, <2>1
  <2>. QED  BY <2>2, Mapped DEF IInv
<1>8. ASSUME NEW t \in Pending' PROVE t \in Pending
  <2>1. (\E p \in inflight' : p.slot = t) \/ \E i \in 1..Len(port') : port'[i].of.slot = t
    BY Mapped DEF IInv
  <2>2. (\E p \in inflight : p.slot = t) \/ \E i \in 1..Len(port) : port[i].of.slot = t
    BY <1>1, <1>3, <1>4, <2>1
  <2>. QED  BY <2>2, Mapped DEF IInv
<1>. QED  BY <1>1, <1>7, <1>8 DEF Batch

LEMMA RefinePoll ==
    ASSUME IInv, IInv', ~abandoned, Poll
    PROVE  Batch' \in SUBSET Pending /\ Contract!Report(Batch')
<1>1. /\ results = <<>> /\ UNCHANGED <<tracked, inflight>> /\ abandoned' = abandoned
      /\ Dequeued \in 1..Len(port) /\ Dequeued <= MaxOut /\ Len(port) \in Nat
      /\ Len(results') = Dequeued /\ Len(port') = Len(port) - Dequeued
      /\ \A i \in 1..(Len(port) - Dequeued) : port'[i] = port[i + Dequeued]
  BY PollMoves DEF IInv
<1>2. PICK ok \in [1..Dequeued -> BOOLEAN] :
            results' = [i \in 1..Dequeued |-> ResultOf(port[i], ok[i])]
  BY PollMoves DEF IInv
<1>. HIDE DEF Dequeued
<1>3. \A i \in 1..Dequeued : i \in 1..Len(port) /\ results'[i].slot = port[i].of.slot
  BY <1>1, <1>2 DEF ResultOf
<1>4. Batch = {}
  BY <1>1 DEF Batch
<1>5. \A t : t \in Batch' <=> \E i \in 1..Dequeued : port[i].of.slot = t
  <2>1. \A t : t \in Batch' <=> \E i \in 1..Len(results') : results'[i].slot = t
    BY Mapped DEF IInv
  <2>2. Len(results') = Dequeued
    BY <1>1
  <2>3. \A t : t \in Batch' <=> \E i \in 1..Dequeued : results'[i].slot = t
    BY <2>1, <2>2, Zenon
  <2>4. ASSUME NEW t PROVE t \in Batch' <=> \E i \in 1..Dequeued : port[i].of.slot = t
    BY <1>3, <2>3, Zenon
  <2>. QED  BY <2>4
<1>6. Placed /\ Placed'
  BY <1>1 DEF IInv
<1>7. Batch' \subseteq Pending
  BY <1>3, <1>5, Mapped DEF IInv
<1>8. ASSUME NEW t \in Pending, t \notin Batch' PROVE t \in Pending'
  <2>1. \A i \in 1..Len(port) :
          i \in 1..Dequeued \/ (i - Dequeued \in 1..Len(port') /\ port'[i - Dequeued] = port[i])
    BY <1>1
  <2>2. (\E p \in inflight : p.slot = t) \/ \E i \in 1..Len(port) : port[i].of.slot = t
    BY Mapped DEF IInv
  <2>3. (\E p \in inflight' : p.slot = t) \/ \E i \in 1..Len(port') : port'[i].of.slot = t
    BY <1>1, <1>5, <1>8, <2>1, <2>2
  <2>. QED  BY <2>3, Mapped DEF IInv
<1>9. ASSUME NEW t \in Pending' PROVE t \in Pending /\ t \notin Batch'
  <2>1. \A i \in 1..Len(port') : i + Dequeued \in 1..Len(port) /\ port'[i] = port[i + Dequeued]
    BY <1>1
  <2>2. (\E p \in inflight' : p.slot = t) \/ \E i \in 1..Len(port') : port'[i].of.slot = t
    BY Mapped DEF IInv
  <2>3. (\E p \in inflight : p.slot = t) \/ \E i \in 1..Len(port) : port[i].of.slot = t
    BY <1>1, <2>1, <2>2
  <2>4. t \in Pending
    BY <2>3, Mapped DEF IInv
  <2>5. \A i \in 1..Len(results') : results'[i].slot # t
    BY <1>6, <2>2 DEF Placed, Once
  <2>. QED  BY <2>4, <2>5, Mapped DEF IInv
<1>10. Contract!Cardinality(Batch') <= MaxOut
  <2>. DEFINE f == [i \in 1..Dequeued |-> port[i].of.slot]
  <2>1. f \in Surjection(1..Dequeued, Batch')
    BY <1>5 DEF Surjection
  <2>2. IsFiniteSet(1..Dequeued) /\ Cardinality(1..Dequeued) = Dequeued
    BY <1>1, FS_Interval
  <2>3. Cardinality(Batch') <= Dequeued /\ Cardinality(Batch') \in Nat
    BY <2>1, <2>2, FS_Surjection, FS_CardinalityType
  <2>4. Contract!Cardinality(Batch') = Cardinality(Batch')
    BY DEF Contract!Cardinality, Cardinality
  <2>. QED  BY <1>1, <2>3, <2>4, IocpAssumption
<1>. QED  BY <1>1, <1>4, <1>7, <1>8, <1>9, <1>10 DEF Contract!Report

LEMMA RefineStep ==
    IInv /\ IInv' /\ [Next]_vars => [abandoned' \/ Contract!Next]_(Contract!rvars)
<1>. SUFFICES ASSUME IInv, IInv', [Next]_vars, ~abandoned'
              PROVE  Contract!Next \/ UNCHANGED <<tracked, Pending, Batch>>
  BY DEF Contract!rvars
<1>1. ASSUME NEW s \in Slots, SubmitConnect(s)
      PROVE  Contract!Next \/ UNCHANGED <<tracked, Pending, Batch>>
  BY <1>1, RefineConnect DEF Contract!Next
<1>2. CASE TakeResult
  <2>1. ~abandoned
    BY <1>2, TakeResultWays DEF IInv, GoesOn, IsOver, IsUnknown, Release
  <2>. QED  BY <1>2, <2>1, RefineTakeResult DEF Contract!Next
<1>3. ASSUME NEW s \in Slots, TimeOut(s) PROVE FALSE
  BY <1>3, TimeOutAbandons
<1>4. ASSUME NEW o \in inflight, NEW ok \in BOOLEAN, KernelCompletes(o, ok)
      PROVE  UNCHANGED <<tracked, Pending, Batch>>
  BY <1>4, RefineKernel
<1>5. CASE Poll
  <2>1. ~abandoned
    BY <1>5 DEF Poll
  <2>. QED  BY <1>5, <2>1, RefinePoll DEF Contract!Next
<1>6. CASE UNCHANGED vars
  BY <1>6 DEF vars, Pending, Batch
<1>. QED  BY <1>1, <1>2, <1>3, <1>4, <1>5, <1>6 DEF Next, Over

\* The completion backend keeps the contract of smtp_reactor.h, for every number
\* of slots and sockets, capacity and array size, until an operation is
\* abandoned: each step before that is a step of the contract or changes nothing
\* it speaks of.
THEOREM Refinement == Spec => KeepsContractUntilAbandoned
<1>1. Init => Contract!Init
  BY DEF Init, Contract!Init, Pending, Batch
<1>2. IInv /\ IInv' /\ [Next]_vars => [abandoned' \/ Contract!Next]_(Contract!rvars)
  BY RefineStep
<1>. QED  BY <1>1, <1>2, Invariant, PTL DEF Spec, KeepsContractUntilAbandoned

=============================================================================
