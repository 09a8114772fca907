------------------------ MODULE SmtpConnectionProofs ------------------------
(***************************************************************************)
(* Theorems about SmtpConnection, for every buffer size, engine capacity    *)
(* and timeout: its types, the phase facts every handler takes for granted, *)
(* the safety properties, each on what precedes it, and that it implements  *)
(* ConnectionContract.                                                      *)
(***************************************************************************)
EXTENDS SmtpConnectionRefinement, TLAPS

-----------------------------------------------------------------------------
(* Type correctness.                                                         *)

\* A reply handler adds at most the room left, so read_len stays in bounds.
LEMMA DeliveredFits ==
    ASSUME TypeOK, NEW n, Delivered(n)
    PROVE  /\ n \in Nat /\ n <= ReadBufSize - read_len
           /\ pending' \in 0..EngineCapacity
           /\ eof_seen' \in BOOLEAN
<1>1. n \in Nat /\ n <= ReadBufSize - read_len
  BY ConnAssumption DEF TypeOK, Delivered
<1>2. CASE UNCHANGED pending /\ eof_seen' = (n = 0)
  BY <1>1, <1>2 DEF TypeOK
<1>3. ASSUME NEW k \in 0..MaxRecordsPerRead, NEW eof \in BOOLEAN, RawRead(k, eof),
             FeedFits(k), pending + k > 0,
             \/ pending' = pending + k - 1
             \/ pending' = pending + k /\ n = ReadBufSize - read_len
      PROVE  pending' \in 0..EngineCapacity /\ eof_seen' \in BOOLEAN
  BY <1>3, ConnAssumption DEF TypeOK, RawRead, FeedFits
<1> QED
  BY <1>1, <1>2, <1>3 DEF Delivered

LEMMA AppendFits ==
    ASSUME TypeOK, NEW n \in Nat, n <= ReadBufSize - read_len, AppendToReadBuf(n)
    PROVE  read_len' \in 0..ReadBufSize /\ buf_from' \subseteq Channels
  BY ConnAssumption DEF TypeOK, AppendToReadBuf, Channel, Channels

LEMMA DiscardFits ==
    DiscardReadBuf => read_len' \in 0..ReadBufSize /\ buf_from' \subseteq Channels
  BY ConnAssumption DEF DiscardReadBuf, Channels

LEMMA StartStepFits == TypeOK /\ StartStep => deadline_ms' \in Nat
  BY ConnAssumption DEF TypeOK, StartStep

LEMMA SubmitFits ==
    ASSUME NEW st \in States, NEW kind \in {"CONNECT", "READ", "WRITE"},
           Submit(st, kind)
    PROVE  state' \in States /\ op' \in {"NONE", "CONNECT", "READ", "WRITE"}
  BY DEF Submit, Failed, States, Terminal

LEMMA FailedFits ==
    Failed => state' \in States /\ op' \in {"NONE", "CONNECT", "READ", "WRITE"}
  BY DEF Failed, States, Terminal

LEMMA RecordFits ==
    ASSUME TypeOK, NEW e \in Exchanges, Record(e)
    PROVE  dialogue' \in Seq(Exchanges)
  BY DEF TypeOK, Record

\* What may be left in the shared buffer has its type.
LEMMA CapsFit == {NoCaps} \cup OthersCaps \subseteq Capabilities
<1>1. NoCaps \in Capabilities
  BY DEF NoCaps, Capabilities
<1>2. ASSUME NEW c \in OthersCaps PROVE c \in Capabilities
  BY <1>2 DEF OthersCaps, Capabilities
<1> QED
  BY <1>1, <1>2

LEMMA OthersFrom == \A c \in {NoCaps} \cup OthersCaps : c.from \in {"NONE", "OTHER"}
<1>1. NoCaps.from = "NONE"
  BY DEF NoCaps
<1>2. ASSUME NEW c \in OthersCaps PROVE c.from = "OTHER"
  BY <1>2 DEF OthersCaps
<1> QED
  BY <1>1, <1>2

\* The verdicts the three reply handlers share.
LEMMA SharedVerdicts ==
    ASSUME TypeOK, Running, ReplyUnusable \/ ReplyIncomplete
    PROVE  /\ state' \in States /\ op' \in {"NONE", "CONNECT", "READ", "WRITE"}
           /\ deadline_ms' \in Nat
           /\ read_len' \in 0..ReadBufSize /\ buf_from' \subseteq Channels
           /\ pending' \in 0..EngineCapacity /\ eof_seen' \in BOOLEAN
<1>1. ASSUME NEW n \in 1..ReadBufSize, Delivered(n), AppendToReadBuf(n), ReadMore(n)
      PROVE  /\ state' \in States /\ op' \in {"NONE", "CONNECT", "READ", "WRITE"}
             /\ deadline_ms' \in Nat
  BY <1>1, SubmitFits, FailedFits DEF ReadMore, TypeOK
<1>2. ASSUME NEW n \in 1..ReadBufSize, Delivered(n), AppendToReadBuf(n)
      PROVE  /\ read_len' \in 0..ReadBufSize /\ buf_from' \subseteq Channels
             /\ pending' \in 0..EngineCapacity /\ eof_seen' \in BOOLEAN
  BY <1>2, DeliveredFits, AppendFits
<1>3. CASE ReplyIncomplete
  BY <1>1, <1>2, <1>3 DEF ReplyIncomplete
<1>4. CASE ReplyUnusable
  <2>1. CASE Failed /\ op = "READ" /\ UNCHANGED <<deadline_ms, readVars, pending, eof_seen>>
    BY <2>1, FailedFits DEF TypeOK, readVars
  <2>2. CASE Failed /\ Delivered(0) /\ UNCHANGED <<deadline_ms, readVars>>
    BY <2>2, FailedFits, DeliveredFits DEF TypeOK, readVars
  <2>3. ASSUME NEW n \in 1..ReadBufSize,
               Failed, Delivered(n), AppendToReadBuf(n), UNCHANGED deadline_ms
        PROVE  /\ state' \in States /\ op' \in {"NONE", "CONNECT", "READ", "WRITE"}
               /\ deadline_ms' \in Nat
    BY <2>3, FailedFits DEF TypeOK
  <2> QED
    BY <1>2, <1>4, <2>1, <2>2, <2>3 DEF ReplyUnusable
<1> QED
  BY <1>3, <1>4

LEMMA HandshakeStartFits ==
    ASSUME TypeOK, NEW n \in Nat, n <= ReadBufSize - read_len, BeginTlsHandshake(n)
    PROVE  /\ state' \in States /\ op' \in {"NONE", "CONNECT", "READ", "WRITE"}
           /\ deadline_ms' \in Nat
           /\ read_len' \in 0..ReadBufSize /\ buf_from' \subseteq Channels
           /\ tls' \in {"NULL", "CREATED", "HANDSHAKING", "DONE"}
<1>1. CASE Failed /\ AppendToReadBuf(n) /\ UNCHANGED <<deadline_ms, tls>>
  BY <1>1, FailedFits, AppendFits DEF TypeOK
<1>2. CASE /\ tls' = "CREATED" /\ StartStep /\ DiscardReadBuf
           /\ Submit("TLS_HANDSHAKING", "WRITE")
  <2>1. "TLS_HANDSHAKING" \in States
    BY DEF States
  <2> QED
    BY <1>2, <2>1, SubmitFits, StartStepFits, DiscardFits
<1> QED
  BY <1>1, <1>2 DEF BeginTlsHandshake

\* Every variable has its type in every reachable state.
THEOREM TypeCorrect == Spec => []TypeOK
<1>1. Init => TypeOK
  <2> SUFFICES ASSUME Init PROVE TypeOK
    OBVIOUS
  <2>1. state \in States /\ dialogue \in Seq(Exchanges) /\ read_len \in 0..ReadBufSize
          /\ pending \in 0..EngineCapacity
    BY ConnAssumption DEF Init, States
  <2>2. caps \in Capabilities
    BY CapsFit DEF Init
  <2> QED
    BY <2>1, <2>2 DEF Init, TypeOK
<1>2. TypeOK /\ [Next]_vars => TypeOK'
  <2> SUFFICES ASSUME TypeOK, [Next]_vars PROVE TypeOK'
    OBVIOUS
  <2>a. {"CONNECTING", "TLS_HANDSHAKING", "WAIT_BANNER", "WAIT_EHLO",
         "WAIT_STARTTLS_REPLY", "SENDING_EHLO", "SENDING_STARTTLS", "READY",
         "TIMED_OUT"} \subseteq States
    BY DEF States, WaitStates, SendingStates, Terminal
  <2>b. {"GREETING", "EHLO", "EHLO_REPLY", "STARTTLS", "GO_AHEAD", "TLS"}
           \subseteq Exchanges
    BY DEF Exchanges
  <2>1. CASE Start
    <3>1. /\ state' \in States /\ op' \in {"NONE", "CONNECT", "READ", "WRITE"}
          /\ deadline_ms' \in Nat /\ read_len' \in 0..ReadBufSize
      BY <2>1, <2>a, SubmitFits, ConnAssumption DEF Start, TypeOK
    <3> QED
      BY <2>1, <3>1 DEF Start, TypeOK, tlsVars
  <2>2. CASE ConnectCompletion
    <3>0. UNCHANGED <<life, now, tls_mode, pending, banner_seen, caps, short_writes,
                      eof_seen, dialogue, aborted>>
      BY <2>2 DEF ConnectCompletion
    <3>1. CASE Failed /\ UNCHANGED <<deadline_ms, readVars, tls>>
      <4>1. state' \in States /\ op' \in {"NONE", "CONNECT", "READ", "WRITE"}
        BY <3>1, FailedFits
      <4> QED
        BY <3>0, <3>1, <4>1 DEF TypeOK, readVars
    <3>2. CASE BeginTlsHandshake(0)
      <4>1. 0 <= ReadBufSize - read_len
        BY ConnAssumption DEF TypeOK
      <4>2. /\ state' \in States /\ op' \in {"NONE", "CONNECT", "READ", "WRITE"}
            /\ deadline_ms' \in Nat
            /\ read_len' \in 0..ReadBufSize /\ buf_from' \subseteq Channels
            /\ tls' \in {"NULL", "CREATED", "HANDSHAKING", "DONE"}
        BY <3>2, <4>1, HandshakeStartFits
      <4> QED
        BY <3>0, <4>2 DEF TypeOK
    <3>3. CASE StartStep /\ DiscardReadBuf /\ Submit("WAIT_BANNER", "READ") /\ UNCHANGED tls
      BY <2>2, <3>3, <2>a, StartStepFits, DiscardFits, SubmitFits
         DEF ConnectCompletion, TypeOK
    <3> QED
      BY <2>2, <3>1, <3>2, <3>3 DEF ConnectCompletion
  <2>3. CASE DecryptWantRead
    BY <2>3, SubmitFits DEF DecryptWantRead, RawRead, TypeOK, timeVars, readVars, tlsVars
  <2>4. CASE DecryptError
    BY <2>4, FailedFits DEF DecryptError, RawRead, TypeOK, timeVars, readVars, tlsVars
  <2>5. CASE EhloWriteCompletion \/ StarttlsWriteCompletion
    <3>1. ASSUME NEW from, NEW to \in States, NEW exchange \in Exchanges,
                 CommandSent(from, to, exchange)
          PROVE  TypeOK'
      <4>1. CASE /\ Failed
                 /\ \E s \in {{}, {"COMMAND"}} : short_writes' = short_writes \cup s
                 /\ UNCHANGED <<readVars, dialogue>>
        BY <3>1, <4>1, FailedFits DEF CommandSent, TypeOK, timeVars, readVars, tlsVars
      <4>2. CASE /\ DiscardReadBuf /\ Submit(to, "READ") /\ Record(exchange)
                 /\ UNCHANGED short_writes
        BY <3>1, <4>2, DiscardFits, SubmitFits, RecordFits
           DEF CommandSent, TypeOK, timeVars, tlsVars
      <4> QED
        BY <3>1, <4>1, <4>2 DEF CommandSent
    <3> QED
      BY <2>5, <2>a, <2>b, <3>1 DEF EhloWriteCompletion, StarttlsWriteCompletion
  <2>6. CASE BannerRead
    <3>1. CASE (ReplyUnusable \/ ReplyIncomplete) /\ UNCHANGED <<banner_seen, dialogue, aborted>>
      BY <2>6, <3>1, SharedVerdicts DEF BannerRead, TypeOK
    <3>2. ASSUME NEW n \in 1..ReadBufSize, Delivered(n), AppendToReadBuf(n),
                 banner_seen' = TRUE, Record("GREETING"),
                 \E lines \in GreetingLines : LogDetail(lines),
                 (Failed /\ UNCHANGED deadline_ms) \/ SendEhlo
          PROVE  TypeOK'
      <4>1. /\ state' \in States /\ op' \in {"NONE", "CONNECT", "READ", "WRITE"}
            /\ deadline_ms' \in Nat
        BY <3>2, <2>a, FailedFits, SubmitFits, StartStepFits DEF SendEhlo, TypeOK
      <4> QED
        BY <2>6, <3>2, <4>1, <2>b, DeliveredFits, AppendFits, RecordFits
           DEF BannerRead, LogDetail, TypeOK
    <3> QED
      BY <2>6, <3>1, <3>2 DEF BannerRead, ReplyComplete
  <2>7. CASE EhloRead
    <3>1. CASE (ReplyUnusable \/ ReplyIncomplete) /\ UNCHANGED <<caps, dialogue, aborted>>
      BY <2>7, <3>1, SharedVerdicts DEF EhloRead, TypeOK
    <3>2. ASSUME NEW n \in 1..ReadBufSize, Delivered(n), AppendToReadBuf(n),
                 Record("EHLO_REPLY"),
                 NEW offered \in BOOLEAN, NEW code2xx \in BOOLEAN,
                 caps' = CapsFrom(offered, code2xx),
                 aborted' \in {"NO", "UNREACHABLE"},
                 IF ReadyNow(offered)
                   THEN state' = "READY" /\ op' = "NONE" /\ UNCHANGED deadline_ms
                   ELSE IF UpgradeWanted(offered)
                     THEN StartStep /\ Submit("SENDING_STARTTLS", "WRITE")
                     ELSE Failed /\ UNCHANGED deadline_ms
          PROVE  TypeOK'
      <4>1. /\ state' \in States /\ op' \in {"NONE", "CONNECT", "READ", "WRITE"}
            /\ deadline_ms' \in Nat
        BY <3>2, <2>a, FailedFits, SubmitFits, StartStepFits DEF TypeOK
      <4>2. caps' \in Capabilities
        BY <3>2 DEF CapsFrom, Capabilities, Channel, Channels
      <4> QED
        BY <2>7, <3>2, <4>1, <4>2, <2>b, DeliveredFits, AppendFits, RecordFits
           DEF EhloRead, TypeOK
    <3> QED
      BY <2>7, <3>1, <3>2 DEF EhloRead, ReplyComplete
  <2>8. CASE StarttlsReply
    <3>1. CASE (ReplyUnusable \/ ReplyIncomplete) /\ UNCHANGED <<tls, dialogue>>
      BY <2>8, <3>1, SharedVerdicts DEF StarttlsReply, TypeOK
    <3>2. ASSUME NEW n \in 1..ReadBufSize, Delivered(n), AppendToReadBuf(n),
                 Failed, UNCHANGED <<deadline_ms, tls, dialogue>>
          PROVE  TypeOK'
      BY <2>8, <3>2, DeliveredFits, AppendFits, FailedFits DEF StarttlsReply, TypeOK
    <3>3. ASSUME NEW n \in 1..ReadBufSize, Delivered(n), Record("GO_AHEAD"),
                 BeginTlsHandshake(n)
          PROVE  TypeOK'
      BY <2>8, <3>3, <2>b, DeliveredFits, HandshakeStartFits, RecordFits
         DEF StarttlsReply, TypeOK
    <3> QED
      BY <2>8, <3>1, <3>2, <3>3 DEF StarttlsReply, StarttlsReplyAccepted, ReplyComplete
  <2>9. CASE TlsHandshakeCompletion
    <3>1. HandshakeInput => short_writes' \subseteq {"COMMAND", "HANDSHAKE"}
      BY DEF HandshakeInput, TypeOK
    <3>2. CASE HandshakeDone
      <4>1. /\ state' \in States /\ op' \in {"NONE", "CONNECT", "READ", "WRITE"}
            /\ deadline_ms' \in Nat /\ caps' \in Capabilities
        <5>1. CASE AwaitEncryptedGreeting
          BY <5>1, <2>a, SubmitFits, StartStepFits DEF AwaitEncryptedGreeting, TypeOK
        <5>2. CASE RenewEhlo
          BY <5>2, <2>a, SubmitFits, FailedFits, StartStepFits
             DEF RenewEhlo, SendEhlo, NoCaps, Capabilities, TypeOK
        <5> QED
          BY <3>2, <5>1, <5>2 DEF HandshakeDone
      <4> QED
        BY <2>9, <3>1, <3>2, <4>1, <2>b, DiscardFits, RecordFits
           DEF TlsHandshakeCompletion, HandshakeDone, LogDetail, TypeOK
    <3>3. CASE HandshakeContinues
      BY <2>9, <3>1, <3>3, <2>a, SubmitFits
         DEF TlsHandshakeCompletion, HandshakeContinues, TypeOK, readVars, tlsVars
    <3>4. CASE HandshakeFailed
      BY <2>9, <3>4, FailedFits
         DEF TlsHandshakeCompletion, HandshakeFailed, TypeOK, readVars, tlsVars
    <3> QED
      BY <2>9, <3>2, <3>3, <3>4 DEF TlsHandshakeCompletion
  <2>10. CASE Tick
    BY <2>10 DEF Tick, TypeOK, readVars, tlsVars
  <2>11. CASE CheckTimeout
    BY <2>11, <2>a DEF CheckTimeout, TypeOK, timeVars, readVars, tlsVars
  <2>12. CASE Close
    BY <2>12 DEF Close, TypeOK, timeVars, readVars
  <2>13. CASE OthersUseCaps
    BY <2>13, CapsFit DEF OthersUseCaps, TypeOK, timeVars, readVars, tlsVars
  <2>14. CASE UNCHANGED vars
    BY <2>14 DEF TypeOK, vars, timeVars, readVars, tlsVars
  <2> QED
    BY <2>1, <2>2, <2>3, <2>4, <2>5, <2>6, <2>7, <2>8, <2>9, <2>10, <2>11, <2>12,
       <2>13, <2>14 DEF Next, OnIo, Finished
<1> QED
  BY <1>1, <1>2, PTL DEF Spec

-----------------------------------------------------------------------------
(* Where the attempt is, and what that implies.                              *)

\* The verdicts shared by the reply handlers fail or stay where they are.
LEMMA SharedVerdictsStay ==
    ASSUME ReplyUnusable \/ ReplyIncomplete
    PROVE  Failed \/ (state' = state /\ op' = "READ" /\ UNCHANGED deadline_ms)
  BY DEF ReplyUnusable, ReplyIncomplete, ReadMore, Submit

LEMMA HandshakeStarts ==
    ASSUME NEW n, BeginTlsHandshake(n)
    PROVE  \/ Failed /\ (UNCHANGED tls \/ tls' = "CREATED")
           \/ /\ state' = "TLS_HANDSHAKING" /\ op' \in {"READ", "WRITE"}
              /\ tls' = "CREATED" /\ StartStep /\ DiscardReadBuf
  BY DEF BeginTlsHandshake, Submit, Failed

\* An attempt's state fixes whether TLS is up, whether the greeting has been
\* read and which TLS modes can be there, as every handler assumes.
THEOREM PhaseInvariant == Spec => []PhaseAgrees
<1>1. Init => PhaseAgrees
  <2> SUFFICES ASSUME Init PROVE PhaseAgrees
    OBVIOUS
  <2>1. caps.from \in {"NONE", "OTHER"}
    BY OthersFrom DEF Init
  <2> QED
    BY <2>1 DEF Init, PhaseAgrees, Running
<1>2. TypeOK /\ PhaseAgrees /\ [Next]_vars => PhaseAgrees'
  <2> SUFFICES ASSUME TypeOK, PhaseAgrees, [Next]_vars PROVE PhaseAgrees'
    OBVIOUS
  <2> USE DEF PhaseAgrees, Running, Terminal, AfterGreeting, StarttlsStates
  <2>1. CASE Start
    BY <2>1 DEF Start, Submit, Failed, tlsVars
  <2>2. CASE ConnectCompletion
    <3>1. Failed \/ (HandshakeFirst /\ BeginTlsHandshake(0))
            \/ (~HandshakeFirst /\ Submit("WAIT_BANNER", "READ") /\ UNCHANGED tls)
      BY <2>2 DEF ConnectCompletion
    <3>2. /\ Running /\ state = "CONNECTING"
          /\ UNCHANGED <<life, now, tls_mode, banner_seen, caps, aborted>>
      BY <2>2 DEF ConnectCompletion
    <3>3. UNCHANGED tls \/ (HandshakeFirst /\ tls' = "CREATED")
      BY <2>2, HandshakeStarts DEF ConnectCompletion
    <3> QED
      BY <3>1, <3>2, <3>3, HandshakeStarts DEF HandshakeFirst, Submit, Failed
  <2>3. CASE DecryptWantRead
    BY <2>3 DEF DecryptWantRead, Submit, Failed, timeVars, readVars, tlsVars
  <2>4. CASE DecryptError
    BY <2>4 DEF DecryptError, Failed, timeVars, readVars, tlsVars
  <2>5. CASE EhloWriteCompletion
    BY <2>5 DEF EhloWriteCompletion, CommandSent, Submit, Failed, timeVars, tlsVars
  <2>6. CASE StarttlsWriteCompletion
    BY <2>6 DEF StarttlsWriteCompletion, CommandSent, Submit, Failed, timeVars, tlsVars
  <2>7. CASE BannerRead
    BY <2>7, SharedVerdictsStay DEF BannerRead, SendEhlo, Submit, Failed
  <2>8. CASE EhloRead
    BY <2>8, SharedVerdictsStay
       DEF EhloRead, UpgradeWanted, CapsFrom, Channel, Submit, Failed
  <2>9. CASE StarttlsReply
    BY <2>9, SharedVerdictsStay, HandshakeStarts
       DEF StarttlsReply, StarttlsReplyAccepted, Failed
  <2>10. CASE TlsHandshakeCompletion
    <3>1. CASE HandshakeDone
      BY <2>10, <3>1 DEF TlsHandshakeCompletion, HandshakeDone, GreetingDue,
         AwaitEncryptedGreeting, RenewEhlo, SendEhlo, NoCaps, Submit, Failed
    <3>2. CASE HandshakeContinues
      BY <2>10, <3>2 DEF TlsHandshakeCompletion, HandshakeContinues, Submit, Failed, tlsVars
    <3>3. CASE HandshakeFailed
      BY <2>10, <3>3 DEF TlsHandshakeCompletion, HandshakeFailed, Failed, tlsVars
    <3> QED
      BY <2>10, <3>1, <3>2, <3>3 DEF TlsHandshakeCompletion
  <2>11. CASE Tick
    BY <2>11 DEF Tick, tlsVars
  <2>12. CASE CheckTimeout
    BY <2>12 DEF CheckTimeout, tlsVars, timeVars
  <2>13. CASE Close
    BY <2>13 DEF Close, timeVars
  <2>14. CASE OthersUseCaps
    BY <2>14, OthersFrom DEF OthersUseCaps, tlsVars, timeVars
  <2>15. CASE UNCHANGED vars
    BY <2>15 DEF vars
  <2> QED
    BY <2>1, <2>2, <2>3, <2>4, <2>5, <2>6, <2>7, <2>8, <2>9, <2>10, <2>11, <2>12,
       <2>13, <2>14, <2>15 DEF Next, OnIo, Finished
<1> QED
  BY <1>1, <1>2, TypeCorrect, PTL DEF Spec
-----------------------------------------------------------------------------
(* The operation in flight and the room it reads into.                       *)

\* While an attempt is under way exactly one operation is in flight for it,
\* of a kind on_io() expects in its state.
THEOREM OpInvariant == Spec => []OneExpectedOpInFlight
<1>1. Init => OneExpectedOpInFlight
  BY DEF Init, OneExpectedOpInFlight, Running
<1>2. TypeOK /\ OneExpectedOpInFlight /\ [Next]_vars => OneExpectedOpInFlight'
  <2> SUFFICES ASSUME TypeOK, OneExpectedOpInFlight, [Next]_vars
               PROVE  OneExpectedOpInFlight'
    OBVIOUS
  <2> USE DEF OneExpectedOpInFlight, ExpectedOps, Running, Terminal, WaitStates,
              SendingStates
  <2>1. CASE Start
    BY <2>1 DEF Start, Submit, Failed
  <2>2. CASE ConnectCompletion
    BY <2>2, HandshakeStarts DEF ConnectCompletion, Submit, Failed
  <2>3. CASE DecryptWantRead
    BY <2>3 DEF DecryptWantRead, RawRead, Submit, Failed
  <2>4. CASE DecryptError
    BY <2>4 DEF DecryptError, Failed
  <2>5. CASE EhloWriteCompletion
    BY <2>5 DEF EhloWriteCompletion, CommandSent, Submit, Failed
  <2>6. CASE StarttlsWriteCompletion
    BY <2>6 DEF StarttlsWriteCompletion, CommandSent, Submit, Failed
  <2>7. CASE BannerRead
    BY <2>7, SharedVerdictsStay DEF BannerRead, SendEhlo, Submit, Failed
  <2>8. CASE EhloRead
    BY <2>8, SharedVerdictsStay DEF EhloRead, Submit, Failed
  <2>9. CASE StarttlsReply
    BY <2>9, SharedVerdictsStay, HandshakeStarts
       DEF StarttlsReply, StarttlsReplyAccepted, Failed
  <2>10. CASE TlsHandshakeCompletion
    <3>1. CASE HandshakeDone
      BY <2>10, <3>1 DEF HandshakeDone, AwaitEncryptedGreeting, RenewEhlo, SendEhlo,
         Submit, Failed
    <3>2. CASE HandshakeContinues
      BY <2>10, <3>2 DEF HandshakeContinues, Submit, Failed
    <3>3. CASE HandshakeFailed
      BY <2>10, <3>3 DEF HandshakeFailed, Failed
    <3> QED
      BY <2>10, <3>1, <3>2, <3>3 DEF TlsHandshakeCompletion
  <2>11. CASE Tick \/ OthersUseCaps
    BY <2>11 DEF Tick, OthersUseCaps
  <2>12. CASE CheckTimeout
    BY <2>12 DEF CheckTimeout
  <2>13. CASE Close
    BY <2>13 DEF Close
  <2>14. CASE UNCHANGED vars
    BY <2>14 DEF vars
  <2> QED
    BY <2>1, <2>2, <2>3, <2>4, <2>5, <2>6, <2>7, <2>8, <2>9, <2>10, <2>11, <2>12,
       <2>13, <2>14 DEF Next, OnIo, Finished
<1> QED
  BY <1>1, <1>2, TypeCorrect, PTL DEF Spec

-----------------------------------------------------------------------------
(* What READY promises.                                                      *)

\* Only a parsed EHLO response makes a connection READY; until it is closed
\* nothing then changes what READY was based on.
LEMMA ReadyOnlyByEhlo ==
    ASSUME TypeOK, [Next]_vars, state' = "READY", life' = "OPEN"
    PROVE  \/ EhloRead
           \/ state = "READY" /\ life = "OPEN" /\ UNCHANGED <<tls, tls_mode, caps, dialogue>>
<1> USE DEF Running, Terminal
<1>1. CASE Start
  BY <1>1 DEF Start, Submit, Failed
<1>2. CASE ConnectCompletion
  BY <1>2, HandshakeStarts DEF ConnectCompletion, Submit, Failed
<1>3. CASE DecryptWantRead
  BY <1>3 DEF DecryptWantRead, Submit, Failed
<1>4. CASE DecryptError
  BY <1>4 DEF DecryptError, Failed
<1>5. CASE EhloWriteCompletion \/ StarttlsWriteCompletion
  BY <1>5 DEF EhloWriteCompletion, StarttlsWriteCompletion, CommandSent, Submit, Failed
<1>6. CASE BannerRead
  BY <1>6, SharedVerdictsStay DEF BannerRead, SendEhlo, Submit, Failed
<1>7. CASE StarttlsReply
  BY <1>7, SharedVerdictsStay, HandshakeStarts
     DEF StarttlsReply, StarttlsReplyAccepted, Failed
<1>8. CASE TlsHandshakeCompletion
  BY <1>8 DEF TlsHandshakeCompletion, HandshakeDone, HandshakeContinues,
     HandshakeFailed, AwaitEncryptedGreeting, RenewEhlo, SendEhlo, Submit, Failed
<1>9. CASE Tick \/ OthersUseCaps \/ CheckTimeout \/ Close
  BY <1>9 DEF Tick, OthersUseCaps, CheckTimeout, Close
<1>10. CASE UNCHANGED vars
  BY <1>10 DEF vars
<1> QED
  BY <1>1, <1>2, <1>3, <1>4, <1>5, <1>6, <1>7, <1>8, <1>9, <1>10 DEF Next, OnIo, Finished

LEMMA EhloReadReady ==
    ASSUME EhloRead, state' = "READY"
    PROVE  /\ Running /\ state = "WAIT_EHLO" /\ UNCHANGED <<tls, tls_mode, life>>
           /\ Record("EHLO_REPLY")
           /\ \E offered, code2xx \in BOOLEAN :
                 ReadyNow(offered) /\ caps' = CapsFrom(offered, code2xx)
<1>1. Running /\ state = "WAIT_EHLO" /\ UNCHANGED <<tls, tls_mode, life>>
  BY DEF EhloRead
<1>2. ~(ReplyUnusable \/ ReplyIncomplete)
  BY <1>1, SharedVerdictsStay DEF Failed
<1> QED
  BY <1>1, <1>2 DEF EhloRead, Submit, Failed

\* READY connections satisfy the configured TLS mode, whatever the peer says.
THEOREM TlsModeInvariant == Spec => []TlsModeHonoured
<1>1. Init => TlsModeHonoured
  BY DEF Init, TlsModeHonoured
<1>2. TypeOK /\ PhaseAgrees /\ TlsModeHonoured /\ [Next]_vars => TlsModeHonoured'
  <2> SUFFICES ASSUME TypeOK, PhaseAgrees, TlsModeHonoured, [Next]_vars,
                      state' = "READY", life' = "OPEN"
               PROVE  /\ tls_mode' \in {"EXPLICIT", "IMPLICIT"} => tls' = "DONE"
                      /\ tls_mode' = "NONE" => tls' = "NULL"
                      /\ tls_mode' = "OPPORTUNISTIC" /\ tls' # "DONE"
                            => ~caps'.has_starttls
    BY DEF TlsModeHonoured
  <2>1. CASE state = "READY" /\ life = "OPEN" /\ UNCHANGED <<tls, tls_mode, caps, dialogue>>
    BY <2>1 DEF TlsModeHonoured
  <2>2. CASE EhloRead
    <3>1. PICK offered \in BOOLEAN, code2xx \in BOOLEAN :
             ReadyNow(offered) /\ caps' = CapsFrom(offered, code2xx)
      BY <2>2, EhloReadReady
    <3>2. caps'.has_starttls = offered
      BY <3>1 DEF CapsFrom
    <3>3. tls \in {"NULL", "DONE"} /\ (tls # "NULL" => tls_mode # "NONE")
            /\ (tls_mode = "IMPLICIT" => tls = "DONE")
      BY <2>2, EhloReadReady DEF PhaseAgrees, TypeOK, AfterGreeting
    <3> QED
      BY <2>2, <3>1, <3>2, <3>3, EhloReadReady DEF ReadyNow
  <2> QED
    BY <2>1, <2>2, ReadyOnlyByEhlo
<1> QED
  BY <1>1, <1>2, TypeCorrect, PhaseInvariant, PTL DEF Spec
-----------------------------------------------------------------------------
(* Nothing read in the clear outlives the handshake.                         *)

\* The first conjunct of NothingPlainAfterTls, for the bytes in read_buf and
\* for the capabilities.
NoPlainLeft == tls = "DONE" => buf_from \subseteq {"TLS"} /\ caps.from # "PLAIN"

LEMMA SharedVerdictsAppend ==
    ASSUME ReplyUnusable \/ ReplyIncomplete
    PROVE  UNCHANGED buf_from \/ buf_from' \subseteq buf_from \cup {Channel}
  BY DEF ReplyUnusable, ReplyIncomplete, AppendToReadBuf, readVars

LEMMA CompleteAppends ==
    ReplyComplete => buf_from' \subseteq buf_from \cup {Channel}
  BY DEF ReplyComplete, AppendToReadBuf

LEMMA NoPlainLeftKept ==
    ASSUME TypeOK, PhaseAgrees, NoPlainLeft, [Next]_vars
    PROVE  NoPlainLeft'
<1> USE DEF NoPlainLeft
<1>1. CASE Start
  BY <1>1 DEF Start, PhaseAgrees, tlsVars
<1>2. CASE ConnectCompletion
  <2>1. tls = "NULL"
    BY <1>2 DEF ConnectCompletion, PhaseAgrees
  <2>2. UNCHANGED tls \/ tls' = "CREATED"
    BY <1>2, HandshakeStarts DEF ConnectCompletion
  <2> QED
    BY <2>1, <2>2
<1>3. CASE DecryptWantRead \/ DecryptError
  BY <1>3 DEF DecryptWantRead, DecryptError, readVars, tlsVars
<1>4. CASE EhloWriteCompletion \/ StarttlsWriteCompletion
  BY <1>4 DEF EhloWriteCompletion, StarttlsWriteCompletion, CommandSent,
     DiscardReadBuf, readVars, tlsVars
<1>5. CASE BannerRead
  BY <1>5, SharedVerdictsAppend, CompleteAppends DEF BannerRead, Channel
<1>6. CASE EhloRead
  BY <1>6, SharedVerdictsAppend, CompleteAppends DEF EhloRead, CapsFrom, Channel
<1>7. CASE StarttlsReply
  <2>1. tls = "NULL"
    BY <1>7 DEF StarttlsReply, PhaseAgrees, StarttlsStates
  <2>2. UNCHANGED tls \/ tls' = "CREATED"
    BY <1>7, HandshakeStarts DEF StarttlsReply, StarttlsReplyAccepted
  <2> QED
    BY <2>1, <2>2
<1>8. CASE TlsHandshakeCompletion
  <2>1. CASE HandshakeDone
    <3>1. buf_from' = {}
      BY <2>1 DEF HandshakeDone, DiscardReadBuf
    <3>2. caps'.from # "PLAIN"
      <4>1. CASE AwaitEncryptedGreeting /\ ~banner_seen
        BY <4>1 DEF AwaitEncryptedGreeting, PhaseAgrees
      <4>2. CASE RenewEhlo
        BY <4>2 DEF RenewEhlo, NoCaps
      <4> QED
        BY <2>1, <4>1, <4>2 DEF HandshakeDone, GreetingDue
    <3> QED
      BY <3>1, <3>2
  <2>2. CASE HandshakeContinues \/ HandshakeFailed
    BY <2>2 DEF HandshakeContinues, HandshakeFailed, readVars, tlsVars
  <2> QED
    BY <1>8, <2>1, <2>2 DEF TlsHandshakeCompletion
<1>9. CASE Tick \/ CheckTimeout
  BY <1>9 DEF Tick, CheckTimeout, readVars, tlsVars
<1>10. CASE Close
  BY <1>10 DEF Close
<1>11. CASE OthersUseCaps
  BY <1>11, OthersFrom DEF OthersUseCaps, readVars, tlsVars
<1>12. CASE UNCHANGED vars
  BY <1>12 DEF vars, readVars, tlsVars
<1> QED
  BY <1>1, <1>2, <1>3, <1>4, <1>5, <1>6, <1>7, <1>8, <1>9, <1>10, <1>11, <1>12
     DEF Next, OnIo, Finished

\* After the handshake no byte and no capability read in the clear is left, and
\* a READY connection's capabilities came over its own current channel.
THEOREM NothingPlainInvariant == Spec => []NothingPlainAfterTls
<1>1. Init => NothingPlainAfterTls
  BY DEF Init, NothingPlainAfterTls
<1>2. TypeOK /\ PhaseAgrees /\ NothingPlainAfterTls /\ [Next]_vars
        => NothingPlainAfterTls'
  <2> SUFFICES ASSUME TypeOK, PhaseAgrees, NothingPlainAfterTls, [Next]_vars
               PROVE  NothingPlainAfterTls'
    OBVIOUS
  <2>1. NoPlainLeft'
    BY NoPlainLeftKept DEF NothingPlainAfterTls, NoPlainLeft
  <2>2. ASSUME state' = "READY", life' = "OPEN" PROVE caps'.from = Channel'
    <3>1. CASE state = "READY" /\ life = "OPEN" /\ UNCHANGED <<tls, tls_mode, caps, dialogue>>
      BY <3>1 DEF NothingPlainAfterTls, Channel
    <3>2. CASE EhloRead
      BY <2>2, <3>2, EhloReadReady DEF CapsFrom, Channel
    <3> QED
      BY <2>2, <3>1, <3>2, ReadyOnlyByEhlo
  <2> QED
    BY <2>1, <2>2 DEF NothingPlainAfterTls, NoPlainLeft
<1> QED
  BY <1>1, <1>2, TypeCorrect, PhaseInvariant, PTL DEF Spec

-----------------------------------------------------------------------------
(* No peer can hold a connection open.                                       *)

\* Each step of a running attempt leaves the deadline and the steps left alone,
\* or renews the one and uses up at least one of the others.
LEMMA RenewalsCost ==
    ASSUME TypeOK, PhaseAgrees, [Next]_vars, Running, life' = "OPEN", state' \notin Terminal
    PROVE  \/ /\ UNCHANGED <<deadline_ms, StepsLeft>>
              /\ UNCHANGED now \/ Tick
           \/ StartStep /\ UNCHANGED now /\ StepsLeft' <= StepsLeft - 1
<1> USE DEF Running, Terminal, StepsLeft
<1>1. CASE ConnectCompletion
  BY <1>1, HandshakeStarts DEF ConnectCompletion, Submit, Failed, PhaseAgrees
<1>2. CASE DecryptWantRead
  BY <1>2 DEF DecryptWantRead, Submit, Failed, timeVars, tlsVars
<1>3. CASE DecryptError
  BY <1>3 DEF DecryptError, Failed
<1>4. CASE EhloWriteCompletion \/ StarttlsWriteCompletion
  BY <1>4 DEF EhloWriteCompletion, StarttlsWriteCompletion, CommandSent, Submit,
     Failed, timeVars, tlsVars
<1>5. CASE BannerRead
  BY <1>5, SharedVerdictsStay DEF BannerRead, SendEhlo, Submit, Failed
<1>6. CASE EhloRead
  BY <1>6, SharedVerdictsStay DEF EhloRead, UpgradeWanted, Submit, Failed
<1>7. CASE StarttlsReply
  BY <1>7, SharedVerdictsStay, HandshakeStarts
     DEF StarttlsReply, StarttlsReplyAccepted, Failed, PhaseAgrees, StarttlsStates,
         AfterGreeting
<1>8. CASE TlsHandshakeCompletion
  <2>1. CASE HandshakeDone
    BY <1>8, <2>1 DEF TlsHandshakeCompletion, HandshakeDone, GreetingDue,
       AwaitEncryptedGreeting, RenewEhlo, SendEhlo, Submit, Failed
  <2>2. CASE HandshakeContinues
    BY <1>8, <2>2 DEF TlsHandshakeCompletion, HandshakeContinues, Submit, Failed, tlsVars
  <2>3. CASE HandshakeFailed
    BY <2>3 DEF HandshakeFailed, Failed
  <2> QED
    BY <1>8, <2>1, <2>2, <2>3 DEF TlsHandshakeCompletion
<1>9. CASE Tick \/ OthersUseCaps
  BY <1>9 DEF Tick, OthersUseCaps, timeVars, tlsVars
<1>10. CASE Start \/ CheckTimeout \/ Close
  BY <1>10 DEF Start, CheckTimeout, Close
<1>11. CASE UNCHANGED vars
  BY <1>11 DEF vars, timeVars, tlsVars
<1> QED
  BY <1>1, <1>2, <1>3, <1>4, <1>5, <1>6, <1>7, <1>8, <1>9, <1>10, <1>11
     DEF Next, OnIo, Finished

\* The clock moves only while an attempt is running.
LEMMA ClockRuns == [Next]_vars => UNCHANGED now \/ Tick
  BY DEF Next, OnIo, Start, ConnectCompletion, DecryptWantRead, DecryptError,
     EhloWriteCompletion, StarttlsWriteCompletion, CommandSent, BannerRead, EhloRead,
     StarttlsReply, TlsHandshakeCompletion, CheckTimeout, Close, OthersUseCaps,
     Finished, timeVars, vars

\* An attempt runs only because it ran before, or has just been started.
LEMMA RunningFrom ==
    ASSUME TypeOK, [Next]_vars, Running', ~Running
    PROVE  Start
<1> USE DEF Running, Terminal
<1>1. CASE OnIo
  BY <1>1 DEF OnIo, ConnectCompletion, DecryptWantRead, DecryptError,
     EhloWriteCompletion, StarttlsWriteCompletion, CommandSent, BannerRead, EhloRead,
     StarttlsReply, TlsHandshakeCompletion
<1>2. CASE Tick \/ CheckTimeout \/ Close \/ OthersUseCaps
  BY <1>2 DEF Tick, CheckTimeout, Close, OthersUseCaps
<1>3. CASE UNCHANGED vars
  BY <1>3 DEF vars
<1> QED
  BY <1>1, <1>2, <1>3 DEF Next, Finished

\* The arithmetic of one renewal: a step used up pays for the new deadline.
LEMMA RenewalPaid ==
    ASSUME NEW r1 \in 0..5, NEW r2 \in 0..5, r2 <= r1,
           NEW s \in Nat, NEW w \in Nat
    PROVE  /\ r2 * (s + w) <= r1 * (s + w)
           /\ r2 <= r1 - 1 => (s + w) + r2 * (s + w) <= r1 * (s + w)
           /\ r1 * (s + w) \in Nat /\ r2 * (s + w) \in Nat
<1>1. r1 \in {0, 1, 2, 3, 4, 5} /\ r2 \in {0, 1, 2, 3, 4, 5}
  OBVIOUS
<1> QED
  BY <1>1

\* An attempt's whole life is bounded by the sum of its step timeouts plus the
\* sweep's delay for each, whatever the peer sends and however it splits it.
THEOREM LifetimeInvariant == Spec => [](DeadlineBudget /\ BoundedLifetime)
<1> DEFINE LInv == DeadlineBudget /\ BoundedLifetime
<1>0. TypeOK => StepsLeft \in 0..5
  BY DEF TypeOK, StepsLeft
<1>1. Init => LInv
  BY ConnAssumption DEF Init, DeadlineBudget, BoundedLifetime, Running, Lifetime
<1>2. TypeOK /\ TypeOK' /\ PhaseAgrees /\ LInv /\ [Next]_vars => LInv'
  <2> SUFFICES ASSUME TypeOK, TypeOK', PhaseAgrees, LInv, [Next]_vars PROVE LInv'
    OBVIOUS
  <2>1. StepsLeft \in 0..5 /\ StepsLeft' \in 0..5
    BY <1>0 DEF TypeOK, StepsLeft
  <2>2. /\ now \in Nat /\ now' \in Nat /\ deadline_ms \in Nat /\ deadline_ms' \in Nat
        /\ SweepDelay \in Nat /\ StepTimeout \in Nat /\ ConnectTimeout \in Nat
    BY ConnAssumption DEF TypeOK
  <2>3. BoundedLifetime'
    <3>1. CASE UNCHANGED now
      BY <3>1 DEF BoundedLifetime, Lifetime
    <3>2. CASE Tick
      <4>1. /\ now' = now + 1 /\ now < deadline_ms + SweepDelay
            /\ deadline_ms + SweepDelay + StepsLeft * (StepTimeout + SweepDelay) <= Lifetime
        BY <3>2 DEF Tick, DeadlineBudget
      <4>2. StepsLeft * (StepTimeout + SweepDelay) \in Nat
        BY <2>1, <2>2, RenewalPaid
      <4> HIDE DEF Lifetime
      <4>3. Lifetime \in Nat
        BY <2>2 DEF Lifetime
      <4>4. now' <= Lifetime
        BY <2>2, <4>1, <4>2, <4>3
      <4> QED
        BY <4>4 DEF BoundedLifetime, Lifetime
    <3> QED
      BY <3>1, <3>2, ClockRuns
  <2>4. ASSUME Running' PROVE /\ now' <= deadline_ms' + SweepDelay
                              /\ deadline_ms' + SweepDelay
                                   + StepsLeft' * (StepTimeout + SweepDelay) <= Lifetime
    <3>1. CASE ~Running
      <4>1. Start
        BY <2>4, <3>1, RunningFrom
      <4>2. now = 0 /\ now' = 0 /\ deadline_ms' = ConnectTimeout
        BY <2>2, <4>1 DEF Start, PhaseAgrees
      <4>3. StepsLeft' = 5
        BY <2>4, <4>1 DEF Start, Submit, Failed, Running, Terminal, StepsLeft
      <4> QED
        BY <2>2, <4>2, <4>3 DEF Lifetime
    <3>2. CASE Running
      <4>1. /\ now <= deadline_ms + SweepDelay
            /\ deadline_ms + SweepDelay + StepsLeft * (StepTimeout + SweepDelay) <= Lifetime
        BY <3>2 DEF DeadlineBudget
      <4>2. Lifetime \in Nat
        BY <2>2 DEF Lifetime
      <4>3. CASE /\ UNCHANGED <<deadline_ms, StepsLeft>>
                 /\ UNCHANGED now \/ Tick
        <5>1. /\ StepsLeft' * (StepTimeout + SweepDelay)
                   <= StepsLeft * (StepTimeout + SweepDelay)
              /\ StepsLeft * (StepTimeout + SweepDelay) \in Nat
              /\ StepsLeft' * (StepTimeout + SweepDelay) \in Nat
          BY <2>1, <2>2, <4>3, RenewalPaid
        <5>2. now' <= deadline_ms + SweepDelay
          BY <2>2, <4>1, <4>3 DEF Tick
        <5> QED
          BY <2>2, <4>1, <4>2, <4>3, <5>1, <5>2
      <4>4. CASE StartStep /\ UNCHANGED now /\ StepsLeft' <= StepsLeft - 1
        <5>1. StepsLeft' <= StepsLeft
          BY <2>1, <4>4
        <5>2. /\ (StepTimeout + SweepDelay) + StepsLeft' * (StepTimeout + SweepDelay)
                   <= StepsLeft * (StepTimeout + SweepDelay)
              /\ StepsLeft * (StepTimeout + SweepDelay) \in Nat
              /\ StepsLeft' * (StepTimeout + SweepDelay) \in Nat
          BY <2>1, <2>2, <4>4, <5>1, RenewalPaid
        <5>3. deadline_ms' = now + StepTimeout /\ now' = now
          BY <4>4 DEF StartStep
        <5> QED
          BY <2>2, <4>1, <4>2, <5>2, <5>3
      <4> QED
        BY <2>4, <3>2, <4>3, <4>4, RenewalsCost DEF Running
    <3> QED
      BY <3>1, <3>2
  <2> QED
    BY <2>3, <2>4 DEF DeadlineBudget, Lifetime
<1> QED
  BY <1>1, <1>2, TypeCorrect, PhaseInvariant, PTL DEF Spec
-----------------------------------------------------------------------------
(* No read into a full buffer; no peer-provoked abort.                       *)

\* The reactor is never asked to read into an empty range, whose zero-byte
\* result would be taken for the peer's close.
THEOREM RoomInvariant == Spec => []RoomToRead
<1>1. Init => RoomToRead
  BY DEF Init, RoomToRead
<1>2. TypeOK /\ RoomToRead /\ [Next]_vars => RoomToRead'
  <2> SUFFICES ASSUME TypeOK, RoomToRead, [Next]_vars,
                      Running', op' = "READ", state' \in WaitStates
               PROVE  read_len' < ReadBufSize
    BY DEF RoomToRead
  <2> USE DEF Running, Terminal, WaitStates
  <2>1. CASE DiscardReadBuf
    BY <2>1, ConnAssumption DEF DiscardReadBuf
  <2>2. CASE Start
    BY <2>2, ConnAssumption DEF Start
  <2>3. CASE ConnectCompletion
    BY <2>1, <2>3, HandshakeStarts DEF ConnectCompletion, Failed
  <2>4. CASE DecryptWantRead
    BY <2>4 DEF DecryptWantRead, RawRead, RoomToRead, readVars
  <2>5. CASE DecryptError
    BY <2>5 DEF DecryptError, Failed
  <2>6. CASE EhloWriteCompletion \/ StarttlsWriteCompletion
    BY <2>1, <2>6 DEF EhloWriteCompletion, StarttlsWriteCompletion, CommandSent, Failed
  <2>7. ASSUME ReplyUnusable \/ ReplyIncomplete PROVE read_len' < ReadBufSize
    BY <2>7, ConnAssumption
       DEF ReplyUnusable, ReplyIncomplete, ReadMore, Failed, AppendToReadBuf, TypeOK
  <2>8. CASE BannerRead
    BY <2>7, <2>8 DEF BannerRead, SendEhlo, Submit, Failed
  <2>9. CASE EhloRead
    BY <2>7, <2>9 DEF EhloRead, Submit, Failed
  <2>10. CASE StarttlsReply
    BY <2>7, <2>10, HandshakeStarts DEF StarttlsReply, StarttlsReplyAccepted, Failed
  <2>11. CASE TlsHandshakeCompletion
    BY <2>1, <2>11 DEF TlsHandshakeCompletion, HandshakeDone, HandshakeContinues,
       HandshakeFailed, Submit, Failed
  <2>12. CASE Tick \/ OthersUseCaps
    BY <2>12 DEF Tick, OthersUseCaps, RoomToRead, readVars
  <2>13. CASE CheckTimeout \/ Close
    BY <2>13 DEF CheckTimeout, Close
  <2>14. CASE UNCHANGED vars
    BY <2>14 DEF vars, readVars, RoomToRead
  <2> QED
    BY <2>2, <2>3, <2>4, <2>5, <2>6, <2>8, <2>9, <2>10, <2>11, <2>12, <2>13, <2>14
       DEF Next, OnIo, Finished
<1> QED
  BY <1>1, <1>2, TypeCorrect, PTL DEF Spec

\* Whatever the peer sends, on_io()'s branch for an IMPLICIT connection without
\* TLS is not reached.
THEOREM UnreachableInvariant == Spec => []UnreachableNotReached
<1>1. Init => UnreachableNotReached
  BY DEF Init, UnreachableNotReached
<1>2. TypeOK /\ PhaseAgrees /\ UnreachableNotReached /\ [Next]_vars
        => UnreachableNotReached'
  <2> SUFFICES ASSUME TypeOK, PhaseAgrees, aborted # "UNREACHABLE", [Next]_vars
               PROVE  aborted' # "UNREACHABLE"
    BY DEF UnreachableNotReached
  <2>1. CASE BannerRead
    BY <2>1 DEF BannerRead, LogDetail
  <2>2. CASE EhloRead
    BY <2>2 DEF EhloRead, PhaseAgrees
  <2>3. CASE TlsHandshakeCompletion
    BY <2>3 DEF TlsHandshakeCompletion, HandshakeDone, HandshakeContinues,
       HandshakeFailed, LogDetail
  <2>4. CASE Next /\ ~BannerRead /\ ~EhloRead /\ ~TlsHandshakeCompletion
    BY <2>4 DEF Next, OnIo, Start, ConnectCompletion, DecryptWantRead, DecryptError,
       EhloWriteCompletion, StarttlsWriteCompletion, CommandSent, StarttlsReply,
       Tick, CheckTimeout, Close, OthersUseCaps, Finished, vars
  <2>5. CASE UNCHANGED vars
    BY <2>5 DEF vars
  <2> QED
    BY <2>1, <2>2, <2>3, <2>4, <2>5
<1> QED
  BY <1>1, <1>2, TypeCorrect, PhaseInvariant, PTL DEF Spec

\* The texts of the greeting and of the certificate are the only way to abort:
\* if none of them holds a line break, nothing a peer does ends the process.
THEOREM OnlyTextsAbort ==
    ASSUME "MANY" \notin GreetingLines, "MANY" \notin CertTextLines
    PROVE  Spec => []NoAbort
<1>1. Init => NoAbort
  BY DEF Init, NoAbort
<1>2. TypeOK /\ PhaseAgrees /\ NoAbort /\ [Next]_vars => NoAbort'
  <2> SUFFICES ASSUME TypeOK, PhaseAgrees, aborted = "NO", [Next]_vars
               PROVE  aborted' = "NO"
    BY DEF NoAbort
  <2>1. CASE BannerRead
    BY <2>1 DEF BannerRead, LogDetail
  <2>2. CASE EhloRead
    BY <2>2 DEF EhloRead, PhaseAgrees
  <2>3. CASE TlsHandshakeCompletion
    BY <2>3 DEF TlsHandshakeCompletion, HandshakeDone, HandshakeContinues,
       HandshakeFailed, LogDetail
  <2>4. CASE Next /\ ~BannerRead /\ ~EhloRead /\ ~TlsHandshakeCompletion
    BY <2>4 DEF Next, OnIo, Start, ConnectCompletion, DecryptWantRead, DecryptError,
       EhloWriteCompletion, StarttlsWriteCompletion, CommandSent, StarttlsReply,
       Tick, CheckTimeout, Close, OthersUseCaps, Finished, vars
  <2>5. CASE UNCHANGED vars
    BY <2>5 DEF vars
  <2> QED
    BY <2>1, <2>2, <2>3, <2>4, <2>5
<1> QED
  BY <1>1, <1>2, TypeCorrect, PhaseInvariant, PTL DEF Spec

-----------------------------------------------------------------------------
(* The dialogue follows the script of its mode.                              *)

\* All modes but one share a script; without TLS it is left off after EHLO.
Script == IF tls_mode = "IMPLICIT" THEN Wrapped ELSE Upgraded

\* How many exchanges of the script are done, by where the attempt is.
SaidBefore ==
    IF tls = "NULL" THEN 0 ELSE IF tls_mode = "IMPLICIT" THEN 1 ELSE 5
Position ==
    CASE state = "CONNECTING"          -> 0
      [] state = "WAIT_BANNER"         -> IF tls = "NULL" THEN 0 ELSE 1
      [] state = "SENDING_EHLO"        -> SaidBefore + 1
      [] state = "WAIT_EHLO"           -> SaidBefore + 2
      [] state = "SENDING_STARTTLS"    -> 3
      [] state = "WAIT_STARTTLS_REPLY" -> 4
      [] state = "TLS_HANDSHAKING"     -> IF tls_mode = "IMPLICIT" THEN 0 ELSE 5
      [] OTHER                         -> 0

Said(n) == dialogue = SubSeq(Script, 1, n)

\* Where the dialogue is; what of it there is, once the attempt is over.
AtPosition ==
    /\ Running => Said(Position)
    /\ \E n \in 0..Len(Script) : Said(n) /\ (tls_mode = "NONE" => n <= 3)
    /\ life = "NEW" => dialogue = <<>> /\ short_writes = {}

LEMMA ScriptParts ==
    /\ Wrapped \in Seq(Exchanges) /\ Len(Wrapped) = 4
    /\ Upgraded \in Seq(Exchanges) /\ Len(Upgraded) = 8
    /\ InTheClear = SubSeq(Upgraded, 1, 3)
<1>1. Wrapped \in Seq(Exchanges) /\ Len(Wrapped) = 4
  BY DEF Wrapped, Exchanges
<1>2. Upgraded \in Seq(Exchanges) /\ Len(Upgraded) = 8
  BY DEF Upgraded, Exchanges
<1>3. InTheClear = SubSeq(Upgraded, 1, 3)
  <2>1. Len(InTheClear) = 3 /\ InTheClear \in Seq(Exchanges)
    BY DEF InTheClear, Exchanges
  <2>2. Len(SubSeq(Upgraded, 1, 3)) = 3 /\ SubSeq(Upgraded, 1, 3) \in Seq(Exchanges)
    BY <1>2
  <2>3. \A i \in 1..3 : InTheClear[i] = SubSeq(Upgraded, 1, 3)[i]
    BY DEF InTheClear, Upgraded
  <2> QED
    BY <2>1, <2>2, <2>3
<1> QED
  BY <1>1, <1>2, <1>3

\* One more exchange is the next one of the script.
LEMMA OneMore ==
    ASSUME NEW S, NEW script \in Seq(S), NEW n \in 0..(Len(script) - 1)
    PROVE  Append(SubSeq(script, 1, n), script[n + 1]) = SubSeq(script, 1, n + 1)
  OBVIOUS

LEMMA WholeAndPart ==
    ASSUME NEW S, NEW script \in Seq(S), NEW n \in 0..Len(script)
    PROVE  Len(SubSeq(script, 1, n)) = n
  OBVIOUS

\* A completed exchange is the one the state says is next.
LEMMA Exchange ==
    ASSUME TypeOK, PhaseAgrees, Running
    PROVE  /\ state = "WAIT_BANNER" =>
                  Script[Position + 1] = "GREETING" /\ Position + 1 <= Len(Script)
                  /\ Position = (IF tls = "NULL" THEN 0 ELSE 1)
           /\ state = "SENDING_EHLO" =>
                  Script[Position + 1] = "EHLO" /\ Position + 1 <= Len(Script)
           /\ state = "WAIT_EHLO" =>
                  Script[Position + 1] = "EHLO_REPLY" /\ Position + 1 <= Len(Script)
           /\ state = "SENDING_STARTTLS" =>
                  Script[Position + 1] = "STARTTLS" /\ Position + 1 <= Len(Script)
           /\ state = "WAIT_STARTTLS_REPLY" =>
                  Script[Position + 1] = "GO_AHEAD" /\ Position + 1 <= Len(Script)
           /\ state = "TLS_HANDSHAKING" =>
                  Script[Position + 1] = "TLS" /\ Position + 1 <= Len(Script)
           /\ tls_mode = "NONE" => Position <= 2
           /\ Position \in 0..7
<1> USE DEF Position, SaidBefore, Script
<1>1. /\ Wrapped[1] = "TLS" /\ Wrapped[2] = "GREETING" /\ Wrapped[3] = "EHLO"
      /\ Wrapped[4] = "EHLO_REPLY"
  BY DEF Wrapped
<1>2. /\ Upgraded[1] = "GREETING" /\ Upgraded[2] = "EHLO" /\ Upgraded[3] = "EHLO_REPLY"
      /\ Upgraded[4] = "STARTTLS" /\ Upgraded[5] = "GO_AHEAD" /\ Upgraded[6] = "TLS"
      /\ Upgraded[7] = "EHLO" /\ Upgraded[8] = "EHLO_REPLY"
  BY DEF Upgraded
<1>3. Len(Wrapped) = 4 /\ Len(Upgraded) = 8
  BY ScriptParts
<1>4. state \in {"CONNECTING", "READY", "ERROR", "TIMED_OUT"} \cup
          {"WAIT_BANNER", "SENDING_EHLO", "WAIT_EHLO", "SENDING_STARTTLS",
           "WAIT_STARTTLS_REPLY", "TLS_HANDSHAKING"}
  BY DEF TypeOK, States, WaitStates, SendingStates, Terminal
<1>5. CASE state \in {"CONNECTING", "READY", "ERROR", "TIMED_OUT"}
  BY <1>5
<1>6. CASE state = "WAIT_BANNER"
  <2>1. \/ Position = 0 /\ Script = Upgraded
        \/ Position = 1 /\ Script = Wrapped /\ tls_mode # "NONE"
    BY <1>6 DEF PhaseAgrees
  <2>2. Position = IF tls = "NULL" THEN 0 ELSE 1
    BY <1>6
  <2> HIDE DEF Position, SaidBefore, Script
  <2> QED
    BY <1>1, <1>2, <1>3, <1>6, <2>1, <2>2
<1>7. CASE state = "SENDING_EHLO"
  <2>1. \/ Position = 1 /\ Script = Upgraded
        \/ Position = 2 /\ Script = Wrapped /\ tls_mode # "NONE"
        \/ Position = 6 /\ Script = Upgraded /\ tls_mode # "NONE"
    BY <1>7 DEF PhaseAgrees
  <2> HIDE DEF Position, SaidBefore, Script
  <2> QED
    BY <1>1, <1>2, <1>3, <1>7, <2>1
<1>8. CASE state = "WAIT_EHLO"
  <2>1. \/ Position = 2 /\ Script = Upgraded
        \/ Position = 3 /\ Script = Wrapped /\ tls_mode # "NONE"
        \/ Position = 7 /\ Script = Upgraded /\ tls_mode # "NONE"
    BY <1>8 DEF PhaseAgrees
  <2> HIDE DEF Position, SaidBefore, Script
  <2> QED
    BY <1>1, <1>2, <1>3, <1>8, <2>1
<1>9. CASE state = "SENDING_STARTTLS"
  <2>1. Position = 3 /\ Script = Upgraded /\ tls_mode # "NONE"
    BY <1>9 DEF PhaseAgrees, StarttlsStates
  <2> HIDE DEF Position, SaidBefore, Script
  <2> QED
    BY <1>1, <1>2, <1>3, <1>9, <2>1
<1>10. CASE state = "WAIT_STARTTLS_REPLY"
  <2>1. Position = 4 /\ Script = Upgraded /\ tls_mode # "NONE"
    BY <1>10 DEF PhaseAgrees, StarttlsStates
  <2> HIDE DEF Position, SaidBefore, Script
  <2> QED
    BY <1>1, <1>2, <1>3, <1>10, <2>1
<1>11. CASE state = "TLS_HANDSHAKING"
  <2>1. \/ Position = 0 /\ Script = Wrapped /\ tls_mode # "NONE"
        \/ Position = 5 /\ Script = Upgraded /\ tls_mode # "NONE"
    BY <1>11 DEF PhaseAgrees
  <2> HIDE DEF Position, SaidBefore, Script
  <2> QED
    BY <1>1, <1>2, <1>3, <1>11, <2>1
<1> QED
  BY <1>4, <1>5, <1>6, <1>7, <1>8, <1>9, <1>10, <1>11

\* A step leaves the dialogue and the position alone, or moves both on by one.
LEMMA DialogueMoves ==
    ASSUME TypeOK, PhaseAgrees, [Next]_vars, Running
    PROVE  /\ UNCHANGED tls_mode
           /\ \/ UNCHANGED dialogue /\ (Running' => Position' = Position)
              \/ /\ dialogue' = Append(dialogue, Script[Position + 1])
                 /\ Position + 1 <= Len(Script)
                 /\ Running' => Position' = Position + 1
<1> USE DEF Running, Terminal, Position, SaidBefore
<1>1. CASE ConnectCompletion
  BY <1>1, HandshakeStarts DEF ConnectCompletion, HandshakeFirst, Submit, Failed, PhaseAgrees
<1>2. CASE DecryptWantRead \/ DecryptError
  BY <1>2 DEF DecryptWantRead, DecryptError, Submit, Failed, tlsVars
<1>3. CASE EhloWriteCompletion
  BY <1>3, Exchange DEF EhloWriteCompletion, CommandSent, Submit, Failed, Record, tlsVars
<1>4. CASE StarttlsWriteCompletion
  BY <1>4, Exchange DEF StarttlsWriteCompletion, CommandSent, Submit, Failed, Record, tlsVars
<1>5. CASE BannerRead
  BY <1>5, Exchange, SharedVerdictsStay DEF BannerRead, SendEhlo, Submit, Failed, Record,
     PhaseAgrees
<1>6. CASE EhloRead
  BY <1>6, Exchange, SharedVerdictsStay
     DEF EhloRead, UpgradeWanted, Submit, Failed, Record
<1>7. CASE StarttlsReply
  BY <1>7, Exchange, SharedVerdictsStay, HandshakeStarts
     DEF StarttlsReply, StarttlsReplyAccepted, Failed, Record, PhaseAgrees, StarttlsStates
<1>8. CASE TlsHandshakeCompletion
  <2>1. CASE HandshakeDone
    BY <1>8, <2>1, Exchange DEF TlsHandshakeCompletion, HandshakeDone, GreetingDue,
       AwaitEncryptedGreeting, RenewEhlo, SendEhlo, Submit, Failed, Record, PhaseAgrees
  <2>2. CASE HandshakeContinues \/ HandshakeFailed
    BY <1>8, <2>2 DEF TlsHandshakeCompletion, HandshakeContinues, HandshakeFailed, Submit,
       Failed, tlsVars
  <2> QED
    BY <1>8, <2>1, <2>2 DEF TlsHandshakeCompletion
<1>9. CASE Tick \/ OthersUseCaps
  BY <1>9 DEF Tick, OthersUseCaps, tlsVars
<1>10. CASE Start \/ CheckTimeout \/ Close
  BY <1>10 DEF Start, CheckTimeout, Close, tlsVars, PhaseAgrees
<1>11. CASE UNCHANGED vars
  BY <1>11 DEF vars
<1> QED
  BY <1>1, <1>2, <1>3, <1>4, <1>5, <1>6, <1>7, <1>8, <1>9, <1>10, <1>11
     DEF Next, OnIo, Finished

\* Outside of a running attempt nothing is said.
LEMMA SilentUnlessRunning ==
    ASSUME TypeOK, [Next]_vars, ~Running
    PROVE  UNCHANGED <<dialogue, tls_mode, short_writes>>
<1>1. CASE OnIo
  BY <1>1 DEF OnIo, ConnectCompletion, DecryptWantRead, DecryptError, EhloWriteCompletion,
     StarttlsWriteCompletion, CommandSent, BannerRead, EhloRead, StarttlsReply,
     TlsHandshakeCompletion
<1>2. CASE Start \/ Tick \/ CheckTimeout \/ Close \/ OthersUseCaps
  BY <1>2 DEF Start, Tick, CheckTimeout, Close, OthersUseCaps
<1>3. CASE UNCHANGED vars
  BY <1>3 DEF vars
<1> QED
  BY <1>1, <1>2, <1>3 DEF Next, Finished

LEMMA PositionInit == Init => AtPosition
<1> SUFFICES ASSUME Init PROVE AtPosition
  OBVIOUS
<1>1. dialogue = <<>> /\ short_writes = {} /\ ~Running
  BY DEF Init, Running
<1>2. SubSeq(Script, 1, 0) = <<>> /\ 0 \in 0..Len(Script)
  BY ScriptParts DEF Script
<1> QED
  BY <1>1, <1>2 DEF AtPosition, Said

LEMMA PositionStep ==
    ASSUME TypeOK, TypeOK', PhaseAgrees, AtPosition, [Next]_vars
    PROVE  AtPosition'
<1>1. Script \in Seq(Exchanges) /\ Len(Script) \in {4, 8}
  BY ScriptParts DEF Script
<1>2. CASE ~Running
  <2>1. UNCHANGED <<dialogue, tls_mode, short_writes, Script>>
    BY <1>2, SilentUnlessRunning DEF Script
  <2>2. ASSUME Running' PROVE Said(Position)'
    <3>1. Start
      BY <1>2, <2>2, RunningFrom
    <3>2. dialogue = <<>>
      BY <3>1 DEF Start, AtPosition
    <3>3. Position' = 0
      BY <2>2, <3>1 DEF Start, Submit, Failed, Running, Terminal, Position
    <3>4. SubSeq(Script, 1, 0) = <<>>
      BY <1>1
    <3> QED
      BY <2>1, <3>2, <3>3, <3>4 DEF Said
  <2>3. life' = "NEW" => life = "NEW"
    BY DEF Next, OnIo, Start, ConnectCompletion, DecryptWantRead, DecryptError,
       EhloWriteCompletion, StarttlsWriteCompletion, CommandSent, BannerRead, EhloRead,
       StarttlsReply, TlsHandshakeCompletion, Tick, CheckTimeout, Close, OthersUseCaps,
       Finished, vars
  <2> QED
    BY <2>1, <2>2, <2>3 DEF AtPosition, Said
<1>3. CASE Running
  <2>1. /\ UNCHANGED tls_mode /\ UNCHANGED Script /\ life' # "NEW"
        /\ Position \in 0..7 /\ (tls_mode = "NONE" => Position <= 2)
        /\ Said(Position)
    <3>1. UNCHANGED tls_mode
      BY <1>3, DialogueMoves
    <3>2. life' # "NEW"
      BY <1>3 DEF Running, Next, OnIo, Start, ConnectCompletion, DecryptWantRead,
         DecryptError, EhloWriteCompletion, StarttlsWriteCompletion, CommandSent, BannerRead,
         EhloRead, StarttlsReply, TlsHandshakeCompletion, Tick, CheckTimeout, Close,
         OthersUseCaps, Finished, vars
    <3> QED
      BY <1>3, <3>1, <3>2, Exchange DEF Script, AtPosition
  <2>2. CASE UNCHANGED dialogue /\ (Running' => Position' = Position)
    BY <2>1, <2>2 DEF AtPosition, Said
  <2>3. CASE /\ dialogue' = Append(dialogue, Script[Position + 1])
             /\ Position + 1 <= Len(Script)
             /\ Running' => Position' = Position + 1
    <3>1. dialogue' = SubSeq(Script, 1, Position + 1)
      BY <1>1, <2>1, <2>3, OneMore DEF Said
    <3>2. Position + 1 \in 0..Len(Script) /\ (tls_mode = "NONE" => Position + 1 <= 3)
      BY <1>1, <2>1, <2>3
    <3>3. Running' => Said(Position)'
      BY <2>1, <2>3, <3>1 DEF Said
    <3>4. \E n \in 0..Len(Script') : Said(n)' /\ (tls_mode' = "NONE" => n <= 3)
      BY <2>1, <3>1, <3>2 DEF Said
    <3> QED
      BY <2>1, <3>3, <3>4 DEF AtPosition
  <2> QED
    BY <1>3, <2>2, <2>3, DialogueMoves
<1> QED
  BY <1>2, <1>3

\* What of the script has been said is a beginning of one of the mode's scripts.
LEMMA SaidIsPrefix ==
    ASSUME TypeOK, AtPosition
    PROVE  \E script \in Scripts :
              Len(dialogue) <= Len(script) /\ dialogue = SubSeq(script, 1, Len(dialogue))
<1>1. Script \in Seq(Exchanges)
  BY ScriptParts DEF Script
<1>2. PICK n \in 0..Len(Script) : Said(n) /\ (tls_mode = "NONE" => n <= 3)
  BY DEF AtPosition
<1>3. Len(dialogue) = n /\ dialogue = SubSeq(Script, 1, n)
  BY <1>1, <1>2, WholeAndPart DEF Said
<1>4. CASE tls_mode # "NONE"
  <2>1. Script \in Scripts
    BY <1>4 DEF TypeOK, TlsModes, Script, Scripts
  <2> QED
    BY <1>2, <1>3, <2>1
<1>5. CASE tls_mode = "NONE"
  <2>1. Script = Upgraded /\ InTheClear \in Scripts
    BY <1>5 DEF Script, Scripts
  <2>2. Len(InTheClear) = 3 /\ n \in 0..3
    BY <1>2, <1>5 DEF InTheClear
  <2>3. SubSeq(InTheClear, 1, n) = SubSeq(Upgraded, 1, n)
    BY <2>2, ScriptParts
  <2> QED
    BY <1>3, <2>1, <2>2, <2>3
<1> QED
  BY <1>4, <1>5

\* A READY connection has come to the end of a script of its mode.
LEMMA ScriptComplete ==
    ASSUME TypeOK, PhaseAgrees, AtPosition, EhloRead, state' = "READY"
    PROVE  dialogue' \in Scripts'
<1>1. /\ Running /\ state = "WAIT_EHLO" /\ UNCHANGED <<tls, tls_mode, life>>
      /\ Record("EHLO_REPLY")
  BY EhloReadReady
<1>2. PICK offered \in BOOLEAN : ReadyNow(offered)
  BY EhloReadReady
<1>3. Scripts' = Scripts
  BY <1>1 DEF Scripts
<1> DEFINE Ends(script) == script \in Scripts
<1>9. /\ tls_mode \in {"NONE", "OPPORTUNISTIC"} => Ends(InTheClear)
      /\ tls_mode \in {"OPPORTUNISTIC", "EXPLICIT"} => Ends(Upgraded)
      /\ tls_mode = "IMPLICIT" => Ends(Wrapped)
  BY Zenon DEF Scripts
<1> HIDE DEF Ends
<1>4. /\ Script[Position + 1] = "EHLO_REPLY" /\ Position + 1 <= Len(Script)
      /\ Position \in 0..7 /\ Said(Position)
  BY <1>1, Exchange DEF AtPosition
<1>5. dialogue' = SubSeq(Script, 1, Position + 1)
  <2>1. dialogue' = Append(SubSeq(Script, 1, Position), Script[Position + 1])
    BY <1>1, <1>4 DEF Record, Said
  <2>2. Script \in Seq(Exchanges) /\ Position \in 0..(Len(Script) - 1)
    BY <1>4, ScriptParts DEF Script
  <2> QED
    BY <2>1, <2>2, OneMore
<1>6. CASE tls = "NULL"
  <2>1. Position = 2 /\ tls_mode \in {"NONE", "OPPORTUNISTIC"}
    BY <1>1, <1>2, <1>6 DEF Position, SaidBefore, ReadyNow, PhaseAgrees
  <2>2. dialogue' = InTheClear
    BY <1>5, <2>1, ScriptParts DEF Script
  <2> QED
    BY <1>3, <1>9, <2>1, <2>2 DEF Ends
<1>7. CASE tls # "NULL" /\ tls_mode = "IMPLICIT"
  <2>1. Position + 1 = 4 /\ Script = Wrapped
    BY <1>1, <1>7 DEF Position, SaidBefore, Script
  <2>2. dialogue' = SubSeq(Wrapped, 1, Len(Wrapped))
    BY <1>5, <2>1, ScriptParts
  <2>3. dialogue' = Wrapped
    BY <2>2, ScriptParts
  <2> QED
    BY <1>3, <1>7, <1>9, <2>3 DEF Ends
<1>8. CASE tls # "NULL" /\ tls_mode # "IMPLICIT"
  <2>1. Position + 1 = 8 /\ Script = Upgraded
    BY <1>1, <1>8 DEF Position, SaidBefore, Script
  <2>2. dialogue' = SubSeq(Upgraded, 1, Len(Upgraded))
    BY <1>5, <2>1, ScriptParts
  <2>3. dialogue' = Upgraded
    BY <2>2, ScriptParts
  <2>4. tls_mode \in {"OPPORTUNISTIC", "EXPLICIT"}
    BY <1>8 DEF TypeOK, TlsModes, PhaseAgrees
  <2> QED
    BY <1>3, <1>9, <2>3, <2>4 DEF Ends
<1> QED
  BY <1>6, <1>7, <1>8

\* READY is either new, by an EHLO reply, or is what it was.
LEMMA ReadyStays ==
    ASSUME TypeOK, PhaseAgrees, [Next]_vars, state' = "READY", ~EhloRead
    PROVE  state = "READY" /\ UNCHANGED <<dialogue, tls_mode>>
<1>1. CASE Running
  <2>1. life' = "OPEN"
    BY <1>1 DEF Running, Next, OnIo, Start, ConnectCompletion, DecryptWantRead,
       DecryptError, EhloWriteCompletion, StarttlsWriteCompletion, CommandSent, BannerRead,
       EhloRead, StarttlsReply, TlsHandshakeCompletion, Tick, CheckTimeout, Close,
       OthersUseCaps, Finished, vars
  <2> QED
    BY <2>1, ReadyOnlyByEhlo
<1>2. CASE ~Running
  <2>1. state = "READY"
    BY <1>2 DEF Next, OnIo, Start, Submit, Failed, ConnectCompletion, DecryptWantRead,
       DecryptError, EhloWriteCompletion, StarttlsWriteCompletion, CommandSent, BannerRead,
       StarttlsReply, TlsHandshakeCompletion, Tick, CheckTimeout, Close, OthersUseCaps,
       Finished, vars
  <2> QED
    BY <1>2, <2>1, SilentUnlessRunning
<1> QED
  BY <1>1, <1>2

\* Only a command cut short adds one to the messages cut short, and it fails.
LEMMA CutShortFails ==
    ASSUME TypeOK, PhaseAgrees, [Next]_vars,
           "COMMAND" \in short_writes => state = "ERROR",
           "COMMAND" \in short_writes', life = "NEW" => short_writes = {}
    PROVE  state' = "ERROR"
<1>1. CASE "COMMAND" \in short_writes
  BY <1>1 DEF Next, OnIo, Start, ConnectCompletion, DecryptWantRead, DecryptError,
     EhloWriteCompletion, StarttlsWriteCompletion, CommandSent, BannerRead, EhloRead,
     StarttlsReply, TlsHandshakeCompletion, Tick, CheckTimeout, Close, OthersUseCaps,
     Finished, vars, Running, Terminal
<1>2. CASE "COMMAND" \notin short_writes
  <2>1. CASE EhloWriteCompletion \/ StarttlsWriteCompletion
    BY <1>2, <2>1 DEF EhloWriteCompletion, StarttlsWriteCompletion, CommandSent, Failed
  <2>2. CASE TlsHandshakeCompletion
    BY <1>2, <2>2 DEF TlsHandshakeCompletion, HandshakeDone, HandshakeContinues,
       HandshakeFailed, HandshakeInput
  <2>3. CASE ~(EhloWriteCompletion \/ StarttlsWriteCompletion \/ TlsHandshakeCompletion)
    BY <1>2, <2>3 DEF Next, OnIo, Start, ConnectCompletion, DecryptWantRead, DecryptError,
       BannerRead, EhloRead, StarttlsReply, Tick, CheckTimeout, Close, OthersUseCaps,
       Finished, vars
  <2> QED
    BY <2>1, <2>2, <2>3
<1> QED
  BY <1>1, <1>2

\* A connection follows a script of its mode in order, whatever the peer says,
\* is READY only at the end of one, and a command cut short ends the attempt.
THEOREM ScriptInvariant == Spec => []FollowsScript
<1> DEFINE AtItsEnd == state = "READY" => dialogue \in Scripts
           CutShort == "COMMAND" \in short_writes => state = "ERROR"
           IInv == AtPosition /\ AtItsEnd /\ CutShort
<1>1. Init => IInv
  <2>1. Init => AtItsEnd /\ CutShort
    BY DEF Init
  <2> QED
    BY <2>1, PositionInit
<1>2. TypeOK /\ TypeOK' /\ PhaseAgrees /\ IInv /\ [Next]_vars => IInv'
  <2> SUFFICES ASSUME TypeOK, TypeOK', PhaseAgrees, IInv, [Next]_vars
               PROVE  IInv'
    OBVIOUS
  <2>1. AtPosition'
    BY PositionStep
  <2>2. AtItsEnd'
    <3>1. CASE EhloRead
      BY <3>1, ScriptComplete
    <3>2. CASE ~EhloRead
      <4> SUFFICES ASSUME state' = "READY" PROVE dialogue' \in Scripts'
        OBVIOUS
      <4>1. state = "READY" /\ UNCHANGED <<dialogue, tls_mode>>
        BY <3>2, ReadyStays
      <4> QED
        BY <4>1 DEF Scripts
    <3> QED
      BY <3>1, <3>2
  <2>3. CutShort'
    BY CutShortFails DEF AtPosition
  <2> QED
    BY <2>1, <2>2, <2>3
<1>3. TypeOK /\ IInv => FollowsScript
  BY SaidIsPrefix DEF FollowsScript
<1> QED
  BY <1>1, <1>2, <1>3, TypeCorrect, PhaseInvariant, PTL DEF Spec

-----------------------------------------------------------------------------
(* The contract: what SmtpOrchestrator assumes of a connection is what       *)
(* smtp_connection.c does.  What a handler may do to the deadline is          *)
(* RenewalsCost, and what it leaves in flight OpInvariant.                    *)

InFlight == life = "OPEN" /\ state \notin Terminal

View(phase, kind, until, steps) ==
    [phase |-> phase, op |-> kind, deadline |-> until, renewals |-> steps]

\* The attempt as its owner sees it, case by case.
LEMMA ViewCases ==
    ASSUME TypeOK
    PROVE  /\ life = "NEW" => AttemptView = View("IDLE", "NONE", 0, 0)
           /\ life = "CLOSED" => AttemptView = View("CLOSED", "NONE", 0, 0)
           /\ life = "OPEN" /\ state \in Terminal => AttemptView = View(state, "NONE", 0, 0)
           /\ InFlight => AttemptView = View("ACTIVE", op, deadline_ms, StepsLeft)
  BY DEF AttemptView, View, InFlight, TypeOK

LEMMA ViewCasesNext ==
    ASSUME TypeOK'
    PROVE  /\ life' = "NEW" => AttemptView' = View("IDLE", "NONE", 0, 0)
           /\ life' = "CLOSED" => AttemptView' = View("CLOSED", "NONE", 0, 0)
           /\ life' = "OPEN" /\ state' \in Terminal => AttemptView' = View(state', "NONE", 0, 0)
           /\ InFlight' => AttemptView' = View("ACTIVE", op', deadline_ms', StepsLeft')
  BY DEF AttemptView, View, InFlight, TypeOK

LEMMA InitRefines == Init => Contract!Init
<1> SUFFICES ASSUME Init PROVE Contract!Init
  OBVIOUS
<1>1. (caps.from \in Channels) = FALSE
  BY OthersFrom DEF Init, Channels
<1>2. AttemptView = Contract!Idle
  BY DEF Init, AttemptView, Contract!Idle
<1> QED
  BY <1>1, <1>2 DEF Init, Contract!Init

\* _start(): under way with the caller's timeout, or rejected.
LEMMA RefineStart ==
    ASSUME TypeOK, TypeOK', Start
    PROVE  Contract!Start
<1>1. life = "NEW" /\ life' = "OPEN" /\ deadline_ms' = now + ConnectTimeout
      /\ UNCHANGED <<now, caps>>
  BY DEF Start
<1>2. AttemptView = Contract!Idle
  BY <1>1, ViewCases DEF View, Contract!Idle
<1>3. CASE state' = "CONNECTING" /\ op' = "CONNECT"
  <2>1. InFlight' /\ StepsLeft' = 5
    BY <1>1, <1>3 DEF InFlight, Terminal, StepsLeft
  <2>2. AttemptView' = Contract!Started(now)
    BY <1>1, <1>3, <2>1, ViewCasesNext DEF View, Contract!Started
  <2> QED
    BY <1>1, <1>2, <2>2 DEF Contract!Start
<1>4. CASE Failed
  <2>1. AttemptView' = Contract!Ended("ERROR")
    BY <1>1, <1>4, ViewCasesNext DEF View, Failed, Terminal, Contract!Ended
  <2> QED
    BY <1>1, <1>2, <2>1 DEF Contract!Start
<1> QED
  BY <1>3, <1>4 DEF Start, Submit

\* What on_io() is called in and what it leaves behind, in every handler.
LEMMA OnIoFrame ==
    ASSUME TypeOK, OnIo
    PROVE  /\ Running /\ life' = "OPEN" /\ now' = now
           /\ state' # "TIMED_OUT"
           /\ state' \notin Terminal => op' \in {"READ", "WRITE"}
           /\ state' = "READY" => caps'.from \in Channels
<1> USE DEF Running, Terminal
<1>1. CASE EhloRead
  <2>1. Running /\ life' = "OPEN" /\ now' = now /\ state' # "TIMED_OUT"
       /\ (state' \notin Terminal => op' \in {"READ", "WRITE"})
    BY <1>1, SharedVerdictsStay DEF EhloRead, Submit, Failed
  <2>2. ASSUME state' = "READY" PROVE caps'.from \in Channels
    BY <1>1, <2>2, EhloReadReady DEF CapsFrom, Channel, Channels
  <2> QED
    BY <2>1, <2>2
<1>2. CASE ConnectCompletion
  BY <1>2, HandshakeStarts DEF ConnectCompletion, Submit, Failed
<1>3. CASE DecryptWantRead \/ DecryptError
  BY <1>3 DEF DecryptWantRead, DecryptError, RawRead, Submit, Failed, timeVars, WaitStates
<1>4. CASE EhloWriteCompletion \/ StarttlsWriteCompletion
  BY <1>4 DEF EhloWriteCompletion, StarttlsWriteCompletion, CommandSent, Submit, Failed,
     timeVars
<1>5. CASE BannerRead
  BY <1>5, SharedVerdictsStay DEF BannerRead, SendEhlo, Submit, Failed
<1>6. CASE StarttlsReply
  BY <1>6, SharedVerdictsStay, HandshakeStarts
     DEF StarttlsReply, StarttlsReplyAccepted, Failed
<1>7. CASE TlsHandshakeCompletion
  BY <1>7 DEF TlsHandshakeCompletion, HandshakeDone, HandshakeContinues, HandshakeFailed,
     AwaitEncryptedGreeting, RenewEhlo, SendEhlo, Submit, Failed
<1> QED
  BY <1>1, <1>2, <1>3, <1>4, <1>5, <1>6, <1>7 DEF OnIo

\* A completion: the next operation under a deadline that stands or is renewed, or
\* the end of the attempt.
LEMMA RefineOnIo ==
    ASSUME TypeOK, TypeOK', PhaseAgrees, OnIo
    PROVE  Contract!OnIo
<1> DEFINE before == View("ACTIVE", op, deadline_ms, StepsLeft)
<1>1. /\ Running /\ life' = "OPEN" /\ now' = now /\ state' # "TIMED_OUT"
      /\ state' \notin Terminal => op' \in {"READ", "WRITE"}
      /\ state' = "READY" => caps'.from \in Channels
  BY OnIoFrame
<1>2. AttemptView = before /\ Contract!Active
  BY <1>1, ViewCases DEF InFlight, Running, View, Contract!Active
<1>3. AttemptView' \in Contract!OnIoOutcomes(before, now)
  <2>1. CASE state' \notin Terminal
    <3>1. AttemptView' = View("ACTIVE", op', deadline_ms', StepsLeft')
      BY <1>1, <2>1, ViewCasesNext DEF InFlight
    <3>2. CASE UNCHANGED <<deadline_ms, StepsLeft>>
      <4>1. AttemptView' = [before EXCEPT !.op = op']
        BY <3>1, <3>2 DEF View
      <4> QED
        BY <1>1, <2>1, <4>1 DEF Contract!OnIoOutcomes, Contract!Continue, Contract!SameStep
    <3>3. CASE StartStep /\ StepsLeft' <= StepsLeft - 1
      <4>1. before.renewals = StepsLeft /\ StepsLeft' \in 0..(StepsLeft - 1)
        BY <3>3 DEF View, StepsLeft, TypeOK
      <4>2. deadline_ms' = now + StepTimeout
        BY <3>3 DEF StartStep
      <4> QED
        BY <1>1, <2>1, <3>1, <4>1, <4>2
           DEF View, Contract!OnIoOutcomes, Contract!Continue, Contract!NextStep
    <3> QED
      BY <1>1, <2>1, <3>2, <3>3, RenewalsCost DEF Next
  <2>2. CASE state' \in {"READY", "ERROR"}
    BY <1>1, <2>2, ViewCasesNext DEF Terminal, View, Contract!OnIoOutcomes, Contract!Ended
  <2> QED
    BY <1>1, <2>1, <2>2 DEF Terminal
<1>4. AttemptView'.phase = "READY" => caps'.from \in Channels
  <2>1. CASE state' \notin Terminal
    BY <1>1, <2>1, ViewCasesNext DEF InFlight, View
  <2>2. CASE state' \in Terminal
    BY <1>1, <2>2, ViewCasesNext DEF View
  <2> QED
    BY <2>1, <2>2
<1> QED
  BY <1>1, <1>2, <1>3, <1>4 DEF Contract!OnIo

\* The sweep, the clock, the thread's other connections, and the end.
LEMMA RefineRest ==
    ASSUME TypeOK, TypeOK'
    PROVE  /\ CheckTimeout => Contract!Timeout
           /\ Tick \/ OthersUseCaps => Contract!Environment
           /\ Close => Contract!Close
<1>1. ASSUME CheckTimeout PROVE Contract!Timeout
  <2>1. InFlight /\ life' = "OPEN" /\ state' = "TIMED_OUT" /\ UNCHANGED <<now, caps>>
        /\ now >= deadline_ms
    BY <1>1 DEF CheckTimeout, Running, InFlight, DeadlinePassed, timeVars
  <2>2. AttemptView.phase = "ACTIVE" /\ AttemptView.deadline = deadline_ms
    BY <2>1, ViewCases DEF View
  <2>3. AttemptView' = Contract!Ended("TIMED_OUT")
    BY <2>1, ViewCasesNext DEF View, Terminal, Contract!Ended
  <2> QED
    BY <2>1, <2>2, <2>3 DEF Contract!Timeout, Contract!Active, Contract!Expired
<1>2. ASSUME Tick \/ OthersUseCaps PROVE Contract!Environment
  <2>1. InFlight /\ InFlight' /\ UNCHANGED <<op, deadline_ms, StepsLeft>>
    BY <1>2 DEF Tick, OthersUseCaps, Running, InFlight, timeVars, tlsVars, StepsLeft
  <2>2. Contract!Active /\ AttemptView' = AttemptView
    BY <2>1, ViewCases, ViewCasesNext DEF View, Contract!Active
  <2>3. CASE Tick
    BY <2>2, <2>3 DEF Tick, Contract!Environment
  <2>4. CASE OthersUseCaps
    <3>1. caps'.from \notin Channels /\ now' = now
      BY <2>4, OthersFrom DEF OthersUseCaps, timeVars, Channels
    <3> QED
      BY <2>2, <3>1 DEF Contract!Environment
  <2> QED
    BY <1>2, <2>3, <2>4
<1>3. ASSUME Close PROVE Contract!Close
  <2>1. life = "OPEN" /\ state \in Terminal /\ life' = "CLOSED" /\ UNCHANGED <<now, caps>>
    BY <1>3 DEF Close, timeVars
  <2>2. AttemptView.phase \in Contract!Outcomes
    BY <2>1, ViewCases DEF View, Terminal, Contract!Outcomes
  <2>3. AttemptView' = Contract!Ended("CLOSED")
    BY <2>1, ViewCasesNext DEF View, Contract!Ended
  <2> QED
    BY <2>1, <2>2, <2>3 DEF Contract!Close
<1> QED
  BY <1>1, <1>2, <1>3

LEMMA RefineStep ==
    ASSUME TypeOK, TypeOK', PhaseAgrees, [Next]_vars
    PROVE  [Contract!Next]_(Contract!cvars)
<1>1. CASE UNCHANGED vars
  <2>1. UNCHANGED <<life, state, op, now, deadline_ms, tls, banner_seen, caps>>
    BY <1>1 DEF vars
  <2> QED
    BY <2>1 DEF Contract!cvars, AttemptView, StepsLeft
<1>2. CASE Start
  BY <1>2, RefineStart DEF Contract!Next
<1>3. CASE OnIo
  BY <1>3, RefineOnIo DEF Contract!Next
<1>4. CASE Tick \/ CheckTimeout \/ Close \/ OthersUseCaps
  BY <1>4, RefineRest DEF Contract!Next
<1> QED
  BY <1>1, <1>2, <1>3, <1>4 DEF Next, Finished

\* Every behaviour of a connection, seen as its owner sees it, is one the contract
\* allows: a deadline renewed at most five times, one operation in flight, one end,
\* and READY only with capabilities of its own.
THEOREM Refinement == Spec => KeepsContract
<1> QED
  BY InitRefines, RefineStep, TypeCorrect, PhaseInvariant, PTL
     DEF Spec, KeepsContract, Contract!Spec
=============================================================================
