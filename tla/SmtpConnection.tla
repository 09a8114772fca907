--------------------------- MODULE SmtpConnection ---------------------------
(***************************************************************************)
(* One connection attempt: the state machine of src/src/smtp_connection.c, *)
(* driven the way smtp_orchestrator_run() drives it.  The reactor is        *)
(* represented by the one operation it holds for the connection (`op`) and  *)
(* by the completions it may report; the peer is arbitrary; the TLS engine  *)
(* is represented by its status codes and by the number of complete records *)
(* it has been fed and not yet decrypted.                                   *)
(*                                                                          *)
(* Reply text is abstracted to the verdict of smtp_reply_read(), sizes to   *)
(* a few units, and every byte of read_buf to the channel it came from.     *)
(***************************************************************************)
EXTENDS Integers, Sequences

CONSTANTS
    ReadBufSize,        \* SMTP_CONN_READ_BUF_SIZE, in units of one chunk
    EngineCapacity,     \* complete records the TLS engine's input buffer holds
    MaxRecordsPerRead,  \* complete records one raw read can carry
    ConnectTimeout,     \* connect_timeout_ms
    StepTimeout,        \* the three five-minute step timeouts
    SweepDelay,         \* how late check_timeout() may come after a deadline
    GreetingLines,      \* shapes of greeting the peer sends: "ONE", "MANY" lines
    CertTextLines       \* shapes of the engine's certificate texts, likewise

ASSUME ConnAssumption ==
    /\ ReadBufSize \in Nat \ {0}
    /\ EngineCapacity \in Nat
    /\ MaxRecordsPerRead \in Nat
    /\ ConnectTimeout \in Nat
    /\ StepTimeout \in Nat
    /\ SweepDelay \in Nat
    /\ GreetingLines \subseteq {"ONE", "MANY"}
    /\ CertTextLines \subseteq {"ONE", "MANY"}

VARIABLES
    life,         \* "NEW" after _init, "OPEN" after _start, "CLOSED" after _close
    state,        \* conn->state
    op,           \* kind of the operation the reactor holds, or "NONE"
    now,          \* the caller's monotonic clock
    deadline_ms,  \* conn->deadline_ms
    read_len,     \* conn->read_len
    buf_from,     \* channels the bytes of read_buf[0 .. read_len) came from
    tls_mode,     \* conn->tls_mode
    tls,          \* conn->tls: "NULL", "CREATED" (it has not heard the peer yet),
                  \* "HANDSHAKING", or "DONE"
    pending,      \* complete records inside the engine, not yet decrypted
    banner_seen,  \* conn->banner_seen
    caps,         \* *conn->caps, the scratch buffer shared by the whole thread
    short_writes, \* kinds of message of which only a prefix was ever sent
    eof_seen,     \* a raw read has returned zero bytes
    dialogue,     \* history: the protocol exchanges completed so far
    aborted       \* which assertion failed and ended the process by abort():
                  \* "LOG_DETAIL" (of smtp_log_emit()), "UNREACHABLE", or "NO"

timeVars == <<now, deadline_ms>>
readVars == <<read_len, buf_from>>
tlsVars  == <<tls, pending>>
vars == <<life, state, op, now, deadline_ms, read_len, buf_from, tls_mode, tls,
          pending, banner_seen, caps, short_writes, eof_seen, dialogue, aborted>>

TlsModes  == {"NONE", "OPPORTUNISTIC", "EXPLICIT", "IMPLICIT"}
WaitStates    == {"WAIT_BANNER", "WAIT_EHLO", "WAIT_STARTTLS_REPLY"}
SendingStates == {"SENDING_EHLO", "SENDING_STARTTLS"}
Terminal      == {"READY", "ERROR", "TIMED_OUT"}
States == {"CONNECTING", "TLS_HANDSHAKING"} \cup WaitStates
              \cup SendingStates \cup Terminal
Channels  == {"PLAIN", "TLS"}
Exchanges == {"GREETING", "EHLO", "EHLO_REPLY", "STARTTLS", "GO_AHEAD", "TLS"}

\* smtp_capabilities as far as this machine reads it: who filled it ("NONE":
\* just cleared; "OTHER": another connection of the thread), STARTTLS, and
\* whether the reply it was parsed from had a 2xx code.
Capabilities == [from : Channels \cup {"NONE", "OTHER"},
                 has_starttls : BOOLEAN, accepted : BOOLEAN]
NoCaps == [from |-> "NONE", has_starttls |-> FALSE, accepted |-> FALSE]
OthersCaps == [from : {"OTHER"}, has_starttls : BOOLEAN, accepted : {TRUE}]

TypeOK ==
    /\ life \in {"NEW", "OPEN", "CLOSED"}
    /\ state \in States
    /\ op \in {"NONE", "CONNECT", "READ", "WRITE"}
    /\ now \in Nat
    /\ deadline_ms \in Nat
    /\ read_len \in 0..ReadBufSize
    /\ buf_from \subseteq Channels
    /\ tls_mode \in TlsModes
    /\ tls \in {"NULL", "CREATED", "HANDSHAKING", "DONE"}
    /\ pending \in 0..EngineCapacity
    /\ banner_seen \in BOOLEAN
    /\ caps \in Capabilities
    /\ short_writes \subseteq {"COMMAND", "HANDSHAKE"}
    /\ eof_seen \in BOOLEAN
    /\ dialogue \in Seq(Exchanges)
    /\ aborted \in {"NO", "LOG_DETAIL", "UNREACHABLE"}

-----------------------------------------------------------------------------
(* smtp_connection_init(): memset leaves state 0 = CONNECTING; the shared    *)
(* capability buffer keeps whatever the previous connection left in it.      *)

Init ==
    /\ life = "NEW" /\ state = "CONNECTING" /\ op = "NONE"
    /\ now = 0 /\ deadline_ms = 0
    /\ read_len = 0 /\ buf_from = {}
    /\ tls_mode \in TlsModes
    /\ tls = "NULL" /\ pending = 0
    /\ banner_seen = FALSE
    /\ caps \in {NoCaps} \cup OthersCaps
    /\ short_writes = {} /\ eof_seen = FALSE
    /\ dialogue = <<>> /\ aborted = "NO"

-----------------------------------------------------------------------------
(* Building blocks                                                           *)

Running == life = "OPEN" /\ state \notin Terminal /\ aborted = "NO"

Channel == IF tls = "NULL" THEN "PLAIN" ELSE "TLS"

\* Every "conn->state = ERROR; return" path: nothing was submitted.
Failed == state' = "ERROR" /\ op' = "NONE"

\* Bug: the result of the submission is ignored.
Bug_SubmitUnchecked(st, kind) == state' = st /\ op' \in {kind, "NONE"}

\* Submit one operation and move to st; a rejected submission is an error.
Submit(st, kind) ==
    \/ state' = st /\ op' = kind
    \/ Failed

\* A new step of the attempt: its deadline counts from now.
StartStep == deadline_ms' = now + StepTimeout

DiscardReadBuf == read_len' = 0 /\ buf_from' = {}
AppendToReadBuf(n) ==
    /\ read_len' = read_len + n
    /\ buf_from' = buf_from \cup (IF n = 0 THEN {} ELSE {Channel})

Record(exchange) == dialogue' = Append(dialogue, exchange)

\* smtp_log_emit() asserts that the detail it logs holds no CR and no LF.
LogDetail(lines) == aborted' = IF lines = "MANY" THEN "LOG_DETAIL" ELSE "NO"

-----------------------------------------------------------------------------
(* smtp_connection_start(): CONNECTING with the caller's connect timeout.    *)

Start ==
    /\ life = "NEW"
    /\ life' = "OPEN"
    /\ deadline_ms' = now + ConnectTimeout
    /\ read_len' = 0 /\ buf_from' = {} /\ banner_seen' = FALSE
    /\ Submit("CONNECTING", "CONNECT")
    /\ UNCHANGED <<now, tls_mode, tlsVars, caps, short_writes, eof_seen, dialogue,
                   aborted>>

-----------------------------------------------------------------------------
(* TLS handshake, first step (shared by the implicit and STARTTLS paths); n  *)
(* bytes of reply text have just been added to read_buf.  A fresh engine's    *)
(* first answer is its first message to send, or an error: never WANT_READ.  *)

BeginTlsHandshake(n) ==
    \/ /\ Failed                              \* smtp_tls_create() failed
       /\ AppendToReadBuf(n)
       /\ UNCHANGED <<deadline_ms, tls>>
    \/ /\ tls' = "CREATED"
       /\ StartStep
       /\ DiscardReadBuf
       /\ Submit("TLS_HANDSHAKING", "WRITE")

\* Bug: the mode that speaks TLS from the first byte is the wrong one.
Bug_HandshakeForExplicit == tls_mode = "EXPLICIT"

HandshakeFirst == tls_mode = "IMPLICIT"

\* smtp_conn_handle_connect_completion()
ConnectCompletion ==
    /\ Running /\ state = "CONNECTING" /\ op = "CONNECT"
    /\ \/ Failed /\ UNCHANGED <<deadline_ms, readVars, tls>>
       \/ IF HandshakeFirst
            THEN BeginTlsHandshake(0)
            ELSE /\ StartStep
                 /\ DiscardReadBuf
                 /\ Submit("WAIT_BANNER", "READ")
                 /\ UNCHANGED tls
    /\ UNCHANGED <<life, now, tls_mode, pending, banner_seen, caps, short_writes,
                   eof_seen, dialogue, aborted>>

-----------------------------------------------------------------------------
(* READ completions outside the handshake.  In the clear the bytes are the   *)
(* reply text.  Under TLS they are ciphertext: one raw read carries k more   *)
(* complete records (0: none is complete yet, or end of file), and           *)
(* smtp_tls_decrypt() returns one record, however many are buffered, or as    *)
(* much of it as there is room for (OpenSSL; SChannel reports an error).     *)

FeedFits(k) == pending + k <= EngineCapacity

\* One raw read of ciphertext; once the peer has closed, every read is EOF.
RawRead(k, eof) ==
    /\ tls = "DONE" /\ op = "READ" /\ state \in WaitStates
    /\ k \in 0..MaxRecordsPerRead /\ eof \in BOOLEAN
    /\ (eof => k = 0) /\ (eof_seen => eof)
    /\ eof_seen' = eof

\* The completion hands the state's handler n bytes of reply text.
Delivered(n) ==
    /\ n \in 0..(ReadBufSize - read_len)
    /\ \/ /\ tls = "NULL" /\ op = "READ"
          /\ eof_seen' = (n = 0)
          /\ UNCHANGED pending
       \/ \E k \in 0..MaxRecordsPerRead, eof \in BOOLEAN :
             /\ RawRead(k, eof)
             /\ FeedFits(k) /\ pending + k > 0
             /\ \/ pending' = pending + k - 1
                \/ pending' = pending + k /\ n = ReadBufSize - read_len

\* smtp_connection_on_io(): no complete record yet, read again.
DecryptWantRead ==
    /\ Running
    /\ \E eof \in BOOLEAN : RawRead(0, eof)
    /\ pending = 0
    /\ Submit(state, "READ")
    /\ UNCHANGED <<life, timeVars, readVars, tls_mode, tlsVars, banner_seen, caps,
                   short_writes, dialogue, aborted>>

\* smtp_connection_on_io(): read_buf full, engine input full, a bad record, or
\* an error another session left in the thread's queue (TlsEngine), which even
\* a read that fed nothing reports.
DecryptError ==
    /\ Running
    /\ \E k \in 0..MaxRecordsPerRead, eof \in BOOLEAN : RawRead(k, eof)
    /\ Failed
    /\ UNCHANGED <<life, timeVars, readVars, tls_mode, tlsVars, banner_seen, caps,
                   short_writes, dialogue, aborted>>

\* Bug: a full buffer is not noticed.
Bug_ReadMoreIntoFull(n) == n > 0 /\ Submit(state, "READ") /\ UNCHANGED deadline_ms

\* Bug: every partial reply renews the deadline.
Bug_ReadMoreRenewing(n) ==
    (IF read_len + n >= ReadBufSize THEN Failed ELSE Submit(state, "READ")) /\ StartStep

\* The verdict of smtp_reply_read() on a buffer that still misses its last
\* line: read on, unless the buffer is full.  The deadline stands.
ReadMore(n) ==
    /\ IF read_len + n >= ReadBufSize THEN Failed ELSE Submit(state, "READ")
    /\ UNCHANGED deadline_ms

\* The three failures every reply handler shares: the read failed, the peer
\* closed, or the reply is malformed.
ReplyUnusable ==
    \/ Failed /\ op = "READ" /\ UNCHANGED <<deadline_ms, readVars, pending, eof_seen>>
    \/ Failed /\ Delivered(0) /\ UNCHANGED <<deadline_ms, readVars>>
    \/ \E n \in 1..ReadBufSize :
          Failed /\ Delivered(n) /\ AppendToReadBuf(n) /\ UNCHANGED deadline_ms

ReplyIncomplete ==
    \E n \in 1..ReadBufSize : Delivered(n) /\ AppendToReadBuf(n) /\ ReadMore(n)

ReplyComplete ==
    \E n \in 1..ReadBufSize : Delivered(n) /\ AppendToReadBuf(n)

-----------------------------------------------------------------------------
(* Commands.  smtp_conn_submit_write_bytes() fails when the engine does not  *)
(* produce ciphertext or the reactor rejects the write.                      *)

SendEhlo ==
    \/ Failed /\ UNCHANGED deadline_ms        \* identity too long for write_buf
    \/ StartStep /\ Submit("SENDING_EHLO", "WRITE")

\* The write completion handlers: anything but a complete write is an error.
CommandSent(from, to, exchange) ==
    /\ Running /\ state = from /\ op = "WRITE"
    /\ \/ /\ Failed                           \* the write failed, or was partial
          /\ \E s \in {{}, {"COMMAND"}} : short_writes' = short_writes \cup s
          /\ UNCHANGED <<readVars, dialogue>>
       \/ /\ DiscardReadBuf
          /\ Submit(to, "READ")
          /\ Record(exchange)
          /\ UNCHANGED short_writes
    /\ UNCHANGED <<life, timeVars, tls_mode, tlsVars, banner_seen, caps, eof_seen,
                   aborted>>

EhloWriteCompletion     == CommandSent("SENDING_EHLO", "WAIT_EHLO", "EHLO")
StarttlsWriteCompletion ==
    CommandSent("SENDING_STARTTLS", "WAIT_STARTTLS_REPLY", "STARTTLS")

-----------------------------------------------------------------------------
(* Replies.                                                                  *)

\* smtp_conn_handle_banner_read().  The text logged for the greeting is the
\* whole reply, so the CRLFs inside a multi-line greeting reach the assertion
\* of smtp_log_emit() that its detail holds none.
BannerRead ==
    /\ Running /\ state = "WAIT_BANNER" /\ op = "READ"
    /\ \/ (ReplyUnusable \/ ReplyIncomplete) /\ UNCHANGED <<banner_seen, dialogue, aborted>>
       \/ /\ ReplyComplete
          /\ banner_seen' = TRUE
          /\ Record("GREETING")
          /\ \E lines \in GreetingLines : LogDetail(lines)
          /\ \/ Failed /\ UNCHANGED deadline_ms           \* not a 2xx greeting
             \/ SendEhlo
    /\ UNCHANGED <<life, now, tls_mode, tls, caps, short_writes>>

\* smtp_cap_parse_ehlo_response() cleared and refilled *conn->caps.
CapsFrom(starttls, code2xx) ==
    [from |-> Channel, has_starttls |-> starttls, accepted |-> code2xx]

\* Bug: a server that offers no STARTTLS is accepted in the clear.
Bug_ReadyFailsOpen(offered) == tls # "NULL" \/ tls_mode = "NONE" \/ ~offered

\* What a parsed EHLO response leads to; the default branch asserts.
UpgradeWanted(offered) ==
    tls = "NULL" /\ \/ tls_mode = "OPPORTUNISTIC" /\ offered
                    \/ tls_mode = "EXPLICIT" /\ offered
ReadyNow(offered) ==
    \/ tls # "NULL"
    \/ tls_mode = "NONE"
    \/ tls_mode = "OPPORTUNISTIC" /\ ~offered

\* smtp_conn_handle_ehlo_read()
EhloRead ==
    /\ Running /\ state = "WAIT_EHLO" /\ op = "READ"
    /\ \/ (ReplyUnusable \/ ReplyIncomplete) /\ UNCHANGED <<caps, dialogue, aborted>>
       \/ /\ ReplyComplete
          /\ Record("EHLO_REPLY")
          /\ \E offered, code2xx \in BOOLEAN :
                /\ caps' = CapsFrom(offered, code2xx)
                /\ aborted' = IF tls = "NULL" /\ tls_mode = "IMPLICIT"
                                THEN "UNREACHABLE" ELSE "NO"
                /\ IF ReadyNow(offered)
                     THEN state' = "READY" /\ op' = "NONE" /\ UNCHANGED deadline_ms
                     ELSE IF UpgradeWanted(offered)
                       THEN StartStep /\ Submit("SENDING_STARTTLS", "WRITE")
                       ELSE Failed /\ UNCHANGED deadline_ms
    /\ UNCHANGED <<life, now, tls_mode, tls, banner_seen, short_writes>>

\* smtp_conn_handle_starttls_reply(); a refusal is fatal in every mode.
StarttlsReplyAccepted ==
    \E n \in 1..ReadBufSize :
       /\ Delivered(n)
       /\ Record("GO_AHEAD")
       /\ BeginTlsHandshake(n)

StarttlsReply ==
    /\ Running /\ state = "WAIT_STARTTLS_REPLY" /\ op = "READ"
    /\ \/ (ReplyUnusable \/ ReplyIncomplete) /\ UNCHANGED <<tls, dialogue>>
       \/ ReplyComplete /\ Failed /\ UNCHANGED <<deadline_ms, tls, dialogue>>  \* not 2xx
       \/ StarttlsReplyAccepted
    /\ UNCHANGED <<life, now, tls_mode, banner_seen, caps, short_writes, aborted>>

-----------------------------------------------------------------------------
(* smtp_conn_handle_tls_handshake()                                          *)

\* What the completion tells the handler.  A WRITE completion is never
\* compared with wire_write_len, so a short write goes unnoticed.
HandshakeInput ==
    \/ op = "READ" /\ UNCHANGED short_writes
    \/ /\ op = "WRITE"
       /\ \E s \in {{}, {"HANDSHAKE"}} : short_writes' = short_writes \cup s

\* Bug: a greeting is awaited after every handshake.
Bug_GreetingAlwaysDue == Channel = "TLS"

GreetingDue == ~banner_seen

\* SMTP_TLS_OK with no greeting read yet: it comes now, encrypted.
AwaitEncryptedGreeting ==
    /\ StartStep
    /\ Submit("WAIT_BANNER", "READ")
    /\ UNCHANGED caps

\* Bug: the capabilities parsed in the clear survive the handshake.
Bug_KeepPlainCaps == UNCHANGED caps /\ SendEhlo

\* SMTP_TLS_OK after STARTTLS: forget the plaintext capabilities, EHLO again.
RenewEhlo == caps' = NoCaps /\ SendEhlo

\* A client answers what it first hears from the server before it is done.  The
\* certificate's subject, or the reason it failed, is logged first of all.
HandshakeDone ==
    /\ HandshakeInput
    /\ tls = "HANDSHAKING"
    /\ \E lines \in CertTextLines : LogDetail(lines)
    /\ tls' = "DONE"
    /\ pending' \in 0..EngineCapacity
    /\ DiscardReadBuf
    /\ Record("TLS")
    /\ IF GreetingDue THEN AwaitEncryptedGreeting ELSE RenewEhlo
    /\ UNCHANGED eof_seen

HandshakeContinues ==
    /\ HandshakeInput
    /\ \/ Submit("TLS_HANDSHAKING", "WRITE")
       \/ Submit("TLS_HANDSHAKING", "READ")
    /\ tls' = IF op = "READ" THEN "HANDSHAKING" ELSE tls
    /\ UNCHANGED <<deadline_ms, readVars, pending, caps, eof_seen, dialogue, aborted>>

HandshakeFailed ==
    /\ Failed
    /\ eof_seen' \in {eof_seen, op = "READ"}      \* the peer may have closed
    /\ UNCHANGED <<deadline_ms, readVars, tlsVars, caps, short_writes, dialogue,
                   aborted>>

TlsHandshakeCompletion ==
    /\ Running /\ state = "TLS_HANDSHAKING" /\ op \in {"READ", "WRITE"}
    /\ HandshakeDone \/ HandshakeContinues \/ HandshakeFailed
    /\ UNCHANGED <<life, now, tls_mode, banner_seen>>

-----------------------------------------------------------------------------
(* The caller: clock, timeout sweep, teardown; and the other connections of  *)
(* the thread, which share *conn->caps.                                      *)

\* The sweep of every loop iteration comes at most SweepDelay after a deadline.
Tick ==
    /\ Running /\ now < deadline_ms + SweepDelay
    /\ now' = now + 1
    /\ UNCHANGED <<life, state, op, deadline_ms, readVars, tls_mode, tlsVars,
                   banner_seen, caps, short_writes, eof_seen, dialogue, aborted>>

\* Bug: a connection with a write in flight is not timed out.
Bug_WritesNeverExpire == now >= deadline_ms /\ op # "WRITE"

DeadlinePassed == now >= deadline_ms

\* smtp_connection_check_timeout()
CheckTimeout ==
    /\ Running /\ DeadlinePassed
    /\ state' = "TIMED_OUT"
    /\ UNCHANGED <<life, op, timeVars, readVars, tls_mode, tlsVars, banner_seen,
                   caps, short_writes, eof_seen, dialogue, aborted>>

\* smtp_connection_close() and smtp_reactor_forget() on a terminal connection.
Close ==
    /\ life = "OPEN" /\ state \in Terminal /\ aborted = "NO"
    /\ life' = "CLOSED" /\ tls' = "NULL" /\ op' = "NONE"
    /\ UNCHANGED <<state, timeVars, readVars, tls_mode, pending, banner_seen, caps,
                   short_writes, eof_seen, dialogue, aborted>>

\* Another connection of the thread clears or parses into the shared buffer.
OthersUseCaps ==
    /\ Running
    /\ caps' \in {NoCaps} \cup OthersCaps
    /\ UNCHANGED <<life, state, op, timeVars, readVars, tls_mode, tlsVars,
                   banner_seen, short_writes, eof_seen, dialogue, aborted>>

\* The attempt, or the process, is over for good: nothing more happens to it.
Finished == (life = "CLOSED" \/ aborted # "NO") /\ UNCHANGED vars

OnIo ==
    \/ TlsHandshakeCompletion
    \/ DecryptWantRead
    \/ DecryptError
    \/ ConnectCompletion
    \/ BannerRead
    \/ EhloWriteCompletion
    \/ EhloRead
    \/ StarttlsWriteCompletion
    \/ StarttlsReply

Next ==
    \/ Start
    \/ OnIo
    \/ Tick
    \/ CheckTimeout
    \/ Close
    \/ OthersUseCaps
    \/ Finished

Spec == Init /\ [][Next]_vars

\* The clock advances, and every loop iteration sweeps the deadlines.
FairSpec == Spec /\ WF_vars(Tick) /\ WF_vars(CheckTimeout)

-----------------------------------------------------------------------------
(* Properties                                                                *)

\* The completions smtp_connection_on_io() asserts it may get in each state.
ExpectedOps(st) ==
    CASE st = "CONNECTING"         -> {"CONNECT"}
      [] st \in WaitStates         -> {"READ"}
      [] st \in SendingStates      -> {"WRITE"}
      [] st = "TLS_HANDSHAKING"    -> {"READ", "WRITE"}
      [] OTHER                     -> {}

\* While an attempt is under way the reactor holds exactly one operation for
\* it, of a kind its state expects: no completion can trip the kind assertions
\* of on_io(), and no branch returns having forgotten to submit the next
\* operation, which would leave the attempt to its deadline.
OneExpectedOpInFlight == Running => op \in ExpectedOps(state)

\* on_io()'s IMPLICIT branch that asserts it is unreachable stays so, for every
\* peer: an IMPLICIT connection has never parsed an EHLO reply in the clear.
\* (The logger's assertion on peer-chosen text does fail: NoAbort, below.)
UnreachableNotReached == aborted # "UNREACHABLE"

\* A READY connection satisfies the configured TLS mode: EXPLICIT and IMPLICIT
\* only over TLS, NONE never, OPPORTUNISTIC in the clear only if the server's
\* own EHLO response offered no STARTTLS.
TlsModeHonoured ==
    state = "READY" /\ life = "OPEN" =>
        /\ tls_mode \in {"EXPLICIT", "IMPLICIT"} => tls = "DONE"
        /\ tls_mode = "NONE" => tls = "NULL"
        /\ tls_mode = "OPPORTUNISTIC" /\ tls # "DONE" => ~caps.has_starttls

\* RFC 3207 Sec 4.2 as smtp_connection.h states it: once the handshake is done
\* nothing read in the clear survives, neither reply bytes injected behind the
\* 220 nor capabilities, and the capabilities of a READY connection were
\* parsed from its own current channel, not left there by another connection.
NothingPlainAfterTls ==
    /\ tls = "DONE" => buf_from \subseteq {"TLS"} /\ caps.from # "PLAIN"
    /\ state = "READY" /\ life = "OPEN" => caps.from = Channel

\* The SMTP dialogues of the four modes: a connection follows one of its
\* mode's scripts, in order, and is READY only at the end of one.  A command of
\* which only a prefix went out never counts as said: it ends the attempt.  (Of
\* a handshake message nobody compares the lengths.)
InTheClear  == <<"GREETING", "EHLO", "EHLO_REPLY">>
Upgraded    == <<"GREETING", "EHLO", "EHLO_REPLY", "STARTTLS", "GO_AHEAD", "TLS",
                 "EHLO", "EHLO_REPLY">>
Wrapped     == <<"TLS", "GREETING", "EHLO", "EHLO_REPLY">>
Scripts ==
    CASE tls_mode = "NONE"          -> {InTheClear}
      [] tls_mode = "OPPORTUNISTIC" -> {InTheClear, Upgraded}
      [] tls_mode = "EXPLICIT"      -> {Upgraded}
      [] tls_mode = "IMPLICIT"      -> {Wrapped}
FollowsScript ==
    /\ \E script \in Scripts :
          Len(dialogue) <= Len(script) /\ dialogue = SubSeq(script, 1, Len(dialogue))
    /\ state = "READY" => dialogue \in Scripts
    /\ "COMMAND" \in short_writes => state = "ERROR"

\* How many more times the deadline of the attempt can be set anew.
StepsLeft ==
    CASE state = "CONNECTING"                              -> 5
      [] state = "WAIT_BANNER"                             -> IF tls = "NULL" THEN 4 ELSE 1
      [] state \in {"SENDING_EHLO", "WAIT_EHLO"}           -> IF tls = "NULL" THEN 3 ELSE 0
      [] state \in {"SENDING_STARTTLS", "WAIT_STARTTLS_REPLY"} -> 2
      [] state = "TLS_HANDSHAKING"                         -> IF banner_seen THEN 1 ELSE 2
      [] OTHER                                             -> 0

\* No peer can keep a connection open beyond the sum of its step timeouts,
\* however it splits its replies, records and handshake messages: a deadline
\* is set once per step, there are at most six, and an answer that races the
\* sweep gains at most SweepDelay.
Lifetime == ConnectTimeout + 5 * (StepTimeout + SweepDelay) + SweepDelay
BoundedLifetime == now <= Lifetime

\* The reactor is never asked to read into an empty range of read_buf: recv()
\* would return 0 and the connection would take it for the peer's close.
RoomToRead == Running /\ op = "READ" /\ state \in WaitStates => read_len < ReadBufSize

\* Every attempt that is started reaches a terminal state, whatever the peer
\* does or fails to do, unless the process itself ends before.
EventuallyTerminal == (life = "OPEN") ~> (state \in Terminal \/ aborted # "NO")

-----------------------------------------------------------------------------
(* The inductive strengthening: what the position in the attempt implies.    *)

StarttlsStates == {"SENDING_STARTTLS", "WAIT_STARTTLS_REPLY"}
AfterGreeting  == {"SENDING_EHLO", "WAIT_EHLO"} \cup StarttlsStates

\* The code keeps no separate "where am I" beyond conn->state: whether TLS is
\* up, whether the greeting has been read and which modes can be here must all
\* follow from it, for the handlers' unconditional assumptions to be right.
PhaseAgrees ==
    /\ life = "NEW" => tls = "NULL" /\ state = "CONNECTING" /\ now = 0 /\ ~banner_seen
    /\ tls # "NULL" => tls_mode # "NONE"
    /\ ~banner_seen => caps.from \in {"NONE", "OTHER"}
    /\ Running =>
        /\ state = "CONNECTING" => tls = "NULL" /\ ~banner_seen
        /\ state = "TLS_HANDSHAKING" =>
              tls \in {"CREATED", "HANDSHAKING"} /\ (tls_mode = "IMPLICIT" <=> ~banner_seen)
        /\ state = "WAIT_BANNER" =>
              ~banner_seen /\ tls = (IF tls_mode = "IMPLICIT" THEN "DONE" ELSE "NULL")
        /\ state \in AfterGreeting => banner_seen /\ tls \in {"NULL", "DONE"}
        /\ state \in StarttlsStates =>
              tls = "NULL" /\ tls_mode \in {"OPPORTUNISTIC", "EXPLICIT"}
        /\ tls_mode = "IMPLICIT" /\ state # "CONNECTING" => tls # "NULL"

\* What is left of the time an attempt may take covers the steps it may still
\* begin, so the sum of the timeouts bounds the attempt as a whole.
DeadlineBudget ==
    Running =>
        /\ now <= deadline_ms + SweepDelay
        /\ deadline_ms + SweepDelay + StepsLeft * (StepTimeout + SweepDelay) <= Lifetime

-----------------------------------------------------------------------------
(* What comments in the repository say and this machine does not do.         *)

\* smtp_log.h:119: no call site hands smtp_log_emit() a detail with a raw CR or
\* LF, whatever the peer sends, so no peer can abort the process through it.
NoAbort == aborted = "NO"

\* smtp_connection.c:902: ciphertext read under TLS is decrypted into read_buf
\* before any handler sees it; so a completion that got part of a reply and
\* waits for the rest leaves no complete record undecrypted in the engine.
NoRecordLeftBehind ==
    [][tls = "DONE" /\ state' = state /\ op' = "READ" /\ read_len' > read_len
         => pending' = 0]_vars
=============================================================================
