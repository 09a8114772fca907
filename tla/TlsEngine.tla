----------------------------- MODULE TlsEngine -----------------------------
(***************************************************************************)
(* smtp_tls.h: the two TLS engines, OpenSSL over a memory BIO pair and      *)
(* SChannel over an accumulation buffer, each between its connection and a   *)
(* peer.  The connections of one thread are driven in any order.             *)
(*                                                                          *)
(* The peer's stream is a sequence of units, so many to a record, that       *)
(* arrive in chunks of any size; handed-out ciphertext is counted, not       *)
(* represented.  SSL_* and SSPI calls are external: SslHandshake, SslRead    *)
(* and the Isc operators say what the engines rely on of them.               *)
(***************************************************************************)
EXTENDS Integers, Sequences

CONSTANTS
    Conns,     \* the connections of the thread
    Backends,  \* the builds to consider: "OPENSSL", "SCHANNEL"
    Peers,     \* what each connection may meet: stream, certificate and trust mode
    MaxChunk,  \* most units one read delivers, at most the cipher_buf's size
    BufSize,   \* room for input: the BIO's 16384 bytes, SMTP_TLS_ACCUM_SIZE
    OutSize,   \* out_buf_size of handshake() and encrypt()
    Room,      \* out_buf_size of decrypt(): what is free of read_buf
    Output     \* units of output: the hello's ("NEW"), each answer's

\* Handshake messages: "MID" calls for no answer, "FLIGHT" for one, "FIN" ends
\* the handshake, "FINOUT" does so with an answer.  Then: data, an empty record,
\* a session ticket or the like, a key update that is answered, close_notify.
\* "BAD" is refused wherever it comes.
HandshakeKinds == {"MID", "FLIGHT", "FIN", "FINOUT"}
RecordKinds    == HandshakeKinds \cup {"DATA", "EMPTY", "TICKET", "KEYUPDATE", "CLOSE", "BAD"}
\* A unit of record number rec; the last one of a record completes it.
Units == [rec : Nat, kind : RecordKinds, last : BOOLEAN]
\* What a record is, its first unit says and every other one.
OneKindEach(units) ==
    \A i \in 1..(Len(units) - 1) : ~units[i].last => units[i + 1].kind = units[i].kind

\* The verdicts on the server's chain, root first, and whether the leaf is of the
\* host's name.
Certs == [chain : Seq(BOOLEAN) \ {<<>>}, host : BOOLEAN]
ChainGood(cert) == \A i \in DOMAIN cert.chain : cert.chain[i]
Good(cert) == ChainGood(cert) /\ cert.host

ASSUME TlsAssumption ==
    /\ Backends \subseteq {"OPENSSL", "SCHANNEL"}
    /\ Peers \in [Conns -> SUBSET [stream : Seq(Units), trust : BOOLEAN, cert : Certs]]
    /\ \A c \in Conns : \A peer \in Peers[c] : OneKindEach(peer.stream)
    /\ {MaxChunk, BufSize, OutSize, Room} \subseteq Nat \ {0}
    /\ Output \in [{"NEW", "FLIGHT", "FINOUT"} -> Nat \ {0}]

VARIABLES
    backend,  \* fixed when the program is built
    left,     \* what each peer has still to send
    tls,      \* each connection's smtp_tls
    errors    \* OpenSSL's error queue of the thread is not empty

vars == <<backend, left, tls, errors>>

\* stream, trust_without_validation and the certificate are fixed; "in" is the
\* input not yet processed, "out" the output not yet drained, "ready" plaintext
\* decrypted and not fetched; "dry" says that SSL has pulled all of "in" out of
\* its BIO; "inspected" that cert_info holds the certificate's texts; "call",
\* "status" and "n" are the last call, its result and *out_len; "got" is all
\* plaintext handed out so far.
Engines == [
    stream : Seq(Units), trust : BOOLEAN, cert : Certs,
    phase : {"NEW", "WAITING", "COMPLETE", "FAILED"},
    handshake_done : BOOLEAN, validated : BOOLEAN, inspected : BOOLEAN,
    closed : BOOLEAN, dry : BOOLEAN,
    in : Seq(Units), out : Nat, ready : Seq(Units), got : Seq(Units),
    call : {"NONE", "HANDSHAKE", "DECRYPT", "ENCRYPT", "SHUTDOWN"},
    status : {"NONE", "OK", "WANT_READ", "WANT_WRITE", "ERROR"}, n : Nat]

TypeOK ==
    /\ backend \in Backends
    /\ left \in [Conns -> Seq(Units)]
    /\ tls \in [Conns -> Engines]
    /\ errors \in BOOLEAN

-----------------------------------------------------------------------------
(* Records in the input.                                                     *)

\* Where records end; where the first one ends that is not of the kinds to skip.
Ends(in) == {i \in 1..Len(in) : in[i].last}
FirstEnd(in, skip) ==
    IF \A i \in Ends(in) : in[i].kind \in skip THEN 0
    ELSE CHOOSE i \in Ends(in) :
            in[i].kind \notin skip /\ \A j \in Ends(in) : j < i => in[j].kind \in skip
LastEnd(in) == IF Ends(in) = {} THEN 0
               ELSE CHOOSE i \in Ends(in) : \A j \in Ends(in) : j <= i
After(in, i) == SubSeq(in, i + 1, Len(in))

IsData(u) == u.kind = "DATA"
\* The data among them, in order.
DataOf(units) ==
    LET upTo[i \in 0..Len(units)] ==
            IF i = 0 THEN <<>>
            ELSE IF IsData(units[i]) THEN Append(upTo[i - 1], units[i]) ELSE upTo[i - 1]
    IN  upTo[Len(units)]

Smaller(a, b) == IF a < b THEN a ELSE b
Status(t, status) == [t EXCEPT !.status = status]
Called(t, call) == [t EXCEPT !.call = call, !.n = 0]
Feed(t, chunk) == [t EXCEPT !.in = @ \o chunk]

-----------------------------------------------------------------------------
(* OpenSSL                                                                   *)

\* smtp_tls_feed_input(): BIO_write() takes it whole or it is an error.  SSL
\* pulls what it can use out of the BIO, all but what follows a record it has
\* returned, or the end of the handshake.
InBio(t) == IF t.dry THEN 0 ELSE Len(t.in)
BioFits(t, chunk) == InBio(t) + Len(chunk) <= BufSize

\* Bug: each certificate's verdict replaces the one before.
Bug_VerifyCallback(trust, validated, preverify_ok) ==
    [validated |-> preverify_ok, ok |-> trust \/ preverify_ok]

\* smtp_tls_verify_callback(): only the first failure counts, and outside trust
\* mode it ends the verification.
VerifyCallback(trust, validated, preverify_ok) ==
    [validated |-> IF ~preverify_ok /\ validated THEN FALSE ELSE validated,
     ok        |-> IF trust THEN TRUE ELSE preverify_ok]

\* What OpenSSL calls it with: a wrong host comes first, and only if
\* smtp_tls_create() has set the host, which trust mode omits; then every
\* certificate from the root to the leaf.
Verdicts(t) ==
    IF t.trust \/ t.cert.host THEN t.cert.chain ELSE <<FALSE>> \o t.cert.chain

\* X509_verify_cert(): the calls one by one, until one says to stop.
Verified(t) ==
    LET told == Verdicts(t)
        after[i \in 0..Len(told)] ==
            IF i = 0 THEN [validated |-> t.validated, ok |-> TRUE]
            ELSE IF ~after[i - 1].ok THEN after[i - 1]
            ELSE VerifyCallback(t.trust, after[i - 1].validated, told[i])
    IN  after[Len(told)]

\* The leaf, whose texts cert_info gets, is the last of them.
Verify(t) == [t EXCEPT !.validated = Verified(t).validated, !.inspected = Verified(t).ok]

\* SSL_do_handshake(): works through the input until it must answer, has
\* finished, or has failed, which queues an alert.
SslHandshake(t) ==
    LET i    == FirstEnd(t.in, {"MID"})
        kind == t.in[i].kind
        rest == [t EXCEPT !.in = After(@, IF i = 0 THEN LastEnd(@) ELSE i)]
    IN  CASE t.phase = "NEW" -> [t EXCEPT !.phase = "WAITING", !.out = @ + Output.NEW]
          [] t.phase # "NEW" /\ t.phase # "WAITING" -> t
          [] t.phase = "WAITING" /\ i = 0 -> rest
          [] t.phase = "WAITING" /\ i # 0 /\ kind = "FLIGHT" -> [rest EXCEPT !.out = @ + Output.FLIGHT]
          [] t.phase = "WAITING" /\ i # 0 /\ kind \in {"FIN", "FINOUT"} /\ Verified(t).ok ->
                [Verify(rest) EXCEPT !.phase = "COMPLETE", !.dry = FALSE,
                                     !.out = IF kind = "FIN" THEN @ ELSE @ + Output.FINOUT]
          [] OTHER -> [Verify(rest) EXCEPT !.phase = "FAILED", !.out = @ + 1]

\* smtp_tls_drain_output(), and the status if it yields anything.
Drain(t) ==
    LET n == Smaller(t.out, OutSize)
    IN  [t EXCEPT !.out = @ - n, !.n = n, !.status = "WANT_WRITE"]

\* Bug: the return code is interpreted before the output is drained.
Bug_SslHandshakeStatus(t) ==
    CASE t.phase = "COMPLETE" -> [Status(t, "OK") EXCEPT !.handshake_done = TRUE]
      [] t.phase = "FAILED" -> Status(t, "ERROR")
      [] t.phase = "WAITING" /\ t.out > 0 -> Drain(t)
      [] OTHER -> Status(t, "WANT_READ")

\* Output first, whatever the return code; only then what the call came to.
SslHandshakeStatus(t) ==
    CASE t.out > 0 -> Drain(t)
      [] t.out = 0 /\ t.phase = "COMPLETE" -> [Status(t, "OK") EXCEPT !.handshake_done = TRUE]
      [] t.out = 0 /\ t.phase = "FAILED" -> Status(t, "ERROR")
      [] OTHER -> Status(t, "WANT_READ")

OpenSslHandshake(t, chunk) ==
    IF ~BioFits(t, chunk) THEN Status(t, "ERROR")
    ELSE SslHandshakeStatus(SslHandshake(Feed(t, chunk)))

\* The state machine empties the queue before it runs, which it does not if the
\* input was not taken; a failure fills it.
ErrorsAfterHandshake(t, chunk, u) ==
    IF BioFits(t, chunk) /\ t.phase \in {"NEW", "WAITING"} THEN u.phase = "FAILED" ELSE errors

\* Records SSL_read() deals with by itself.
Skipped == {"EMPTY", "TICKET", "KEYUPDATE"}

\* Plaintext of the record that SSL has decrypted, as much as there is room for.
Fetch(t, room) ==
    LET n == Smaller(Len(t.ready), room)
    IN  [t EXCEPT !.got = @ \o SubSeq(t.ready, 1, n), !.ready = After(@, n),
                  !.n = n, !.status = "OK"]

\* How many key updates are among the records passed; each is answered.
KeyUpdates(in, i) ==
    IF \E j \in Ends(in) : j <= i /\ in[j].kind = "KEYUPDATE" THEN 1 ELSE 0

\* Bug: anything but plaintext is a failure.
Bug_SslRead(t, room) ==
    IF t.ready = <<>> /\ FirstEnd(t.in, {"EMPTY", "TICKET", "KEYUPDATE"}) = 0 THEN Status(t, "ERROR")
    ELSE [t EXCEPT !.got = @ \o t.ready, !.ready = <<>>, !.status = "OK"]

\* Bug: a read that only wants more input is a success of zero bytes.
Bug_NothingYet == IF errors THEN "ERROR" ELSE "OK"

\* What decrypt() makes of an SSL_read() that wants more input.  Whenever there is
\* no plaintext, SSL_get_error() looks at the thread's error queue first.
NothingYet == IF errors THEN "ERROR" ELSE "WANT_READ"

\* SSL_read() and the status decrypt() makes of it.
SslRead(t, room) ==
    LET i    == FirstEnd(t.in, Skipped)
        kind == t.in[i].kind
        past == IF i = 0 THEN LastEnd(t.in) ELSE i
        rest == [t EXCEPT !.in = After(@, past), !.out = @ + KeyUpdates(t.in, past),
                           !.dry = FALSE]
    IN  CASE t.ready # <<>> -> Fetch(t, room)
          [] t.ready = <<>> /\ i # 0 /\ kind = "DATA" ->
                Fetch([rest EXCEPT !.ready = DataOf(SubSeq(t.in, 1, i))], room)
          [] t.ready = <<>> /\ i = 0 -> [Status(rest, NothingYet) EXCEPT !.dry = TRUE]
          [] t.ready = <<>> /\ i # 0 /\ kind = "CLOSE" ->
                [Status(rest, IF errors THEN "ERROR" ELSE "OK") EXCEPT !.closed = TRUE]
          [] OTHER -> [Status(rest, "ERROR") EXCEPT !.phase = "FAILED"]

OpenSslDecrypt(t, chunk, room) ==
    IF ~BioFits(t, chunk) THEN Status(t, "ERROR") ELSE SslRead(Feed(t, chunk), room)

\* After a read or write that failed for good the queue holds the reason.
ErrorsAfter(u) == errors \/ u.phase = "FAILED"

\* What is still to be sent goes first; without any, that is the status.
DrainOr(t, status) == IF t.out > 0 THEN Drain(t) ELSE Status(t, status)
OneMore(t) == [t EXCEPT !.out = @ + 1]

\* SSL_write() puts a record behind what is still to be sent, or cannot for now,
\* or fails for good, and as much as fits is drained.
OpenSslEncrypt(t) ==
    {Drain(OneMore(t)),
     IF errors THEN Status(t, "ERROR") ELSE DrainOr(t, "WANT_READ"),
     [Status(t, "ERROR") EXCEPT !.phase = "FAILED"]}
\* SSL_shutdown() puts a close_notify there, or nothing.
OpenSslShutdown(t) == {Drain(OneMore(t)), DrainOr(t, "OK")}

-----------------------------------------------------------------------------
(* SChannel                                                                  *)

\* accum has room for the chunk.
AccumFits(t, chunk) == Len(t.in) + Len(chunk) <= BufSize

\* InitializeSecurityContextW(): how much of the input it uses, what it puts out
\* and what it returns.  Of several records at hand it may use one or more.  What
\* a completed context makes of another call is not specified.
Isc(t) ==
    LET i    == FirstEnd(t.in, {"MID"})
        kind == t.in[i].kind
        mids == {j \in Ends(t.in) : i = 0 \/ j < i}
        Step(status, used, out, phase) ==
            [status |-> status, used |-> used, out |-> out, phase |-> phase]
        Answered ==
            CASE kind = "FLIGHT" -> Step("CONTINUE", i, Output.FLIGHT, "WAITING")
              [] kind \in {"FIN", "FINOUT"} /\ (t.trust \/ Good(t.cert)) ->
                    Step("OK", i, IF kind = "FIN" THEN 0 ELSE Output.FINOUT, "COMPLETE")
              [] OTHER -> Step("FAILED", Len(t.in), 0, "FAILED")
    IN  CASE t.phase = "NEW" -> {Step("CONTINUE", Len(t.in), Output.NEW, "WAITING")}
          [] t.phase = "WAITING" /\ Ends(t.in) = {} -> {Step("INCOMPLETE", 0, 0, "WAITING")}
          [] t.phase = "WAITING" /\ Ends(t.in) # {} ->
                {Step("CONTINUE", j, 0, "WAITING") : j \in mids}
                    \cup (IF i = 0 THEN {} ELSE {Answered})
          [] OTHER -> {Step("OK", 0, 0, t.phase), Step("INCOMPLETE", 0, 0, t.phase),
                       Step("FAILED", Len(t.in), 0, "FAILED")}

\* Bug: SECBUFFER_EXTRA is not looked at.
Bug_Keep(t, r) == IF r.status = "INCOMPLETE" THEN t.in ELSE <<>>

\* What stays in accum: all of it, the SECBUFFER_EXTRA part or nothing.
Keep(t, r) == After(t.in, r.used)

\* smtp_tls_populate_cert_info(): there may be no certificate to be had, and no
\* chain to be built for it; otherwise trust mode has all of it checked here.
CertInfo(t) ==
    {t} \cup {[t EXCEPT !.inspected = TRUE, !.validated = v] :
                v \in IF t.trust THEN {FALSE, Good(t.cert)} ELSE {TRUE}}

\* Output first here too, but a status it accompanies is not looked at again.
SchannelStatus(t, r) ==
    LET u == [t EXCEPT !.in = Keep(t, r), !.phase = r.phase]
    IN  CASE r.out > OutSize -> {Status(u, "ERROR")}
          [] r.out \in 1..OutSize -> {[Status(u, "WANT_WRITE") EXCEPT !.n = r.out]}
          [] r.out = 0 /\ r.status = "OK" ->
                CertInfo([Status(u, "OK") EXCEPT !.handshake_done = TRUE])
          [] r.out = 0 /\ r.status \in {"CONTINUE", "INCOMPLETE"} -> {Status(u, "WANT_READ")}
          [] OTHER -> {Status(u, "ERROR")}

SchannelHandshake(t, chunk) ==
    IF ~AccumFits(t, chunk) THEN {Status(t, "ERROR")}
    ELSE UNION {SchannelStatus(Feed(t, chunk), r) : r \in Isc(Feed(t, chunk))}

\* DecryptMessage() takes one record.  A record without plaintext, a ticket or a
\* key update (SEC_I_RENEGOTIATE) is a successful read of nothing; close_notify
\* discards what follows it.
OneRecord(t, room) ==
    LET i    == FirstEnd(t.in, {})
        kind == t.in[i].kind
        rest == [t EXCEPT !.in = After(@, i)]
    IN  CASE i = 0 -> Status(t, "WANT_READ")
          [] i # 0 /\ kind = "CLOSE" -> [Status(t, "OK") EXCEPT !.in = <<>>, !.closed = TRUE]
          [] i # 0 /\ kind \in {"TICKET", "KEYUPDATE", "EMPTY"} -> Status(rest, "OK")
          [] i # 0 /\ kind = "DATA" /\ i <= room ->
                [Status(rest, "OK") EXCEPT !.got = @ \o SubSeq(t.in, 1, i), !.n = i]
          [] OTHER -> [Status(t, "ERROR") EXCEPT !.phase = "FAILED"]

SchannelDecrypt(t, chunk, room) ==
    IF ~AccumFits(t, chunk) THEN Status(t, "ERROR") ELSE OneRecord(Feed(t, chunk), room)

\* A record is made at once, or does not fit out_buf; there may be no close_notify.
Made(t) == [Status(t, "WANT_WRITE") EXCEPT !.n = 1]
SchannelEncrypt(t)  == {Made(t), Status(t, "ERROR")}
SchannelShutdown(t) == {Made(t), Status(t, "OK")}

-----------------------------------------------------------------------------
(* The calls, as the connection makes them: a handshake step with no input    *)
(* first and once its output is sent, with what was read when it wants more.  *)

\* What a read may deliver.  The peer waits for the answers due to it.
AnswerDue(units) == \E i \in Ends(units) : units[i].kind \in {"FLIGHT", "FINOUT"}
Arriving(c) ==
    {SubSeq(left[c], 1, n) : n \in {n \in 1..Smaller(Len(left[c]), MaxChunk) :
        ~AnswerDue(tls[c].in \o SubSeq(left[c], 1, n - 1))}}

Init ==
    /\ backend \in Backends
    /\ errors = FALSE
    /\ \E f \in [Conns -> UNION {Peers[c] : c \in Conns}] :
        /\ \A c \in Conns : f[c] \in Peers[c]
        /\ left = [c \in Conns |-> f[c].stream]
        /\ tls = [c \in Conns |->
            [stream |-> f[c].stream, trust |-> f[c].trust, cert |-> f[c].cert,
             phase |-> "NEW", handshake_done |-> FALSE, validated |-> TRUE,
             inspected |-> FALSE, closed |-> FALSE, dry |-> TRUE, in |-> <<>>, out |-> 0, ready |-> <<>>, got |-> <<>>,
             call |-> "NONE", status |-> "NONE", n |-> 0]]

Took(c, chunk) == left' = [left EXCEPT ![c] = After(@, Len(chunk))]
Result(c, t) == tls' = [tls EXCEPT ![c] = t]

Handshake(c, chunk) ==
    LET t == Called(tls[c], "HANDSHAKE")
    IN  /\ ~tls[c].handshake_done
        /\ \/ chunk = <<>> /\ tls[c].status \in {"NONE", "WANT_WRITE"}
           \/ chunk \in Arriving(c) /\ tls[c].status = "WANT_READ"
        /\ Took(c, chunk)
        /\ \/ /\ backend = "OPENSSL"
              /\ Result(c, OpenSslHandshake(t, chunk))
              /\ errors' = ErrorsAfterHandshake(t, chunk, OpenSslHandshake(t, chunk))
           \/ /\ backend = "SCHANNEL"
              /\ \E u \in SchannelHandshake(t, chunk) : Result(c, u)
              /\ UNCHANGED errors
        /\ UNCHANGED backend

\* What decrypt() is called with: what was read, or nothing at the end of input.
Received(c) == Arriving(c) \cup {<<>>}

\* Established, and the last call neither failed nor told of the end.
Usable(t) ==
    /\ t.handshake_done
    /\ t.status # "ERROR"
    /\ ~(t.call = "DECRYPT" /\ t.status = "OK" /\ t.n = 0)
    /\ t.call # "SHUTDOWN"

Decrypt(c, chunk, room) ==
    LET t == Called(tls[c], "DECRYPT")
    IN  /\ Usable(tls[c])
        /\ chunk \in Received(c)
        /\ Took(c, chunk)
        /\ \/ /\ backend = "OPENSSL"
              /\ Result(c, OpenSslDecrypt(t, chunk, room))
              /\ errors' = ErrorsAfter(OpenSslDecrypt(t, chunk, room))
           \/ /\ backend = "SCHANNEL"
              /\ Result(c, SchannelDecrypt(t, chunk, room))
              /\ UNCHANGED errors
        /\ UNCHANGED backend

\* smtp_tls_encrypt() of one command, or the smtp_tls_shutdown() that the library
\* offers and nothing calls so far.
Send(c, call) ==
    LET t == Called(tls[c], call)
    IN  /\ Usable(tls[c])
        /\ \/ /\ backend = "OPENSSL"
              /\ \E u \in IF call = "ENCRYPT" THEN OpenSslEncrypt(t) ELSE OpenSslShutdown(t) :
                    Result(c, u) /\ errors' = ErrorsAfter(u)
           \/ /\ backend = "SCHANNEL"
              /\ \E u \in IF call = "ENCRYPT" THEN SchannelEncrypt(t) ELSE SchannelShutdown(t) :
                    Result(c, u)
              /\ UNCHANGED errors
        /\ UNCHANGED <<backend, left>>

Next ==
    \E c \in Conns :
        \/ \E chunk \in Received(c) : Handshake(c, chunk)
        \/ \E chunk \in Received(c), room \in 1..Room : Decrypt(c, chunk, room)
        \/ \E call \in {"ENCRYPT", "SHUTDOWN"} : Send(c, call)

Spec == Init /\ [][Next]_vars

-----------------------------------------------------------------------------
(* Properties                                                                *)

\* No byte of the peer's data is lost, doubled or reordered between the wire,
\* the engine's buffers and the caller, across the handshake's end and whatever
\* the chunks: what was handed out, is decrypted, is buffered and is to come is
\* the stream, until an engine has failed or seen the close.  Of SChannel's
\* buffer nothing is kept beyond its end.
PlaintextIsTheStream ==
    \A c \in Conns :
        /\ tls[c].phase # "FAILED" /\ tls[c].status # "ERROR" /\ ~tls[c].closed =>
              tls[c].got \o tls[c].ready \o DataOf(tls[c].in) \o DataOf(left[c])
                  = DataOf(tls[c].stream)
        /\ backend = "SCHANNEL" => Len(tls[c].in) <= BufSize

\* smtp_tls.h: "No output was produced".  A handshake that is over or wants input
\* holds no output the peer may be waiting for, and OpenSSL wants input only
\* when it has used every whole record it was given.
WaitsOnlyForThePeer ==
    \A c \in Conns :
        /\ tls[c].call = "HANDSHAKE" /\ tls[c].status \in {"OK", "WANT_READ"} => tls[c].out = 0
        /\ backend = "OPENSSL" /\ tls[c].call # "ENCRYPT" /\ tls[c].status = "WANT_READ"
              => Ends(tls[c].in) = {}

\* A successful read of nothing, which the connection takes for the peer's close,
\* is one: OpenSSL keeps empty records and session tickets to itself.
ZeroMeansClosed ==
    \A c \in Conns :
        backend = "OPENSSL" /\ tls[c].call = "DECRYPT" /\ tls[c].status = "OK" /\ tls[c].n = 0
            => tls[c].closed

\* What a handshake that is over says of the certificate.  Outside trust mode it
\* never gets there with a bad one, and never calls a good one bad.  In trust mode
\* OpenSSL's validated is the verdict on the whole chain, whichever of its
\* certificates failed and however many were in order after it; it says nothing
\* of the host.  SChannel never calls a certificate it has looked at good that is
\* not; but it may call a good one bad, and one it has not looked at good.
CertVerdictTrue ==
    \A c \in Conns : tls[c].handshake_done =>
        /\ ~tls[c].trust => Good(tls[c].cert) /\ tls[c].validated
        /\ backend = "OPENSSL" =>
              tls[c].inspected /\ (tls[c].validated <=> ChainGood(tls[c].cert))
        /\ backend = "SCHANNEL" /\ tls[c].inspected /\ tls[c].validated => Good(tls[c].cert)

\* A read fails only for a reason: the peer sent what the engine refuses, the
\* input did not fit, the caller had no room for the record (SChannel), or
\* (OpenSSL) some connection of the thread has failed, for SSL_get_error() is
\* asked without clearing the thread's error queue.  That last clause is what one
\* connection's trouble can do to its healthy neighbours.
FailsForAReason ==
    \A c \in Conns : tls[c].call = "DECRYPT" /\ tls[c].status = "ERROR" =>
        \/ tls[c].phase = "FAILED"
        \/ Len(tls[c].in) + MaxChunk > BufSize
        \/ backend = "OPENSSL" /\ \E other \in Conns \ {c} : tls[other].phase = "FAILED"

-----------------------------------------------------------------------------
(* What smtp_tls.h says and the engines do not keep.                         *)

\* smtp_tls.h: validated is "1 if cert passed full chain + hostname validation".
\* In trust mode OpenSSL is not given the host to check, and SChannel leaves the
\* default of 1 when it cannot get at the certificate.
ValidatedMeansPassed ==
    \A c \in Conns : tls[c].handshake_done /\ tls[c].validated => Good(tls[c].cert)
=============================================================================
