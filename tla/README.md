# smtpc-cli: a TLA+ model

smtpc-cli is a C library that opens many SMTP connections from one thread: it
connects, reads the greeting, says EHLO, upgrades to TLS when told to, and
hands each connection to its caller once it is READY or has failed.  This
directory holds TLA+ modules translated from `src/`, the TLC configurations
that check them, and proofs that TLAPS checks.  `PROJECT.json` relates every
definition to the lines it models.

    tlc -workers 2 -config MCSmtpConnection.cfg MCSmtpConnection.tla
    tlapm SmtpConnectionProofs.tla     (and the other modules named *Proofs)

## 1. The system

| component | source | state it keeps | operations |
|---|---|---|---|
| connection | `smtp_connection.c` | `conn->state`, deadline, `read_buf`/`read_len`, `write_buf`, TLS mode and session, `banner_seen`, a pointer to the thread's capabilities | `_init`, `_start`, `_on_io`, `_check_timeout`, `_close` |
| orchestrator | `smtp_orchestrator.c` | slot array (`in_use`, connection), statistics, `stop_requested`, next connection id, one reactor, one capability buffer, one TLS context | `_create`, `_run`, `_request_stop`, `_get_stats`, `_destroy` |
| reactor | `smtp_reactor_{linux,unix,windows}.c` | live count, what epoll / kqueue / IOCP holds; the op itself lives in the caller's `smtp_io_op` | `submit_connect`, `submit_read`, `submit_write`, `poll`, `forget` |
| TLS engine | `smtp_tls_{openssl,schannel}.c` | session, buffered ciphertext, certificate info | `create`, `handshake`, `encrypt`, `decrypt`, `shutdown` |
| reply reader, parser | `smtp_reply_{reader,parser}.c` | none (pure) | parse a line; read a possibly multi-line reply |
| capabilities | `smtp_capabilities.c` | one table per thread | `init`, `parse_ehlo_response`, queries, summary |
| log | `smtp_log.c` | global file, mutex, ready flag | `init`, `emit`, `shutdown`, `hex_dump` |
| validators | `smtp_{address,body}_validator.c`, `smtp_header_{value,encoding}.c` | none (pure) | validate a whole input |
| resolver | `smtp_resolve.c` | none | `getaddrinfo` wrapper |

How they interact.  The orchestrator's thread runs a loop: fill free slots
with new connections (`socket`, `_init`, `_start`), ask the reactor for at most
a batch of completions until the soonest deadline, route each completion through
its `user_data` to the connection that submitted it, then sweep every slot for
a passed deadline.  A connection never blocks: each handler consumes one
completion and either submits exactly one next operation or reaches a terminal
state (READY, ERROR, TIMED_OUT), upon which the orchestrator calls
`on_terminal`, closes the connection, has the reactor forget the socket, and
frees the slot for the next attempt.  All connections of a thread share one
capability buffer.  `request_stop` may come from another thread.

What is hard in it:

* *protocol order*: four TLS modes share nine handlers, the greeting may come
  in the clear or encrypted, EHLO is said once or twice; what a handler may
  assume follows only from how its state was reached;
* *stale state*: bytes and capabilities received in the clear must not survive
  the handshake; the shared capability buffer is valid only inside the call
  that filled it; a slot is reused while results may still name it;
* *timing*: a deadline per step, a peer that trickles bytes, a completion and a
  timeout meeting in one iteration, a `poll` that must wake for the soonest of
  many deadlines and for a stop request;
* *partial failure*: every submission, `socket()`, encryption and decryption
  may fail, and each failure must consume the attempt exactly once;
* *layered buffering*: a raw read may bring no, one or several TLS records, the
  end of the handshake and the first data in one segment;
* *operations that outlive their owner*: on IOCP a cancelled operation completes
  later, into whatever the slot's op holds by then;
* *process-wide state*: one log for all threads, one OpenSSL error queue per
  thread, `abort()` by any assertion.

The library keeps nothing on disk but the log, so crash recovery is the question
what of the log an `abort()` loses.

### What makes each component correct

* **connection** - READY only as the TLS mode permits; nothing plaintext
  survives the handshake; a fixed order of exchanges per mode; exactly one
  operation in flight, of a kind the state expects; no assertion reachable; no
  read into a full buffer; an attempt lasts at most the sum of its step
  timeouts and does end.
* **orchestrator** - statistics account for every attempt; `on_terminal` once
  per connection; no leaked socket or reactor slot; results reach the attempt
  that submitted them; deadlines and stops are acted on in time; `run` returns,
  and not early.
* **reactor** - one completion per submission, none after `forget`; the live
  count is the number of connected-or-connecting sockets.
* **TLS engine** - every byte fed comes out once and in order, across the end of
  the handshake; no output held back while the peer waits for it; a true
  certificate verdict; no failure without a reason; capacity refused, not overrun.
* **reply / capabilities** - the incremental readers give, at every cut of the
  input, the verdict of the grammar; numeric fields saturate or are rejected.
* **log** - lines are whole, in each thread's order, and on disk once `emit` has
  returned, whatever ends the process; no half-open log.
* **validators** - each accepts exactly its grammar, at every limit.

## 2. The modules

    AttemptContract          operators: what an owner may assume of one attempt
      |-- ConnectionContract   the same as a specification of one attempt
      |     ^ implemented by
      |   SmtpConnection       smtp_connection.c
      |     SmtpConnectionRefinement   the refinement mapping
      |     SmtpConnectionProofs       theorems
      |     MCSmtpConnection           values for TLC
      `-- SmtpOrchestrator     smtp_orchestrator.c
            | uses             SmtpOrchestratorProofs: theorems
            v                  MCSmtpOrchestrator: values for TLC
    ReactorContract          what smtp_reactor.h promises and asks for
            ^ implemented by
          Reactor              smtp_reactor_linux.c, smtp_reactor_unix.c
            ReactorProofs              theorems, the refinement among them
            MCReactor                  values for TLC
          ReactorIocp          smtp_reactor_windows.c (until an operation is abandoned)
            ReactorIocpProofs          theorems, the refinement among them
            MCReactorIocp              values for TLC

    TlsEngine                smtp_tls_openssl.c, smtp_tls_schannel.c
      TlsEngineProofs          theorems
      MCTlsEngine              the peers' streams

    SmtpReply                smtp_reply_parser.c, smtp_reply_reader.c
      `-- SmtpCapabilities     smtp_capabilities.c
            `-- SmtpEhlo         a response arriving byte by byte
                  SmtpEhloProofs         theorems about all three
                  MCSmtpEhlo             values for TLC

    SmtpLog                  smtp_log.c
      |-- SmtpLogProofs          theorems
      `-- MCSmtpLog              values for TLC

    Scanner                  what the validators share
      |-- BodyValidator        smtp_body_validator.c
      |-- HeaderValidator      smtp_header_value.c, smtp_header_encoding.c
      `-- AddressValidator     smtp_address_validator.c
            ValidatorProofs          theorems about all three
            MCValidators             the inputs of all three

The system is composed by contract, twice.  `SmtpOrchestrator` treats a
connection as an opaque attempt that moves as `AttemptContract` allows, and
`SmtpConnection` is shown to move only so.  And the orchestrator's submissions,
polls and forgets are shown to be steps of `ReactorContract`
(`UsesReactorAsAgreed`), which both readiness backends implement, and IOCP as long
as no operation outlives its connection.  All of this is theorems.  The product of two full connections, the loop and a kernel would be
out of TLC's reach; the contracts keep what each side sees of the other: of an
attempt its phase, operation in flight, deadline and the renewals left, of the
reactor which sockets are tracked, pending or reported.

### SmtpConnection

One connection from `_init` to `_close`.  An action is one call of an entry
point: `Start`, one action per handler `on_io` dispatches to
(`ConnectCompletion`, `BannerRead`, `EhloWriteCompletion`, `EhloRead`,
`StarttlsWriteCompletion`, `StarttlsReply`, `TlsHandshakeCompletion`, and the two
early returns of its decrypting prologue, `DecryptWantRead` and
`DecryptError`), `CheckTimeout` and `Close`.  Each contains everything the
handler does before it returns, including the next submission, which the
reactor may reject (`Submit`).  `Tick` is the caller's clock, `OthersUseCaps`
another connection of the thread using the shared buffer.

Data is abstracted to what the properties tell apart.  A reply is its verdict:
incomplete, unusable, complete, and its code class.  `read_buf` is its length
in chunks and the set of channels (plain, TLS) its bytes came from.
Capabilities are who filled them, STARTTLS, and whether the EHLO code was 2xx.
The TLS engine is its status codes and the number of complete records fed and
not yet decrypted: OpenSSL returns one record per call or as much of it as fits;
SChannel returns one record or an error.  `dialogue` is a history of the
completed exchanges, `short_writes` and `eof_seen` of what the reactor reported.
The text a greeting or a certificate gives the log has one line or several
(`GreetingLines`, `CertTextLines`, `LogDetail`).  A failed assertion is `aborted`,
of the logger (`"LOG_DETAIL"`) or of a branch that should be unreachable: the
process is gone.  A fresh engine's first answer is its first message to send, or
an error (`BeginTlsHandshake`); the handshake is over only once the server has
been heard (`tls`: `"CREATED"`, then `"HANDSHAKING"`).

### SmtpOrchestrator

One thread in `run`, with `pc` naming the loop it is in: an action is one
iteration of an inner loop (`StartSlot`, `Dispatch`, `Sweep`), one branch
between them (`Top`, `FillDone`, `Check`, `DispatchDone`, `SweepDone`) or one
`Poll`.  `FinishSlot` is `smtp_orch_finish_slot` whole: callback, close, forget,
free, count.  `RequestStop` interleaves everywhere.  `run` may be called again,
with the statistics of the first call still there, as in the code.  `submitted`
is what the reactor holds, and `forget` removes it, as epoll and kqueue do (of
IOCP, see `ReactorIocp`).
The clock passes while `poll` blocks; by at most `Lag` in each half of an
iteration, before `poll` (filling, `socket`, `connect`) and after it (dispatching
and sweeping, `on_terminal` included), since neither half looks at the clock but
at its start; and while the caller does something else between two runs, with
whatever a stop has left in flight.  `run_at` (history) is when `run` was called.

### Reactor

Both readiness backends in one module, told apart by the variable `backend`
where their code differs.  `st` is the kernel's side of each socket: CONNECTING,
CONNECTED, REFUSED (SO_ERROR set), EOF, RESET, DEAD (a connect() that failed on
the spot: no pending error, never connected), CLOSED.  `registered` and `armed` are
what epoll or kqueue holds, `op` the operation recorded in the caller's
`smtp_io_op`, `due` (history) the one submitted and not yet reported.
`SubmitConnect`, `SubmitRw` and `Forget` are the entry points with everything
they do to the kernel's tables; `Poll` is `epoll_wait` or `kevent` with the
batch limit, `HandleEvent` one iteration of the loop over the events,
`PollReturns` the return.  The network (`PeerActs`) moves between any two of them.
The kernel is modelled from what the code relies on: readiness may be
spurious (`Skip`: EAGAIN), a subset of the ready sockets is reported in any
order, epoll reports a hang-up even of a descriptor with an empty mask, kqueue
does not.  The caller is the contract's: it answers every result of a batch with
the next operation or with forget before it polls again, and forgets at any
time between batches (the timeout sweep).  `op`
keeps its kind after a completion, as `smtp_io_op` does.

### ReactorIocp

The completion backend.  The kernel knows an accepted operation by the address of
the OVERLAPPED in the slot's `smtp_io_op`; so `op` and `ovl` are per slot and may
say something else by the time a packet is dequeued.  `SubmitConnect` and
`TakeResult` are the submissions (the caller answers a result with the next
operation, or drops the connection), `TimeOut` is the sweep dropping a connection
whose operation is outstanding, `KernelCompletes` the kernel in its own time:
in any order, a cancelled operation as a failure.  `Poll` is
`GetQueuedCompletionStatusEx` and what is read from the op for each packet, kind
and verdict; the number of a closed socket may belong to another one by then
(`Verdicts`).  An attempt whose submission fails before the op is filled in (no
capacity, `bind`, the association with the port) leaves it as
`smtp_connection_init` has zeroed it (`Wiped`).  `abandoned` is a history of whether an operation has outlived its
connection, since everything the backend promises hangs on it.

### TlsEngine

Both engines under the calls of `smtp_tls.h`, told apart by `backend`.  A peer's
stream is a sequence of units, several to a record; `Arriving` delivers any chunk
of it, so records are cut and joined at every place.  Of an engine there is its
unprocessed input (the read BIO; `accum`), the output not yet drained, plaintext
decrypted and not fetched, and its flags.  `Handshake`, `Decrypt` and `Send`
(`encrypt`, and the `shutdown` that nothing calls yet) are the calls, in the
order the connection makes them.  What is the engines' own is translated:
feeding and refusing, draining before the return code is looked at, what is kept
of the accumulation buffer, which status each library outcome becomes, the verify
callback (`VerifyCallback`, run once for each certificate of the chain by
`Verified`, after the host name where that is checked), SChannel's inspection of
the certificate with its two failures (`CertInfo`), the error queue that the
connections of a thread share.  `decrypt` may be called with nothing, as at end of
input.  `SslHandshake`, `SslRead`, `Isc` are libssl and SSPI as the code relies on them; where their
documents leave a choice (how many records one call consumes, what a completed
context makes of another call) every choice is a step.  Encryption, keys and
certificate texts are left out: a certificate is the verdicts on its chain, root
first, and whether the host is its own; `inspected` says that its texts have been
taken.

### SmtpReply, SmtpCapabilities, SmtpEhlo

The parsers are pure, so they are operators; `SmtpEhlo` makes a machine of
them by feeding a server's lines one byte at a time to `read_buf` and parsing the
whole buffer again, as `smtp_conn_handle_ehlo_read` does.  A byte is a
character as far as the grammar tells it apart: CR, LF, hyphen, space, digits,
`"CTRL"` for any other control or 8-bit character.  A word (`"SIZE"`, `"PLAIN"`,
`"word"`) is a run of printable characters and arrives whole: the scan treats
all its characters alike, so cutting inside one only repeats a state.  Reads of
several bytes skip states of this machine.  `LineStatus` and `ScanText` follow the
order of the checks, since that order is what decides between incomplete and
error.  `ReplyRead` is the loop over lines as a recursive function bounded by
`MaxLines`.  `Filled` is the second pass, which puts the lines in the table one by
one.  What a reply should be is stated apart (`IsReply`), of whole lines found by
their LFs; so is the number a SIZE line announces (`Announced`), of the longest run
of digits.  The comparison of keywords (upper-cased and packed into a
64-bit key with a tail) is equality of words.  SIZE keeps its overflow
check digit by digit against `SizeMax`; AUTH its tokens; unknown
keywords the table's limit, the truncation of keyword and parameters with the
mark that tells of it, and the overflow count.

### SmtpLog

`smtp_log_init`, `_emit` and `_shutdown` with every step of `emit` at which
another thread may come in between: `Emit` (assertions, formatting), `MutexLock`,
`Fwrite`, `Fflush`, `MutexUnlock`.  Formatting may fail, and then nothing is
written, or the line may be too long for its buffer and lose its newline (`cut`, a
history).  The file is two sequences of lines, in stdio's
buffer and on disk; `fflush` may fail and keep or drop the buffer, its result is
ignored as in the code; `Abort` is any assertion of any thread and loses the
buffer.  That a failed flush may leave part of a line on disk is left out.
Emitters run between `init` and `shutdown`, as `smtp_log.h` demands.

### Scanner, BodyValidator, HeaderValidator, AddressValidator

Each validator is one pass over an input that does not change: an action is one
turn of its loop, `scan` its local variables, a byte its class.  What it should
accept is stated apart from it, as a predicate on the whole input
(`WellFormedBody`, `WellFormedHeader`, `WellFormedAddress`): by positions and
quantifiers where the code counts and remembers.  The encoded words of a header
value are located and validated by `CandidateEnd` and `EncodedWordOk`, the
reference reads them as a set of disjoint spans; `"/"` is a byte of its own, since it
may stand in base64 and not in a token.  `WellFormedAddress` is
RFC 5321's grammar except in five points, which are the code's: atext and dots may
follow the closing quote of a local part; a quoted pair counts as one octet and the
quotes as none; the empty quoted string is refused; a literal may follow labels and
is then allowed to be empty; a literal holds any printable characters but space and
brackets and backslash.  `Rfc5321Address` is the grammar itself, and `address_not_rfc5321`
shows that the validator parts from it.

## 3. The runs

| run | expects | what it shows |
|---|---|---|
| `connection` | pass | one connection in all four modes against an arbitrary peer: the protocol, the TLS policy, the discarding of plaintext, the time bound; every attempt ends; the connection implements `ConnectionContract` |
| `orchestrator` | pass | accounting, single reporting, resources, routing, timing, no early return; every use of the reactor is one its contract allows; a bounded run returns, a stopped run returns |
| `reactor` | pass | epoll and kqueue: what is watched is what is submitted, no assertion fails, `ReactorContract` is implemented, with its bound on the caller's array |
| `iocp_backend` | pass | IOCP: results tell what was submitted and how it came out, and `ReactorContract` is kept, until an operation outlives its connection |
| `ehlo_response` | pass | the reader's verdict at every byte is the grammar's and final; the capability table is the complete response's, and tells what it had to cut |
| `tls_engine` | pass | OpenSSL and SChannel: no plaintext lost or reordered, no output held back, what the certificate verdict means, failures for known reasons only |
| `log` | pass | an emitted line is on disk, once, in its thread's order, whatever ends the process; no half-open log |
| `validators` | pass | body, header value and address: each validator accepts exactly its grammar (for addresses the one with the five departures) |
| `greeting_aborts` | violation | a greeting of several lines aborts the process |
| `record_left_behind` | violation | the second record of a read waits undecrypted for the peer's next bytes |
| `iocp_op_reused` | violation | on IOCP a slot's op is overwritten while its previous operation is pending |
| `address_not_rfc5321` | violation | addresses outside the RFC 5321 grammar are accepted |

**Connection bounds.**  `ReadBufSize = 2` chunks: a reply arrives whole, in two
parts, or fills the buffer.  `EngineCapacity = 2` and `MaxRecordsPerRead = 2`:
none, one and several records per read, an overfull engine.
`ConnectTimeout = 1`, `StepTimeout = 2`, `SweepDelay = 1`: completions before, at
and after a deadline, and a sweep that comes late.  All four modes, every
outcome of every submission.  The state space is complete: deadlines bound the
clock, no other bound is added.  `GreetingLines` and `CertTextLines` are one line
or several; in `greeting_aborts` certificate texts are fixed to one line, so that it
can only be the greeting that aborts.

That the sweep comes at most `SweepDelay` after a deadline is an assumption of
`SmtpConnection` (the guard of `Tick`).  It is discharged by `SweptInTime` of
`SmtpOrchestrator`, with `SweepDelay = 3 * Lag`.

**Orchestrator bounds.**  Two slots (the least with a soonest and a later
deadline, and with one slot recycled while the other is busy), calls of `run` for
two attempts and unbounded ones (`Targets = {0, 2}`, of which `MaxAttempts = 2`
are explored), so slots are reused; two calls of `run` (`MaxRuns`), so one may
start with attempts left over by a stop; one deadline renewal per attempt instead
of five (`MaxRenewals`); batches of up to two results.
`MaxPollInterval = 2 < StepTimeout = 3`, so the cap on the poll timeout matters;
`ConnectTimeout = 1`, so slots' deadlines differ.  Safety and liveness are
checked in one run without symmetry.  An attempt may never be answered.  Between
calls of `run` the clock goes on for `MaxIdle = 4`, longer than any deadline left
in flight, if there are any and the caller will call again; it stands still with
nothing in flight and nothing to start, as when an unbounded run idles with
`MaxAttempts` used up: bounds, since nothing is timed then.  The theorems of
section 4 hold for any values of these constants.

**Reactor bounds.**  Four descriptors, `MaxConnections = 3`, so that capacity is
refused and released; a result array of two, smaller than the reactor's own,
so that batches leave events behind; both backends in one run.  Descriptors are
symmetric, and closed ones are reused.  No counter needs a bound.

**IOCP bounds.**  Three slots, capacity two, three sockets (`MaxSockets`), so one
slot is used twice or a third one is refused; arrays of two.  Slots are symmetric.

**EHLO bounds.**  `MaxLines = 3` (the code's callers pass
`SMTP_CONN_MAX_REPLY_LINES`), and up to three lines of 33 kinds: each
keyword class with and without parameters, both separators, a line without
text, other codes, and one line for each way to break the grammar, two of them too short
to hold a code.  Every order
of them, every byte cut, from a fresh table and one full of another response.
`SizeMax = 25`: 25 just fits, 26 does not by its last digit, as at the real
`SIZE_MAX`; a table of one unknown keyword, with room for one word of keyword and
one of parameters, so that all three limits are met and passed (a keyword of several
words stands for one longer than its field).

**TLS bounds.**  Two connections of a thread.  The first has eleven streams: three
handshakes (answers due, none due, an answer with the end) before three sessions
(data and close; empty records and key updates between data; a ticket, then
refused data), and two that are refused early, with a good certificate; and the
three handshakes with each of six certificates: a chain of two in order, or failing
at the first or the last callback, of the host or not.  All in trust mode and
outside it.  The second connection, whose failures the first may feel, has a good
and a refused stream and certificate.  Chunks of 1 to 4 units, input
buffers of 5, output buffers of 2 with answers of up to 3, room for 1 or 2 units
of plaintext with records of up to 3: cuts at every place, refused input, output
drained in parts, plaintext fetched in parts.

**Log bounds.**  Three threads, two lines each, two calls of `init`, either of
whose steps may fail.  Threads are symmetric.

**Validator bounds.**  Limits are small enough to be met and passed: lines of 3
(body) and 13 (header), encoded words of 12, local parts of 3, labels of 2,
addresses of 7.  Inputs are all bodies of up to 5 bytes; all header values of up
to 3 and some two thousand longer ones around encoded words that are right or
nearly so; all addresses of up to 4 bytes, all local parts of up to 5 over the
bytes that matter there and all domains of up to 5 likewise, a colon among them.  The
theorems of section 4 have no bound.

**Fairness.**  Connection: `WF(Tick)`, `WF(CheckTimeout)` - the clock advances
and every iteration of the loop sweeps every slot.  Nothing is assumed of the
peer.  Orchestrator: `WF(Loop)` - the thread is scheduled and `on_terminal`
returns; `SF(Tick)` - an iteration takes time, so infinitely many of them take
infinitely long.  Weak fairness would not do: the clock may advance only at some
steps of an iteration.  Nothing is assumed of `RequestStop`, of peers, or of `socket()`.

**Deadlock** is checked for the machines that run on: connection, orchestrator,
reactors and the EHLO reader, whose regular ends are explicit stuttering steps.
It is not for the log (its threads are done when they have emitted `MaxLines`),
the TLS engines (a peer's stream is used up, or an engine has failed) and the
validators (a verdict is the end), which stop where the code is not called again.

**Mutants.**  Each property has a plausible bug that breaks it, an operator
`Bug_...` just before the definition it would replace.

### Where the code and its comments part

With a run that shows it:

1. `smtp_conn_handle_banner_read` logs the greeting with its inner CRLFs
   (`smtp_connection.c:343`); `smtp_log_emit` asserts there are none
   (`smtp_log.c:288`), and `smtp_log.h:119` says every call site guarantees it.
   A server with a two-line greeting aborts the process (`NoAbort`).
2. `on_io` decrypts once per raw read and one record per call
   (`smtp_connection.c:923`).  A greeting in two records that come in one read
   after an implicit-TLS handshake: the first is decrypted, the reply is
   incomplete, and the second is not looked at until more bytes arrive; if the
   peer waits too the attempt times out (`NoRecordLeftBehind`).  The end of the
   handshake (755-764) reads on in the same way, with no decrypt at all.
3. `smtp_reactor.h:129` wants an op untouched until its completion is reported;
   with IOCP `finish_slot` frees and reuses it before (`OpUntouchedWhilePending`).
   Until that happens the backend is sound (`KeepsContractUntilAbandoned`).
4. `smtp_address_validator.h:8-17` promises RFC 5321's grammar and limits.  The
   validator accepts literals that are none (`a@[-]`, the run's trace), a literal
   behind labels, text behind a quoted string, quoted local parts beyond the
   limit, whose quotes and backslashes it does not count, and `a@a.[]`, for which
   it has an error of its own (`AddressIsRfc5321`).

Without a run of their own, but stated as a formula beside the model, or a
constant of it, to be put into the cfg named:

5. `smtp_conn_handle_tls_handshake` logs the certificate's subject or the reason it
   failed as they are (`smtp_connection.c:735-751`).  SChannel's reason is a
   FormatMessageA text, which ends in CRLF, and its subject is whatever the
   certificate says: the assertion of item 1 again (`MCSmtpConnectionGreeting.cfg` with
   `GreetingLines <- OneLineTexts` and `CertTextLines <- AnyText`).
6. `smtp_tls.h:77` has `validated` mean "full chain + hostname validation".  In trust
   mode OpenSSL is never given the host (`smtp_tls_openssl.c:286`), and SChannel
   leaves the default of 1 when it cannot get at the certificate
   (`smtp_tls_schannel.c:319`): `ValidatedMeansPassed` (`MCTlsEngine.cfg`) is violated
   on either backend.  `CertVerdictTrue` says what holds.
7. `smtp_capabilities.c:163` promises no limit for a malformed SIZE parameter;
   `SIZE  3 1` or `12x` is a limit of 3 or 12, since the scan stops at the first
   byte that is no digit (`MalformedSizeHasNoLimit`, `MCSmtpEhlo.cfg`).
8. `smtp_reply_parser.h:19-23` calls a wrong byte an immediate error; the first two
   bytes of a code are not looked at before the third is there
   (`WrongByteIsAnError`, `MCSmtpEhlo.cfg`).
9. `smtp_log.h:9` has one line per event; a line cut to fit its buffer has lost its
   newline (`smtp_log.c:306`; `OneLinePerEvent`, `MCSmtpLog.cfg`).  Nothing the
   library logs today is long enough.

Met while reading and kept by the models, without a run of their own:

* *Connection.*  End of file under TLS is `WANT_READ`, so the connection reads
  again, at once, until its deadline (`smtp_connection.c:933`), though
  `smtp_reactor_linux.c:347` leaves detecting it to the caller.  WRITE completions
  of the handshake are not compared with `wire_write_len` (`:682`), though
  `smtp_connection.h:97` says they must be.  An EHLO answered with 4xx or 5xx
  leads to READY.  `conn->actor`, the log name, is passed as the TLS host name
  (`:180`), while `smtp_orchestrator.h:81` describes it as a log label.
* *Orchestrator.*  `on_terminal` is not called for an attempt whose
  `submit_connect` is rejected.  Statistics accumulate over runs, so a second
  bounded run may return at once.  A stop requested before `run` clears the flag
  is lost (`:503`).  The TLS context leaks when the slot array cannot be allocated
  (`:276`).
* *Reactors.*  `smtp_reactor_linux.c:185` drops connect()'s result, though the
  comment above it says that a synchronous failure reaches the caller by the
  completion, which reads SO_ERROR, 0 by then, and reports success.  The kqueue
  backend writes without MSG_NOSIGNAL (`smtp_reactor_unix.c:362`) and nobody sets
  SO_NOSIGPIPE, so a reset connection ends the process, though
  `smtp_connection.c:405` says that one connection's trouble must never take the
  others with it.  On kqueue an operation on a descriptor never connected through
  the reactor is accepted.  The readiness backends keep one op per descriptor, so
  the concurrent read and write `smtp_reactor.h` speaks of is not available on
  them.  The IOCP backend binds every socket to an AF_INET address, so ConnectEx
  to an IPv6 target is refused.
* *TLS engines.*  SSL_get_error() looks at the thread's error queue, which
  `decrypt` does not clear: after one connection's failure another's read that
  merely wants more input is an error (`smtp_tls_openssl.c:473`; the last clause
  of `FailsForAReason`), also when the read was of nothing.  SChannel: a
  certificate whose chain cannot be built is called bad, though it may be good
  (`smtp_tls_schannel.c:366`); a ticket, key update or empty record is a successful read of
  nothing, which the connection takes for the peer's close; when the handshake
  completes with output the completion is not looked at, and whether the next call
  says OK is SSPI's to decide; with input left over and CONTINUE_NEEDED it waits
  for the peer though a record is at hand (`WaitsOnlyForThePeer` claims the
  contrary of OpenSSL only).
* *Log.*  Timestamps are taken before the lock, so the file's order need not be
  theirs.  Errors of `fwrite` and `fflush` are ignored (`smtp_log.c:311`).  The
  Windows typedef is misspelt (`CIRITICAL_SECTION`, line 59).  Nothing in `src/`
  calls `init`, `shutdown` or `hex_dump`.
* *Validators.*  The address validator never reports MULTIPLE_AT and cannot reach
  DOMAIN_TOO_LONG (the limit on the whole address comes first).

## 4. The proofs

### The connection

`SmtpConnectionProofs` proves, for every buffer size, engine capacity and
timeout allowed by `ConnAssumption`:

| theorem | states |
|---|---|
| `TypeCorrect` | `TypeOK`; with it that reply bytes fit `read_buf` |
| `PhaseInvariant` | `PhaseAgrees` |
| `OpInvariant` | `OneExpectedOpInFlight` |
| `TlsModeInvariant` | `TlsModeHonoured` |
| `NothingPlainInvariant` | `NothingPlainAfterTls` |
| `LifetimeInvariant` | `DeadlineBudget` and `BoundedLifetime` |
| `RoomInvariant` | `RoomToRead` |
| `UnreachableInvariant` | `UnreachableNotReached` |
| `OnlyTextsAbort` | `NoAbort`, assuming that neither greetings nor certificate texts have several lines |
| `ScriptInvariant` | `FollowsScript` |
| `Refinement` | `Spec => KeepsContract` |

The argument.  None of the interesting invariants is inductive by itself,
because handlers assume things that only the path to their state guarantees:
`HandshakeDone` decides by `banner_seen` whether a greeting is due, the EHLO
handler decides by `tls` whether to look at the mode.  `PhaseAgrees` records,
per state, what the path implies about `tls`, `banner_seen` and `tls_mode`; with
`TypeOK` it is inductive, and `NothingPlainAfterTls`, `TlsModeHonoured` and
`UnreachableNotReached` are preserved relative to it.  `OnlyTextsAbort` says what is
left: those two texts are the only way to abort.  For the time bound, `StepsLeft` counts
the deadlines an attempt in a given state may still set; `DeadlineBudget` says
that the current deadline plus what those steps may take stays within
`Lifetime`.  Reading on, retrying a handshake message and `DecryptWantRead` leave
both untouched; every `StartStep` spends one step (`RenewalsCost`).  That lemma
also carries the refinement: to its owner an attempt is its operation, its
deadline and its steps left, and every handler leaves what `AttemptContract`
allows.  For the dialogue, `Position` says how many exchanges of the script are
done in each state, which is well defined only because of `PhaseAgrees`; a step
leaves the dialogue and the position alone or moves both on by one
(`DialogueMoves`), so what has been said is the script up to the position
(`AtPosition`), and READY is entered at its end (`ScriptComplete`).  Each
preservation proof has one case per action; the temporal steps are `PTL`.

### The orchestrator

`SmtpOrchestratorProofs` proves, for any number of slots, attempts and calls of
`run`, any batch size and any timeouts:

| theorem | states |
|---|---|
| `TypeCorrect` | `TypeOK` |
| `StatsInvariant` | `StatsAddUp` |
| `ReportInvariant` | `ReportedExactlyOnce` |
| `ResourceInvariant` | `ResourcesFollowSlots` |
| `RoutingInvariant` | `ResultsReachTheirAttempt` |
| `OneOperationInvariant` | `OneOperationEach` |
| `NeverAborts` | `[]~aborted`: `on_io`'s assertion holds |
| `ReturnsWhenDone` | `ReturnsOnlyWhenDone` |
| `SweepInvariant`, `StopInvariant` | `SweptInTime`, `StopNoticed` |
| `ReactorUsedAsAgreed` | `Spec => UsesReactorAsAgreed` |

The argument.  That a result reaches its attempt is a matter of ids: those in
flight are distinct and were launched (`IdsUnique`), and the reactor and the
batch together hold one operation for each slot in use and nothing else
(`OpsTracked`).  A `Dispatch` that ends an attempt frees the slot before the next
result of the batch is looked at, so without that correspondence it could act on
a recycled slot; with it, it cannot, and neither can a report be made twice.  The
invariant `IInv` is these two with `TypeOK`, the accounting properties and
`BatchDispatched` (a batch is worked off before the loop goes on).  Cardinalities
of finite sets come from `FiniteSetTheorems`.  `ReturnsOnlyWhenDone` needs
`FirstRunBounded`, since only the first call of `run` starts with no statistics.
The timing theorems rest on `Timely`: for each place of the loop, how far the
clock can be past the deadlines in flight, the time the poll began and a request
to stop, with the time the caller has spent between runs (`run_at`).  Nothing is
assumed of the caller but that `on_terminal` returns within `Lag`.

### The reactor

`ReactorProofs` proves, for any finite set of descriptors, any capacity, any
length of the caller's array and either backend:

| theorem | states |
|---|---|
| `TypeCorrect` | `TypeOK`; `live_count` never leaves `0..MaxConnections` |
| `WatchInvariant` | `WatchedAsSubmitted` |
| `OneOpInvariant` | `OneOpEach` |
| `BatchInvariant` | `BatchFits`, which the refinement needs |
| `NoAssertInvariant` | `NoAssertFails` |
| `Refinement` | `Spec => KeepsReactorContract` |

The argument.  `NoAssertFails` alone is not inductive: `HandleEvent` asserts that
the event carries an operation, and epoll would report the hang-up of a
disarmed descriptor.  That no such event reaches `poll` rests on the caller:
between batches every registered socket has an operation due
(`OneOpEach`), hence is armed (`WatchedAsSubmitted`), and within a batch the events
still to be handled are of sockets with an operation due.  The conjunction of
the five is inductive.  For the refinement, results count as reported only when
`poll` returns; until then they are still pending to the caller.  `Poll` and
`HandleEvent` are therefore stutters and `PollReturns` is `Report`, of at most
`MaxOut` results because of `BatchFits`; `SubmitConnect`, `SubmitRw` and
`Forget` are the contract's actions of those names, `live_count` standing for the
number of tracked sockets.

### The IOCP backend

`ReactorIocpProofs` proves, for any number of slots and sockets, any capacity and
any length of the caller's array:

| theorem | states |
|---|---|
| `CompletionsInvariant` | `CompletionsAreTheSlots` |
| `Refinement` | `Spec => KeepsContractUntilAbandoned` |

The argument.  The invariant has a part that always holds (`Counted`: the live
count is the number of connections, and every operation was once submitted) and a
part, `Placed`, that is lost with the first abandoned operation.  `Placed` says
that an operation anywhere is the one its slot's op describes and its verdict the
one in the slot's OVERLAPPED (`Faithful`), that no slot has two (`Once`) and that
every connection has one (`Covered`).  Hence a result names a connection that
exists and has nothing else with the kernel (`HeadIsAlone`), so answering or
dropping it disturbs no other; a deadline, which strikes between batches, always
strikes a connection whose operation is outstanding (`TimeOutAbandons`), so it is
the step after which nothing is promised.  For the refinement a completion is a
stutter, since the packet waits in the port, and `Poll` is `Report` of as many
slots as it dequeues packets, at most `MaxOut`.

### The EHLO response

`SmtpEhloProofs` proves, for any lines of a server in any number and order, cut
anywhere, any `MaxLines`, any table and parameter size, any `SizeMax` and any
contents of the table before:

| theorem | states |
|---|---|
| `LineVerdictFinal` | parsing a line with more bytes behind it gives the same, once it is not incomplete |
| `ReplyVerdictFinal` | so does reading a reply |
| `VerdictFinal` | `Spec => VerdictStable` |
| `GrammarInvariant` | `MatchesGrammar` |
| `CapsInvariant` | `CapsMatchReply` |
| `CutInvariant` | `CutIsTold` |
| `SizeInvariant` | `SizeAsAnnounced` |

The only assumption beyond the constants' types is that what is sent are bytes
(`EhloAssumption`).

The argument.  *Finality* is what entitles every caller to parse a growing buffer
from its start.  For a line it turns on `TextEnd`, the first byte that is no text: it
stays the first in every extension (`TextEndFinal`), and the two bytes that decide
the rest are within the line once it is not incomplete.  A reply is read
iteration by iteration (`Reading`); were there an iteration that finds something
else in the longer buffer, there would be a first one, whose line would have
changed (`ReadingFinal`).

*The grammar* speaks of LFs in the whole buffer, the reader of one line after the
other.  `ReadBy` relates them: after n iterations there are positions e[1] < e[2]
... that are all the LFs up to there (`Cut`), the pieces between them are lines of
one code, all continued, and the reader's result is what they say.  So a reading
ends in one of three ways (`Result`), and each is decided by the grammar:
an accepted reply is one (`AcceptedIsReply`), behind a refused or incomplete
one no prefix is (`NothingIsReply`), and an incomplete one has only good lines,
all continued, before the one that is not there yet (`IncompleteHas`).

*The table.*  `Shows(c, texts, n)` says what a table must hold after the first n
lines, by the positions of the lines; each line takes it on by one (`ShowsNext`,
from `Takes`, what one line changes), and the last one is CapsMatchReply
(`TextsByEnd` turns line numbers into the ends the property speaks of).  `Told`,
that the table is `Filled` from an empty one, is the invariant of the steps.  For
For fields that cut (`CutIsTold`), `Shows` has for each entry the line it is of.  For
SIZE, `SizeOf` is what the digits leave in `valid` and `value`: as long as valid, the
number read so far; once invalid, a number already too large, which more digits
never make smaller (`SizeOfIs`); and behind leading spaces there is only one longest run
of digits for `Announced` to find.

Recursive functions are reasoned about without an induction rule: `Recursion`
shows that a function with the recursive equations exists, and a claim about all
its values follows from the least counterexample (`LeastNatural`, from the
well-foundedness of `<`).

### The TLS engine

`TlsEngineProofs` proves, for any streams of any number of peers, any chunks and
any sizes of the buffers, and for both backends:

| theorem | states |
|---|---|
| `CertInvariant` | `CertVerdictTrue`, for chains of any length |
| `ReasonInvariant` | `FailsForAReason` |
| `WaitsInvariant` | `WaitsOnlyForThePeer` |
| `StreamInvariant` | `PlaintextIsTheStream` |
| `ZeroInvariant` | `ZeroMeansClosed` |

The argument.  There is a lemma per call that says what it may leave of an engine
(`OpenSslHandshakeDoes`, `SchannelDecryptDoes`, ...); `Effect` is what all calls
have in common, and `EffectKeeps` shows once that it preserves the invariant.
`CertVerdictTrue` is not inductive: OpenSSL's callback sets the verdict when the
context completes, and the handshake is done only calls later, when the output is
drained (`CertTold` covers the time between).  What the calls of the callback come to,
whichever certificate of the chain fails, is `VerifiedIs`: the conjunction of what
they were told, up to where it stopped.  `FailsForAReason` needs that what
is in the thread's error queue comes from a connection that failed and stays
failed (`QueueTold`, `InOrder`).  That whole records are used up needs a least
element of a set of naturals (`LastEndFound`).

`PlaintextIsTheStream` has an invariant of its own, `StreamInv`.  The data of a
stream is a recursive function of it (`DataOf`), which distributes over
concatenation (`Gathers`); every call moves data from the input to what is
decrypted, from there to the caller, or drops units that hold none (`Owes`).  That a
record is decrypted or kept as a whole needs the peer's records to be of one kind
each (`OneKindEach`, part of `TlsAssumption`: a TLS record has one content type), so
StreamInv carries it for what is still to come.  Nothing is claimed of an engine
that has failed, also while its alert is still being drained, nor after the close:
what is left of the input is dropped there.  For SChannel, StreamInv has that the buffer is never overrun and empty before
the handshake begins; for OpenSSL, that a successful read of nothing means the close,
which is `ZeroMeansClosed`.

### The log

`SmtpLogProofs` proves, for any number of threads, lines and calls of `init`,
`Durable` (`EmittedMeansOnDisk`) and `Usable` (`ReadyMeansUsable`).  Whoever writes
or flushes holds the mutex (`MutexHeld`), so the file and stdio's buffer are one
sequence `Whole` to which a step appends one line or from which it drops the
buffered end.  In it each thread's lines are in order (`InOrder`), no line is
there before it is written, and one that is written is in the buffer, on disk, or
its formatting or flush has failed (`LineKept`), also when an `abort()` loses the buffer.

### The validators

`ValidatorProofs` proves, for inputs of any length and any limits:

| theorem | states |
|---|---|
| `BodyCorrect` | `BodyMatchesGrammar` |
| `HeaderCorrect` | `HeaderMatchesGrammar` |
| `AddressCorrect` | `AddressMatchesGrammar`, the grammar being RFC 5321's with the five departures; the limits are related as the code's are (`MaxTotal <= MaxDomain + 2`) |

The argument is the same for each.  While a scan runs, what is behind it is in
order as far as the grammar can tell; at the end that is the grammar; each
failure points at something no reading of the grammar can mend.

For *bodies* that is: every line break paired, every window of the limit's length
broken, no forbidden byte, no lone dot (`PairedSoFar`, `FitsSoFar`,
`BodyBytesSoFar`, `NoDotSoFar`).

A *header value* also has encoded words, which the reference chooses as a set of
spans in the text, each good and none inside another, while the code takes
the first candidate from the left.  `WordsSoFar` says that the spans begun so far can
be put in order that way, `NoneAcross` that no choice of words whatever has one
across the scan's position; together a candidate that fails is a failure of every
choice.  `CandidateIsShaped` has that a position begins at most one span.

An *address* is read at two positions, the "@" and the end of the local part.
`AtomsSoFar`, `QuotedSoFar`, `LabelsSoFar` and `LiteralSoFar` say, per state of the
machines, what has been read and that the "@" already passed is the only one there
can be; in a quoted string, which bytes are escaped is determined from its
start.  The length counters are the distances the grammar limits.

### What is only model-checked

* Liveness (`EventuallyTerminal`, `BoundedRunReturns`, `StopEndsRun`): the prover
  handles neither fairness nor `ENABLED`.

Every other property of a passing run is a theorem.

The one RECURSIVE operator is in `MCTlsEngine` (it builds the peers' streams);
no module with a theorem reaches it.

## 5. Not modelled, and why

* The resolver: one blocking call of `getaddrinfo` without state of its own.
* `_create` failing half way and `_destroy`: straight-line allocation and
  release outside the loop.  The TLS context that leaks when the slot array cannot
  be allocated (`smtp_orchestrator.c:276`) was met by reading.
* Inside libssl, SSPI and the kernels: modelled from what the code relies on.
* Texts: the capability summary, error strings and offsets of the parsers and
  validators, log wording, timestamps, the hex dump, certificate names.  No
  property is about them, except that a logged text has no line break (`NoAbort`) and
  that a log line ends (`OneLinePerEvent`).
* `smtp_hdr_validate_encoded_word` called by anyone but the header validator.
* Spelling and case of EHLO keywords: a keyword is a word.

## 6. Plan

Done: every component but the resolver; the contracts between connection,
orchestrator and reactor as theorems; every invariant and action property of the
passing runs proved for all values of the constants.

Left, in order of what it would add:

1. The TLS engine as `SmtpConnection` assumes it (status codes and a number of
   records), refined by `TlsEngine`.
2. The reply as `SmtpConnection` assumes it (incomplete, unusable, complete),
   related to `ReplyRead` by theorem.
3. The lifecycle: `_create` failing at each allocation, `_destroy` after a stop.
