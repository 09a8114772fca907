--------------------------- MODULE TlsEngineProofs ---------------------------
(***************************************************************************)
(* Theorems about TlsEngine, for any peers' streams, any number of           *)
(* connections and any sizes of the buffers.  IInv carries the first three:  *)
(* the certificate verdict is true, a read fails only for a reason, and an   *)
(* engine waits only for the peer.  StreamInv, on top of it, carries what    *)
(* becomes of the data: it is handed out in order, whole and once.           *)
(***************************************************************************)
EXTENDS TlsEngine, SequenceTheorems, WellFoundedInduction, TLAPS

Fields == {"stream", "trust", "cert", "phase", "handshake_done", "validated", "inspected",
           "closed", "dry", "in", "out", "ready", "got", "call", "status", "n"}

\* An engine, as far as the theorems look at it.
Engine(t) ==
    /\ DOMAIN t = Fields
    /\ t.trust \in BOOLEAN /\ t.cert \in Certs
    /\ t.phase \in {"NEW", "WAITING", "COMPLETE", "FAILED"}
    /\ t.handshake_done \in BOOLEAN /\ t.validated \in BOOLEAN /\ t.inspected \in BOOLEAN
    /\ t.in \in Seq(Units) /\ t.out \in Nat
    /\ t.call \in {"NONE", "HANDSHAKE", "DECRYPT", "ENCRYPT", "SHUTDOWN"}
    /\ t.status \in {"NONE", "OK", "WANT_READ", "WANT_WRITE", "ERROR"}

Shape ==
    /\ backend \in {"OPENSSL", "SCHANNEL"}
    /\ DOMAIN tls = Conns /\ \A c \in Conns : Engine(tls[c])
    /\ DOMAIN left = Conns /\ \A c \in Conns : left[c] \in Seq(Units)
    /\ errors \in BOOLEAN

-----------------------------------------------------------------------------
(* Records in the input.                                                     *)

LEMMA LeastNatural ==
    ASSUME NEW T, T \subseteq Nat, T # {}
    PROVE  \E n \in T : \A m \in T : n <= m
<1>. DEFINE R == {p \in Nat \X Nat : p[1] < p[2]}
<1>1. IsWellFoundedOn(R, Nat)
  BY NatLessThanWellFounded DEF OpToRel
<1>2. PICK n \in T : \A m \in T : ~ (<<m, n>> \in R)
  BY <1>1, WFMin
<1>3. \A m, k \in Nat : <<m, k>> \in R <=> m < k
  OBVIOUS
<1>4. \A m \in T : ~ (m < n)
  BY <1>2, <1>3
<1>. QED  BY <1>4

LEMMA Sized == ASSUME NEW s \in Seq(Units) PROVE Len(s) \in Nat
  OBVIOUS

LEMMA AfterIsInput ==
    ASSUME NEW in \in Seq(Units), NEW i \in 0..Len(in)
    PROVE  /\ After(in, i) \in Seq(Units) /\ Len(After(in, i)) = Len(in) - i
           /\ \A j \in 1..(Len(in) - i) : After(in, i)[j] = in[j + i]
  BY DEF After

LEMMA FirstEndFound ==
    ASSUME NEW in \in Seq(Units), NEW skip
    PROVE  FirstEnd(in, skip) \in 0..Len(in)
<1>. DEFINE T == {i \in Ends(in) : in[i].kind \notin skip}
<1>1. T \subseteq Nat /\ Ends(in) \subseteq 1..Len(in)
  BY DEF Ends
<1>2. CASE T = {}
  BY <1>2, Sized DEF FirstEnd
<1>3. CASE T # {}
  <2>1. PICK i \in T : \A j \in T : i <= j
    BY <1>1, <1>3, LeastNatural
  <2>2. \A j \in Ends(in) : j < i => in[j].kind \in skip
    BY <1>1, <2>1
  <2>3. FirstEnd(in, skip) \in Ends(in)
    BY <1>3, <2>1, <2>2 DEF FirstEnd
  <2>. QED  BY <1>1, <2>3
<1>. QED  BY <1>2, <1>3

\* Behind the last end there is no whole record.
LEMMA LastEndFound ==
    ASSUME NEW in \in Seq(Units)
    PROVE  LastEnd(in) \in 0..Len(in) /\ Ends(After(in, LastEnd(in))) = {}
<1>. DEFINE T == {Len(in) - i : i \in Ends(in)}
<1>1. Ends(in) \subseteq 1..Len(in) /\ Len(in) \in Nat /\ T \subseteq Nat
  BY DEF Ends
<1>2. CASE Ends(in) = {}
  <2>1. LastEnd(in) = 0
    BY <1>2 DEF LastEnd
  <2>2. Len(After(in, 0)) = Len(in) /\ \A j \in 1..Len(in) : After(in, 0)[j] = in[j]
    BY <1>1, AfterIsInput
  <2>. QED  BY <1>1, <1>2, <2>1, <2>2 DEF Ends
<1>3. CASE Ends(in) # {}
  <2>1. PICK m \in T : \A k \in T : m <= k
    BY <1>1, <1>3, LeastNatural
  <2>2. PICK i \in Ends(in) : m = Len(in) - i
    BY <2>1
  <2>3. ASSUME NEW j \in Ends(in) PROVE j <= i
    <3>1. Len(in) - j \in T
      OBVIOUS
    <3>2. m <= Len(in) - j
      BY <2>1, <3>1
    <3>. QED  BY <1>1, <2>2, <3>2
  <2>4. LastEnd(in) \in Ends(in) /\ \A j \in Ends(in) : j <= LastEnd(in)
    BY <1>3, <2>2, <2>3 DEF LastEnd
  <2>. DEFINE l == LastEnd(in)
  <2>5. l \in 0..Len(in) /\ \A j \in Ends(in) : j <= l
    BY <1>1, <2>4
  <2>. HIDE DEF l
  <2>6. /\ Len(After(in, l)) = Len(in) - l
        /\ \A j \in 1..(Len(in) - l) : After(in, l)[j] = in[j + l]
    BY <2>5, AfterIsInput
  <2>7. \A j \in 1..(Len(in) - l) : ~in[j + l].last
    BY <1>1, <2>5 DEF Ends
  <2>8. Ends(After(in, l)) = {}
    BY <1>1, <2>6, <2>7 DEF Ends
  <2>. QED  BY <2>5, <2>8 DEF l
<1>. QED  BY <1>2, <1>3

LEMMA FedIsEngine ==
    ASSUME NEW t, Engine(t), NEW chunk \in Seq(Units)
    PROVE  /\ Engine(Feed(t, chunk)) /\ Feed(t, chunk).in = t.in \o chunk
           /\ \A f \in Fields \ {"in"} : Feed(t, chunk)[f] = t[f]
<1>1. t.in \o chunk \in Seq(Units)
  BY DEF Engine
<1>. QED  BY <1>1 DEF Engine, Feed, Fields

-----------------------------------------------------------------------------
(* The verdict on a certificate.                                             *)

\* The callback has been told of no failure.
AllTold(t) == \A i \in 1..Len(Verdicts(t)) : Verdicts(t)[i]

LEMMA VerdictsTell ==
    ASSUME NEW t, Engine(t)
    PROVE  /\ Verdicts(t) \in Seq(BOOLEAN)
           /\ t.trust \/ Good(t.cert) => (AllTold(t) <=> ChainGood(t.cert))
           /\ ~t.trust => (AllTold(t) <=> Good(t.cert))
<1>1. /\ t.cert.chain \in Seq(BOOLEAN) /\ t.cert.host \in BOOLEAN /\ t.trust \in BOOLEAN
      /\ DOMAIN t.cert.chain = 1..Len(t.cert.chain)
  BY DEF Engine, Certs
<1>2. CASE t.trust \/ t.cert.host
  <2>1. Verdicts(t) = t.cert.chain
    BY <1>2 DEF Verdicts
  <2>2. AllTold(t) <=> ChainGood(t.cert)
    BY <1>1, <2>1 DEF AllTold, ChainGood
  <2>. QED  BY <1>1, <1>2, <2>1, <2>2 DEF Good
<1>3. CASE ~t.trust /\ ~t.cert.host
  <2>. DEFINE x == <<FALSE>> \o t.cert.chain
  <2>1. Verdicts(t) = x
    BY <1>3 DEF Verdicts
  <2>2. x \in Seq(BOOLEAN) /\ 1 \in 1..Len(x) /\ x[1] = FALSE
    <3>1. <<FALSE>> \in Seq(BOOLEAN) /\ Len(<<FALSE>>) = 1 /\ <<FALSE>>[1] = FALSE
      OBVIOUS
    <3>2. Len(t.cert.chain) \in Nat
      BY <1>1
    <3>. QED  BY <1>1, <3>1, <3>2
  <2>. HIDE DEF x
  <2>. QED  BY <1>3, <2>1, <2>2 DEF AllTold, Good
<1>. QED  BY <1>1, <1>2, <1>3

\* Call by call the callback keeps the first failure, and outside trust mode stops
\* at it: what is left is whether there was any.
LEMMA VerifiedIs ==
    ASSUME NEW t, Engine(t)
    PROVE  Verified(t) = [validated |-> t.validated /\ AllTold(t), ok |-> t.trust \/ AllTold(t)]
<1>. DEFINE told == Verdicts(t)
            n == Len(told)
            Body(g) == [i \in 0..n |->
                IF i = 0 THEN [validated |-> t.validated, ok |-> TRUE]
                ELSE IF ~g[i - 1].ok THEN g[i - 1]
                ELSE VerifyCallback(t.trust, g[i - 1].validated, told[i])]
            c == CHOOSE g : g = Body(g)
            UpTo(i) == \A j \in 1..i : told[j]
            d == [i \in 0..n |-> [validated |-> t.validated /\ UpTo(i), ok |-> t.trust \/ UpTo(i)]]
<1>1. /\ told \in Seq(BOOLEAN) /\ n \in Nat /\ t.trust \in BOOLEAN /\ t.validated \in BOOLEAN
      /\ \A i \in 1..n : told[i] \in BOOLEAN
  BY VerdictsTell DEF Engine
<1>2. Verified(t) = c[n]
  BY DEF Verified
<1>3. AllTold(t) = UpTo(n)
  BY DEF AllTold
<1>. HIDE DEF told, n
<1>4. ASSUME NEW i \in 0..n
      PROVE  d[i] = IF i = 0 THEN [validated |-> t.validated, ok |-> TRUE]
                    ELSE IF ~d[i - 1].ok THEN d[i - 1]
                    ELSE VerifyCallback(t.trust, d[i - 1].validated, told[i])
  <2>1. CASE i = 0
    <3>1. UpTo(0) = TRUE /\ 0 \in 0..n
      BY <1>1
    <3>. QED  BY <1>1, <2>1, <3>1
  <2>2. CASE i # 0
    <3>1. i \in 1..n /\ i - 1 \in 0..n /\ \A j \in 1..i : j \in 1..(i - 1) \/ j = i
      BY <1>1, <2>2
    <3>2. (\A j \in 1..(i - 1) : j \in 1..i) /\ i \in 1..i
      BY <1>1, <3>1
    <3>3. UpTo(i) = (UpTo(i - 1) /\ told[i])
      BY <1>1, <3>1, <3>2
    <3>4. UpTo(i - 1) \in BOOLEAN /\ told[i] \in BOOLEAN
      BY <1>1, <3>1
    <3>5. /\ d[i - 1] = [validated |-> t.validated /\ UpTo(i - 1), ok |-> t.trust \/ UpTo(i - 1)]
          /\ d[i] = [validated |-> t.validated /\ UpTo(i), ok |-> t.trust \/ UpTo(i)]
      BY <3>1
    <3>. DEFINE a == UpTo(i - 1)
                b == UpTo(i)
                f == d[i - 1]
                e == d[i]
    <3>. HIDE DEF a, b, d, f, e, UpTo
    <3>6. /\ b = (a /\ told[i]) /\ a \in BOOLEAN
          /\ f = [validated |-> t.validated /\ a, ok |-> t.trust \/ a]
          /\ e = [validated |-> t.validated /\ b, ok |-> t.trust \/ b]
      BY <3>3, <3>4, <3>5 DEF a, b, f, e
    <3>7. e = IF ~f.ok THEN f ELSE VerifyCallback(t.trust, f.validated, told[i])
      BY <1>1, <3>4, <3>6 DEF VerifyCallback
    <3>. QED  BY <2>2, <3>7 DEF f, e
  <2>. QED  BY <2>1, <2>2
<1>5. d = Body(d)
  <2>1. d = [i \in 0..n |-> d[i]]
    OBVIOUS
  <2>. HIDE DEF d
  <2>2. [i \in 0..n |-> d[i]] = Body(d)
    BY <1>4
  <2>. QED  BY <2>1, <2>2
<1>6. c = Body(c)
  <2>. HIDE DEF d
  <2>. QED  BY <1>5
<1>. DEFINE T == {i \in 0..n : c[i] # d[i]}
<1>. HIDE DEF c, d
<1>7. \A i \in 0..n : c[i] = IF i = 0 THEN [validated |-> t.validated, ok |-> TRUE]
                              ELSE IF ~c[i - 1].ok THEN c[i - 1]
                              ELSE VerifyCallback(t.trust, c[i - 1].validated, told[i])
  <2>. DEFINE b == Body(c)
  <2>1. \A i \in 0..n : b[i] = IF i = 0 THEN [validated |-> t.validated, ok |-> TRUE]
                                ELSE IF ~c[i - 1].ok THEN c[i - 1]
                                ELSE VerifyCallback(t.trust, c[i - 1].validated, told[i])
    OBVIOUS
  <2>2. c = b
    BY <1>6
  <2>. HIDE DEF b
  <2>. QED  BY <2>1, <2>2
<1>8. T = {}
  <2>1. SUFFICES ASSUME T # {} PROVE FALSE
    OBVIOUS
  <2>2. T \subseteq Nat
    OBVIOUS
  <2>3. PICK i \in T : \A j \in T : i <= j
    BY <2>1, <2>2, LeastNatural
  <2>4. i \in 0..n /\ i # 0
    BY <1>1, <1>4, <1>7, <2>3
  <2>5. i - 1 \in 0..n /\ ~(i <= i - 1)
    BY <1>1, <2>4
  <2>6. c[i - 1] = d[i - 1]
    BY <2>3, <2>5
  <2>7. c[i] = d[i]
    BY <1>4, <1>7, <2>4, <2>6
  <2>. QED  BY <2>3, <2>7
<1>9. n \in 0..n /\ c[n] = d[n]
  BY <1>1, <1>8
<1>. QED  BY <1>2, <1>3, <1>9 DEF d

LEMMA VerifiedDoes ==
    ASSUME NEW t, Engine(t)
    PROVE  /\ Verified(t).ok \in BOOLEAN /\ Verified(t).validated \in BOOLEAN
           /\ Verified(t).ok = (t.trust \/ Good(t.cert))
           /\ Verified(t).ok => Verified(t).validated = (t.validated /\ ChainGood(t.cert))
<1>1. /\ t.trust \in BOOLEAN /\ t.validated \in BOOLEAN
      /\ AllTold(t) \in BOOLEAN /\ Good(t.cert) \in BOOLEAN /\ ChainGood(t.cert) \in BOOLEAN
  BY DEF Engine, Certs, AllTold, Good, ChainGood
<1>2. PICK r : /\ r = Verified(t)
               /\ r.validated = (t.validated /\ AllTold(t)) /\ r.ok = (t.trust \/ AllTold(t))
  BY VerifiedIs
<1>3. /\ t.trust \/ Good(t.cert) => (AllTold(t) <=> ChainGood(t.cert))
      /\ ~t.trust => (AllTold(t) <=> Good(t.cert))
  BY VerdictsTell
<1>. QED  BY <1>1, <1>2, <1>3

-----------------------------------------------------------------------------
(* What the calls do to an engine.                                           *)

\* What no call changes.
SameGiven(t, u) == u.trust = t.trust /\ u.cert = t.cert /\ u.call = t.call

\* What a handshake leaves that completes the context.
Admits(t, u) ==
    /\ t.trust \/ Good(t.cert)
    /\ u.inspected /\ u.validated = (t.validated /\ ChainGood(t.cert))

\* When the verdict is given: as the context is completed, and only then.
Judged(t, u) ==
    /\ u.phase = "COMPLETE" =>
          \/ t.phase = "COMPLETE" /\ u.validated = t.validated /\ u.inspected = t.inspected
          \/ t.phase = "WAITING" /\ Admits(t, u)
    /\ u.phase \in {"NEW", "WAITING"} =>
          t.phase \in {"NEW", "WAITING"} /\ u.validated = t.validated

LEMMA SslHandshakeDoes ==
    ASSUME NEW t, Engine(t)
    PROVE  LET u == SslHandshake(t) IN
           /\ Engine(u) /\ SameGiven(t, u) /\ u.handshake_done = t.handshake_done
           /\ u.phase # "NEW"
           /\ Judged(t, u)
           /\ t.phase = "FAILED" => u.phase = "FAILED"
           /\ u.phase = "WAITING" /\ u.out = 0 => Ends(u.in) = {}
<1>. DEFINE i == FirstEnd(t.in, {"MID"})
            past == IF i = 0 THEN LastEnd(t.in) ELSE i
            rest == [t EXCEPT !.in = After(@, past)]
            kind == t.in[i].kind
<1>0. Output.NEW \in Nat \ {0} /\ Output.FLIGHT \in Nat \ {0} /\ Output.FINOUT \in Nat \ {0}
  BY TlsAssumption
<1>1. past \in 0..Len(t.in) /\ i \in 0..Len(t.in)
  BY FirstEndFound, LastEndFound DEF Engine
<1>2. /\ Engine(rest) /\ SameGiven(t, rest)
      /\ \A f \in Fields \ {"in"} : rest[f] = t[f]
      /\ i = 0 => Ends(rest.in) = {}
  BY <1>1, AfterIsInput, LastEndFound DEF Engine, SameGiven, Fields
<1>3. SslHandshake(t) =
        CASE t.phase = "NEW" -> [t EXCEPT !.phase = "WAITING", !.out = @ + Output.NEW]
          [] t.phase # "NEW" /\ t.phase # "WAITING" -> t
          [] t.phase = "WAITING" /\ i = 0 -> rest
          [] t.phase = "WAITING" /\ i # 0 /\ kind = "FLIGHT" -> [rest EXCEPT !.out = @ + Output.FLIGHT]
          [] t.phase = "WAITING" /\ i # 0 /\ kind \in {"FIN", "FINOUT"} /\ Verified(t).ok ->
                [Verify(rest) EXCEPT !.phase = "COMPLETE", !.dry = FALSE,
                                     !.out = IF kind = "FIN" THEN @ ELSE @ + Output.FINOUT]
          [] OTHER -> [Verify(rest) EXCEPT !.phase = "FAILED", !.out = @ + 1]
  BY DEF SslHandshake
<1>. HIDE DEF i, past, rest, kind
<1>4. CASE t.phase = "NEW"
  <2>1. SslHandshake(t) = [t EXCEPT !.phase = "WAITING", !.out = @ + Output.NEW]
    BY <1>3, <1>4
  <2>. QED  BY <1>0, <1>4, <2>1 DEF Engine, SameGiven, Fields, Judged
<1>5. CASE t.phase # "NEW" /\ t.phase # "WAITING"
  <2>1. SslHandshake(t) = t
    BY <1>3, <1>5
  <2>. QED  BY <1>5, <2>1 DEF Engine, SameGiven, Judged
<1>6. CASE t.phase = "WAITING" /\ i = 0
  <2>1. SslHandshake(t) = rest
    BY <1>3, <1>6
  <2>. QED  BY <1>2, <1>6, <2>1 DEF Fields, Judged
<1>7. CASE t.phase = "WAITING" /\ i # 0 /\ kind = "FLIGHT"
  <2>1. SslHandshake(t) = [rest EXCEPT !.out = @ + Output.FLIGHT]
    BY <1>3, <1>7
  <2>. QED  BY <1>0, <1>2, <1>7, <2>1 DEF Engine, SameGiven, Fields, Judged
<1>10. /\ Verified(t).ok = (t.trust \/ Good(t.cert))
       /\ Verified(rest).ok = (rest.trust \/ Good(rest.cert))
       /\ Verified(rest).ok \in BOOLEAN /\ Verified(rest).validated \in BOOLEAN
       /\ Verified(rest).ok =>
            Verified(rest).validated = (rest.validated /\ ChainGood(rest.cert))
       /\ rest.trust = t.trust /\ rest.cert = t.cert /\ rest.validated = t.validated
       /\ t.trust \in BOOLEAN /\ t.validated \in BOOLEAN /\ rest.handshake_done = t.handshake_done
       /\ rest.phase = t.phase
  BY <1>2, VerifiedDoes DEF Engine, Fields
<1>11. PICK r : /\ r = Verified(rest) /\ Verify(rest) = [rest EXCEPT !.validated = r.validated,
                                                                  !.inspected = r.ok]
  BY DEF Verify
<1>8. CASE t.phase = "WAITING" /\ i # 0 /\ kind \in {"FIN", "FINOUT"} /\ Verified(t).ok
  <2>1. SslHandshake(t) =
            [Verify(rest) EXCEPT !.phase = "COMPLETE", !.dry = FALSE,
                                 !.out = IF kind = "FIN" THEN @ ELSE @ + Output.FINOUT]
    BY <1>3, <1>8
  <2>2. r.ok /\ r.validated \in BOOLEAN /\ r.validated = (t.validated /\ ChainGood(t.cert))
    BY <1>8, <1>10, <1>11
  <2>3. PICK out \in Nat : SslHandshake(t) =
            [rest EXCEPT !.validated = r.validated, !.inspected = r.ok,
                         !.phase = "COMPLETE", !.dry = FALSE, !.out = out]
    <3>1. PICK w : w = Verify(rest)
      OBVIOUS
    <3>2. w = [rest EXCEPT !.validated = r.validated, !.inspected = r.ok] /\ w.out = rest.out
      BY <1>2, <1>11, <3>1 DEF Engine, Fields
    <3>3. \E out \in Nat : SslHandshake(t) = [w EXCEPT !.phase = "COMPLETE", !.dry = FALSE, !.out = out]
      <4>1. rest.out \in Nat /\ rest.out + Output.FINOUT \in Nat
        BY <1>0, <1>2 DEF Engine
      <4>2. CASE kind = "FIN"
        BY <2>1, <3>1, <3>2, <4>1, <4>2
      <4>3. CASE kind # "FIN"
        BY <2>1, <3>1, <3>2, <4>1, <4>3
      <4>. QED  BY <4>2, <4>3
    <3>. QED  BY <3>2, <3>3
  <2>4. /\ Engine(SslHandshake(t)) /\ SameGiven(rest, SslHandshake(t))
        /\ SslHandshake(t).validated = r.validated /\ SslHandshake(t).inspected = r.ok
        /\ SslHandshake(t).phase = "COMPLETE" /\ SslHandshake(t).handshake_done = rest.handshake_done
    BY <1>2, <2>2, <2>3 DEF Engine, SameGiven, Fields
  <2>5. Admits(t, SslHandshake(t))
    BY <1>8, <1>10, <2>2, <2>4 DEF Admits
  <2>. QED  BY <1>2, <1>8, <1>10, <2>4, <2>5 DEF Judged, SameGiven
<1>9. CASE /\ t.phase = "WAITING" /\ i # 0
           /\ kind # "FLIGHT"
           /\ kind \in {"FIN", "FINOUT"} => ~Verified(t).ok
  <2>1. /\ ~(t.phase = "NEW") /\ ~(t.phase # "NEW" /\ t.phase # "WAITING")
        /\ ~(t.phase = "WAITING" /\ i = 0)
        /\ ~(t.phase = "WAITING" /\ i # 0 /\ kind = "FLIGHT")
        /\ ~(t.phase = "WAITING" /\ i # 0 /\ kind \in {"FIN", "FINOUT"} /\ Verified(t).ok)
    BY <1>9
  <2>2. SslHandshake(t) = [Verify(rest) EXCEPT !.phase = "FAILED", !.out = @ + 1]
    BY ONLY <1>3, <2>1
  <2>3. SslHandshake(t) = [rest EXCEPT !.validated = r.validated, !.inspected = r.ok,
                                       !.phase = "FAILED", !.out = @ + 1]
    BY <1>2, <1>11, <2>2 DEF Engine, Fields
  <2>. QED  BY <1>2, <1>9, <1>10, <1>11, <2>3 DEF Engine, SameGiven, Fields, Judged
<1>. QED  BY <1>4, <1>5, <1>6, <1>7, <1>8, <1>9 DEF Engine

\* One handshake step of OpenSSL.
LEMMA OpenSslHandshakeDoes ==
    ASSUME NEW t, Engine(t), NEW chunk \in Seq(Units)
    PROVE  LET u == OpenSslHandshake(t, chunk) IN
           /\ Engine(u) /\ SameGiven(t, u)
           /\ t.phase = "FAILED" => u.phase = "FAILED"
           /\ u.handshake_done => t.handshake_done \/ (u.phase = "COMPLETE" /\ u.status = "OK")
           /\ t.handshake_done => u.handshake_done
           /\ Judged(t, u)
           /\ u.status \in {"OK", "WANT_READ"} => u.out = 0
           /\ u.status = "WANT_READ" => Ends(u.in) = {}
<1>. DEFINE v == SslHandshake(Feed(t, chunk))
            u == OpenSslHandshake(t, chunk)
<1>1. CASE ~BioFits(t, chunk)
  <2>1. u = [t EXCEPT !.status = "ERROR"]
    BY <1>1 DEF OpenSslHandshake, Status
  <2>. QED  BY <2>1 DEF Engine, SameGiven, Fields, Judged
<1>2. CASE BioFits(t, chunk)
  <2>1. u = SslHandshakeStatus(v)
    BY <1>2 DEF OpenSslHandshake
  <2>2. /\ Engine(v) /\ SameGiven(t, v) /\ v.handshake_done = t.handshake_done
        /\ v.phase # "NEW"
        /\ Judged(t, v)
        /\ t.phase = "FAILED" => v.phase = "FAILED"
        /\ v.phase = "WAITING" /\ v.out = 0 => Ends(v.in) = {}
    <3>1. /\ Engine(Feed(t, chunk))
          /\ \A f \in Fields \ {"in"} : Feed(t, chunk)[f] = t[f]
      BY FedIsEngine
    <3>2. LET w == Feed(t, chunk) IN
          /\ w.trust = t.trust /\ w.cert = t.cert /\ w.call = t.call /\ w.phase = t.phase
          /\ w.handshake_done = t.handshake_done /\ w.validated = t.validated
          /\ w.inspected = t.inspected
      BY <3>1 DEF Fields
    <3>3. PICK w : w = Feed(t, chunk)
      OBVIOUS
    <3>4. Engine(w) /\ v = SslHandshake(w)
      BY <3>1, <3>3
    <3>5. /\ w.trust = t.trust /\ w.cert = t.cert /\ w.call = t.call /\ w.phase = t.phase
          /\ w.handshake_done = t.handshake_done /\ w.validated = t.validated
          /\ w.inspected = t.inspected
      BY <3>2, <3>3
    <3>. HIDE DEF v
    <3>6. /\ Engine(v) /\ SameGiven(w, v) /\ v.handshake_done = w.handshake_done
          /\ v.phase # "NEW"
          /\ Judged(w, v)
          /\ w.phase = "FAILED" => v.phase = "FAILED"
          /\ v.phase = "WAITING" /\ v.out = 0 => Ends(v.in) = {}
      BY <3>4, SslHandshakeDoes
    <3>7. Admits(w, v) = Admits(t, v)
      BY <3>5 DEF Admits
    <3>8. SameGiven(t, v) /\ Judged(t, v)
      BY <3>5, <3>6, <3>7 DEF SameGiven, Judged
    <3>. QED  BY <3>5, <3>6, <3>8
  <2>. HIDE DEF v, u
  <2>3. OutSize \in Nat \ {0}
    BY TlsAssumption
  <2>4. CASE v.out > 0
    <3>1. u = Drain(v)
      BY <2>1, <2>2, <2>4 DEF SslHandshakeStatus, Engine
    <3>. QED  BY <2>2, <2>3, <2>4, <3>1 DEF Drain, Smaller, Engine, SameGiven, Fields, Judged, Admits, u
  <2>5. CASE v.out = 0 /\ v.phase = "COMPLETE"
    <3>1. u = [v EXCEPT !.status = "OK", !.handshake_done = TRUE]
      BY <2>1, <2>2, <2>5 DEF SslHandshakeStatus, Status, Engine, Fields
    <3>. QED  BY <2>2, <2>5, <3>1 DEF Engine, SameGiven, Fields, Judged, Admits, u
  <2>6. CASE v.out = 0 /\ v.phase = "FAILED"
    <3>1. u = [v EXCEPT !.status = "ERROR"]
      BY <2>1, <2>6 DEF SslHandshakeStatus, Status
    <3>. QED  BY <2>2, <2>6, <3>1 DEF Engine, SameGiven, Fields, Judged, Admits, u
  <2>7. CASE v.out = 0 /\ v.phase = "WAITING"
    <3>1. u = [v EXCEPT !.status = "WANT_READ"]
      BY <2>1, <2>7 DEF SslHandshakeStatus, Status
    <3>. QED  BY <2>2, <2>7, <3>1 DEF Engine, SameGiven, Fields, Judged, Admits, u
  <2>. QED  BY <2>2, <2>4, <2>5, <2>6, <2>7 DEF Engine
<1>. QED  BY <1>1, <1>2

\* What decrypting may do: a record, nothing, or a failure.
Decrypted(t, u) ==
    /\ Engine(u) /\ SameGiven(t, u)
    /\ u.handshake_done = t.handshake_done /\ u.validated = t.validated
    /\ u.inspected = t.inspected
    /\ u.phase = t.phase \/ (u.phase = "FAILED" /\ u.status = "ERROR")

\* One read of OpenSSL.
LEMMA SslReadDoes ==
    ASSUME NEW t, Engine(t), NEW room
    PROVE  LET u == SslRead(t, room) IN
           /\ Decrypted(t, u)
           /\ u.status = "ERROR" => u.phase = "FAILED" \/ errors
           /\ u.status = "WANT_READ" => Ends(u.in) = {}
<1>. DEFINE i == FirstEnd(t.in, Skipped)
            past == IF i = 0 THEN LastEnd(t.in) ELSE i
            rest == [t EXCEPT !.in = After(@, past), !.out = @ + KeyUpdates(t.in, past),
                              !.dry = FALSE]
            kind == t.in[i].kind
            plain == DataOf(SubSeq(t.in, 1, i))
<1>1. past \in 0..Len(t.in) /\ i \in 0..Len(t.in) /\ KeyUpdates(t.in, past) \in {0, 1}
  BY FirstEndFound, LastEndFound DEF Engine, KeyUpdates
<1>2. /\ Engine(rest) /\ SameGiven(t, rest)
      /\ rest.phase = t.phase /\ rest.handshake_done = t.handshake_done
      /\ rest.validated = t.validated /\ rest.inspected = t.inspected
      /\ i = 0 => Ends(rest.in) = {}
  <2>1. After(t.in, past) \in Seq(Units) /\ (i = 0 => Ends(After(t.in, past)) = {})
    BY <1>1, AfterIsInput, LastEndFound DEF Engine
  <2>2. t.out + KeyUpdates(t.in, past) \in Nat
    BY <1>1 DEF Engine
  <2>. HIDE DEF i, past
  <2>. QED  BY <2>1, <2>2 DEF Engine, SameGiven, Fields
<1>3. SslRead(t, room) =
        CASE t.ready # <<>> -> Fetch(t, room)
          [] t.ready = <<>> /\ i # 0 /\ kind = "DATA" -> Fetch([rest EXCEPT !.ready = plain], room)
          [] t.ready = <<>> /\ i = 0 -> [Status(rest, NothingYet) EXCEPT !.dry = TRUE]
          [] t.ready = <<>> /\ i # 0 /\ kind = "CLOSE" ->
                [Status(rest, IF errors THEN "ERROR" ELSE "OK") EXCEPT !.closed = TRUE]
          [] OTHER -> [Status(rest, "ERROR") EXCEPT !.phase = "FAILED"]
  BY DEF SslRead
<1>. HIDE DEF i, past, rest, kind, plain
<1>4. CASE t.ready # <<>>
  <2>1. SslRead(t, room) = Fetch(t, room)
    BY <1>3, <1>4
  <2>. QED  BY <2>1 DEF Fetch, Decrypted, Engine, SameGiven, Fields
<1>5. CASE t.ready = <<>> /\ i # 0 /\ kind = "DATA"
  <2>1. SslRead(t, room) = Fetch([rest EXCEPT !.ready = plain], room)
    BY <1>3, <1>5
  <2>. QED  BY <1>2, <2>1 DEF Fetch, Decrypted, Engine, SameGiven, Fields
<1>6. CASE t.ready = <<>> /\ i = 0
  <2>1. SslRead(t, room) = [rest EXCEPT !.status = IF errors THEN "ERROR" ELSE "WANT_READ",
                                        !.dry = TRUE]
    BY <1>3, <1>6 DEF Status, NothingYet
  <2>. QED  BY <1>2, <1>6, <2>1 DEF Decrypted, Engine, SameGiven, Fields
<1>7. CASE t.ready = <<>> /\ i # 0 /\ kind = "CLOSE"
  <2>1. SslRead(t, room) =
            [rest EXCEPT !.status = IF errors THEN "ERROR" ELSE "OK", !.closed = TRUE]
    BY <1>3, <1>7 DEF Status
  <2>. QED  BY <1>2, <2>1 DEF Decrypted, Engine, SameGiven, Fields
<1>8. CASE t.ready = <<>> /\ i # 0 /\ kind \notin {"DATA", "CLOSE"}
  <2>1. SslRead(t, room) = [rest EXCEPT !.status = "ERROR", !.phase = "FAILED"]
    BY <1>3, <1>8 DEF Status
  <2>. QED  BY <1>2, <2>1 DEF Decrypted, Engine, SameGiven, Fields
<1>. QED  BY <1>4, <1>5, <1>6, <1>7, <1>8

LEMMA OpenSslDecryptDoes ==
    ASSUME NEW t, Engine(t), NEW chunk \in Seq(Units), Len(chunk) <= MaxChunk, NEW room
    PROVE  LET u == OpenSslDecrypt(t, chunk, room) IN
           /\ Decrypted(t, u)
           /\ u.status = "ERROR" =>
                u.phase = "FAILED" \/ Len(u.in) + MaxChunk > BufSize \/ errors
           /\ u.status = "WANT_READ" => Ends(u.in) = {}
<1>1. CASE ~BioFits(t, chunk)
  <2>1. Len(t.in) + MaxChunk > BufSize
    <3>1. /\ Len(t.in) \in Nat /\ Len(chunk) \in Nat /\ MaxChunk \in Nat /\ BufSize \in Nat
          /\ InBio(t) \in {0, Len(t.in)}
      BY TlsAssumption, Sized DEF Engine, InBio
    <3>2. InBio(t) + Len(chunk) > BufSize
      BY <1>1, <3>1 DEF BioFits
    <3>. QED  BY <3>1, <3>2
  <2>2. OpenSslDecrypt(t, chunk, room) = [t EXCEPT !.status = "ERROR"]
    BY <1>1 DEF OpenSslDecrypt, Status
  <2>. QED  BY <2>1, <2>2 DEF Decrypted, Engine, SameGiven, Fields
<1>2. CASE BioFits(t, chunk)
  <2>1. OpenSslDecrypt(t, chunk, room) = SslRead(Feed(t, chunk), room)
    BY <1>2 DEF OpenSslDecrypt
  <2>. DEFINE w == Feed(t, chunk)
              u == SslRead(w, room)
  <2>2. Engine(w) /\ \A f \in Fields \ {"in"} : w[f] = t[f]
    BY FedIsEngine
  <2>3. /\ w.trust = t.trust /\ w.cert = t.cert /\ w.call = t.call /\ w.phase = t.phase
        /\ w.handshake_done = t.handshake_done /\ w.validated = t.validated
        /\ w.inspected = t.inspected
    BY <2>2 DEF Fields
  <2>4. /\ Decrypted(w, u)
        /\ u.status = "ERROR" => u.phase = "FAILED" \/ errors
        /\ u.status = "WANT_READ" => Ends(u.in) = {}
    BY <2>2, SslReadDoes
  <2>. HIDE DEF w, u
  <2>5. Decrypted(t, u)
    BY <2>3, <2>4 DEF Decrypted, SameGiven
  <2>. QED  BY <2>1, <2>4, <2>5 DEF u, w
<1>. QED  BY <1>1, <1>2

\* One read of SChannel.
LEMMA SchannelDecryptDoes ==
    ASSUME NEW t, Engine(t), NEW chunk \in Seq(Units), Len(chunk) <= MaxChunk, NEW room
    PROVE  LET u == SchannelDecrypt(t, chunk, room) IN
           /\ Decrypted(t, u) /\ u.out = t.out
           /\ u.status = "ERROR" => u.phase = "FAILED" \/ Len(u.in) + MaxChunk > BufSize
<1>1. CASE ~AccumFits(t, chunk)
  <2>1. Len(t.in) + MaxChunk > BufSize
    <3>1. Len(t.in) \in Nat /\ Len(chunk) \in Nat /\ MaxChunk \in Nat /\ BufSize \in Nat
      BY TlsAssumption, Sized DEF Engine
    <3>. QED  BY <1>1, <3>1 DEF AccumFits
  <2>2. SchannelDecrypt(t, chunk, room) = [t EXCEPT !.status = "ERROR"]
    BY <1>1 DEF SchannelDecrypt, Status
  <2>. QED  BY <2>1, <2>2 DEF Decrypted, Engine, SameGiven, Fields
<1>2. CASE AccumFits(t, chunk)
  <2>. DEFINE w == Feed(t, chunk)
              u == OneRecord(w, room)
              i == FirstEnd(w.in, {})
              rest == [w EXCEPT !.in = After(@, i)]
              kind == w.in[i].kind
  <2>1. SchannelDecrypt(t, chunk, room) = u
    BY <1>2 DEF SchannelDecrypt
  <2>2. Engine(w) /\ \A f \in Fields \ {"in"} : w[f] = t[f]
    BY FedIsEngine
  <2>3. /\ w.trust = t.trust /\ w.cert = t.cert /\ w.call = t.call /\ w.phase = t.phase
        /\ w.handshake_done = t.handshake_done /\ w.validated = t.validated /\ w.out = t.out
        /\ w.inspected = t.inspected
    BY <2>2 DEF Fields
  <2>4. i \in 0..Len(w.in)
    BY <2>2, FirstEndFound DEF Engine
  <2>5. /\ Engine(rest) /\ SameGiven(t, rest)
        /\ rest.phase = t.phase /\ rest.handshake_done = t.handshake_done
        /\ rest.validated = t.validated /\ rest.out = t.out /\ rest.inspected = t.inspected
    BY <2>2, <2>3, <2>4, AfterIsInput DEF Engine, SameGiven, Fields
  <2>6. u = CASE i = 0 -> Status(w, "WANT_READ")
              [] i # 0 /\ kind = "CLOSE" -> [Status(w, "OK") EXCEPT !.in = <<>>, !.closed = TRUE]
              [] i # 0 /\ kind \in {"TICKET", "KEYUPDATE", "EMPTY"} -> Status(rest, "OK")
              [] i # 0 /\ kind = "DATA" /\ i <= room ->
                    [Status(rest, "OK") EXCEPT !.got = @ \o SubSeq(w.in, 1, i), !.n = i]
              [] OTHER -> [Status(w, "ERROR") EXCEPT !.phase = "FAILED"]
    BY DEF OneRecord
  <2>. HIDE DEF w, u, i, rest, kind
  <2>7. CASE i = 0
    <3>1. u = [w EXCEPT !.status = "WANT_READ"]
      BY <2>6, <2>7 DEF Status
    <3>. QED  BY <2>1, <2>2, <2>3, <3>1 DEF Decrypted, Engine, SameGiven, Fields
  <2>8. CASE i # 0 /\ kind = "CLOSE"
    <3>1. u = [w EXCEPT !.status = "OK", !.in = <<>>, !.closed = TRUE]
      BY <2>6, <2>8 DEF Status
    <3>. QED  BY <2>1, <2>2, <2>3, <3>1 DEF Decrypted, Engine, SameGiven, Fields
  <2>9. CASE i # 0 /\ kind \in {"TICKET", "KEYUPDATE", "EMPTY"}
    <3>1. u = [rest EXCEPT !.status = "OK"]
      BY <2>6, <2>9 DEF Status
    <3>. QED  BY <2>1, <2>5, <3>1 DEF Decrypted, Engine, SameGiven, Fields
  <2>10. CASE i # 0 /\ kind = "DATA" /\ i <= room
    <3>1. u = [rest EXCEPT !.status = "OK", !.got = @ \o SubSeq(w.in, 1, i), !.n = i]
      BY <2>6, <2>10, <2>5 DEF Status, Engine, Fields
    <3>. QED  BY <2>1, <2>5, <3>1 DEF Decrypted, Engine, SameGiven, Fields
  <2>11. CASE /\ i # 0 /\ kind \notin {"CLOSE", "TICKET", "KEYUPDATE", "EMPTY"}
              /\ ~(kind = "DATA" /\ i <= room)
    <3>1. u = [w EXCEPT !.status = "ERROR", !.phase = "FAILED"]
      BY <2>6, <2>11 DEF Status
    <3>. QED  BY <2>1, <2>2, <2>3, <3>1 DEF Decrypted, Engine, SameGiven, Fields
  <2>. QED  BY <2>7, <2>8, <2>9, <2>10, <2>11
<1>. QED  BY <1>1, <1>2

\* What SSPI may answer to an engine that has not failed.
LEMMA IscAnswers ==
    ASSUME NEW t, Engine(t), t.phase # "FAILED", NEW r \in Isc(t)
    PROVE  /\ r.used \in 0..Len(t.in) /\ r.phase \in {"WAITING", "COMPLETE", "FAILED"}
           /\ r.status = "OK" => r.phase = "COMPLETE"
           /\ r.phase = "COMPLETE" => t.phase = "COMPLETE" \/ t.trust \/ Good(t.cert)
           /\ r.phase = "FAILED" => r.status = "FAILED" /\ r.out = 0
<1>. DEFINE i == FirstEnd(t.in, {"MID"})
            kind == t.in[i].kind
            mids == {j \in Ends(t.in) : i = 0 \/ j < i}
            Step(status, used, out, phase) ==
                [status |-> status, used |-> used, out |-> out, phase |-> phase]
            Answered ==
                CASE kind = "FLIGHT" -> Step("CONTINUE", i, Output.FLIGHT, "WAITING")
                  [] kind \in {"FIN", "FINOUT"} /\ (t.trust \/ Good(t.cert)) ->
                        Step("OK", i, IF kind = "FIN" THEN 0 ELSE Output.FINOUT, "COMPLETE")
                  [] OTHER -> Step("FAILED", Len(t.in), 0, "FAILED")
<1>1. i \in 0..Len(t.in) /\ mids \subseteq 0..Len(t.in) /\ Len(t.in) \in 0..Len(t.in) /\ 0 \in 0..Len(t.in)
  BY FirstEndFound, Sized DEF Engine, Ends
<1>2. Isc(t) =
        CASE t.phase = "NEW" -> {Step("CONTINUE", Len(t.in), Output.NEW, "WAITING")}
          [] t.phase = "WAITING" /\ Ends(t.in) = {} -> {Step("INCOMPLETE", 0, 0, "WAITING")}
          [] t.phase = "WAITING" /\ Ends(t.in) # {} ->
                {Step("CONTINUE", j, 0, "WAITING") : j \in mids}
                    \cup (IF i = 0 THEN {} ELSE {Answered})
          [] OTHER -> {Step("OK", 0, 0, t.phase), Step("INCOMPLETE", 0, 0, t.phase),
                       Step("FAILED", Len(t.in), 0, "FAILED")}
  BY DEF Isc
<1>3. \/ Answered = Step("CONTINUE", i, Output.FLIGHT, "WAITING")
      \/ /\ t.trust \/ Good(t.cert)
         /\ Answered = Step("OK", i, IF kind = "FIN" THEN 0 ELSE Output.FINOUT, "COMPLETE")
      \/ Answered = Step("FAILED", Len(t.in), 0, "FAILED")
  OBVIOUS
<1>. HIDE DEF i, kind, mids, Answered
<1>4. CASE t.phase = "NEW"
  <2>1. r = Step("CONTINUE", Len(t.in), Output.NEW, "WAITING")
    BY <1>2, <1>4
  <2>. QED  BY <1>1, <2>1
<1>5. CASE t.phase = "WAITING" /\ Ends(t.in) = {}
  <2>1. r = Step("INCOMPLETE", 0, 0, "WAITING")
    BY <1>2, <1>5
  <2>. QED  BY <1>1, <2>1
<1>6. CASE t.phase = "WAITING" /\ Ends(t.in) # {}
  <2>1. \/ \E j \in mids : r = Step("CONTINUE", j, 0, "WAITING")
        \/ r = Answered
    BY <1>2, <1>6
  <2>2. CASE \E j \in mids : r = Step("CONTINUE", j, 0, "WAITING")
    BY <1>1, <2>2
  <2>3. CASE r = Answered
    BY <1>1, <1>3, <2>3
  <2>. QED  BY <2>1, <2>2, <2>3
<1>7. CASE t.phase = "COMPLETE"
  <2>1. r \in {Step("OK", 0, 0, t.phase), Step("INCOMPLETE", 0, 0, t.phase),
               Step("FAILED", Len(t.in), 0, "FAILED")}
    BY <1>2, <1>7
  <2>. QED  BY <1>1, <1>7, <2>1
<1>. QED  BY <1>4, <1>5, <1>6, <1>7 DEF Engine

\* What cert_info holds once SChannel is done.
Informed(t, u) ==
    \/ u.validated = t.validated /\ u.inspected = t.inspected
    \/ ~t.trust /\ u.validated /\ u.inspected
    \/ t.trust /\ u.inspected /\ (u.validated => Good(t.cert))

LEMMA SchannelHandshakeDoes ==
    ASSUME NEW t, Engine(t), t.phase # "FAILED", NEW chunk \in Seq(Units),
           NEW u \in SchannelHandshake(t, chunk)
    PROVE  /\ Engine(u) /\ SameGiven(t, u) /\ u.out = t.out
           /\ u.phase = "FAILED" => u.status = "ERROR"
           /\ u.phase = "COMPLETE" => t.phase = "COMPLETE" \/ t.trust \/ Good(t.cert)
           /\ \/ /\ u.handshake_done = t.handshake_done /\ u.validated = t.validated
                 /\ u.inspected = t.inspected
              \/ u.phase = "COMPLETE" /\ u.handshake_done /\ Informed(t, u)
           /\ t.handshake_done => u.handshake_done
<1>1. CASE ~AccumFits(t, chunk)
  <2>1. u = [t EXCEPT !.status = "ERROR"]
    BY <1>1 DEF SchannelHandshake, Status
  <2>. QED  BY <2>1 DEF Engine, SameGiven, Fields
<1>2. CASE AccumFits(t, chunk)
  <2>. DEFINE w == Feed(t, chunk)
  <2>1. PICK r \in Isc(w) : u \in SchannelStatus(w, r)
    BY <1>2 DEF SchannelHandshake
  <2>2. Engine(w) /\ \A f \in Fields \ {"in"} : w[f] = t[f]
    BY FedIsEngine
  <2>3. /\ w.trust = t.trust /\ w.cert = t.cert /\ w.call = t.call /\ w.phase = t.phase
        /\ w.handshake_done = t.handshake_done /\ w.validated = t.validated /\ w.out = t.out
        /\ w.inspected = t.inspected
    BY <2>2 DEF Fields
  <2>. HIDE DEF w
  <2>4. /\ r.used \in 0..Len(w.in) /\ r.phase \in {"WAITING", "COMPLETE", "FAILED"}
        /\ r.status = "OK" => r.phase = "COMPLETE"
        /\ r.phase = "COMPLETE" => t.phase = "COMPLETE" \/ t.trust \/ Good(t.cert)
        /\ r.phase = "FAILED" => r.status = "FAILED" /\ r.out = 0
    BY <2>1, <2>2, <2>3, IscAnswers
  <2>. DEFINE v == [w EXCEPT !.in = Keep(w, r), !.phase = r.phase]
  <2>5. /\ Engine(v) /\ SameGiven(t, v) /\ v.phase = r.phase /\ v.out = t.out
        /\ v.handshake_done = t.handshake_done /\ v.validated = t.validated
        /\ v.inspected = t.inspected /\ v.cert = t.cert /\ v.trust = t.trust
    <3>1. After(w.in, r.used) \in Seq(Units)
      BY <2>2, <2>4, AfterIsInput DEF Engine
    <3>. QED  BY <2>2, <2>3, <2>4, <3>1 DEF Keep, Engine, SameGiven, Fields
  <2>6. u \in CASE r.out > OutSize -> {Status(v, "ERROR")}
                [] r.out \in 1..OutSize -> {[Status(v, "WANT_WRITE") EXCEPT !.n = r.out]}
                [] r.out = 0 /\ r.status = "OK" ->
                      CertInfo([Status(v, "OK") EXCEPT !.handshake_done = TRUE])
                [] r.out = 0 /\ r.status \in {"CONTINUE", "INCOMPLETE"} -> {Status(v, "WANT_READ")}
                [] OTHER -> {Status(v, "ERROR")}
    BY <2>1 DEF SchannelStatus
  <2>. HIDE DEF v
  <2>7. OutSize \in Nat \ {0}
    BY TlsAssumption
  <2>8. r.phase = "FAILED" =>
           /\ ~(r.out > OutSize) /\ ~(r.out \in 1..OutSize)
           /\ ~(r.out = 0 /\ r.status = "OK")
           /\ ~(r.out = 0 /\ r.status \in {"CONTINUE", "INCOMPLETE"})
    BY <2>4, <2>7
  <2>9. \/ u = [v EXCEPT !.status = "ERROR"]
        \/ r.phase # "FAILED" /\ u = [v EXCEPT !.status = "WANT_WRITE", !.n = r.out]
        \/ r.status = "OK" /\ u = [v EXCEPT !.status = "OK", !.handshake_done = TRUE]
        \/ /\ r.status = "OK"
           /\ \E valid \in BOOLEAN :
                /\ valid => ~v.trust \/ Good(v.cert)
                /\ ~valid => v.trust
                /\ u = [v EXCEPT !.status = "OK", !.handshake_done = TRUE,
                                 !.inspected = TRUE, !.validated = valid]
        \/ r.phase # "FAILED" /\ u = [v EXCEPT !.status = "WANT_READ"]
    <3>1. CASE r.out > OutSize
      <4>1. /\ ~(r.out \in 1..OutSize) /\ ~(r.out = 0 /\ r.status = "OK")
            /\ ~(r.out = 0 /\ r.status \in {"CONTINUE", "INCOMPLETE"})
        BY <2>7, <3>1
      <4>2. u = Status(v, "ERROR")
        BY ONLY <2>6, <3>1, <4>1
      <4>. QED  BY <4>2 DEF Status
    <3>2. CASE ~(r.out > OutSize) /\ r.out \in 1..OutSize
      <4>1. /\ ~(r.out = 0 /\ r.status = "OK")
            /\ ~(r.out = 0 /\ r.status \in {"CONTINUE", "INCOMPLETE"})
        BY <2>7, <3>2
      <4>2. u = [Status(v, "WANT_WRITE") EXCEPT !.n = r.out]
        BY ONLY <2>6, <3>2, <4>1
      <4>3. u = [v EXCEPT !.status = "WANT_WRITE", !.n = r.out]
        BY <4>2 DEF Status
      <4>. QED  BY <2>8, <3>2, <4>3
    <3>3. CASE r.out = 0 /\ r.status = "OK"
      <4>. DEFINE done == [v EXCEPT !.status = "OK", !.handshake_done = TRUE]
      <4>1. u \in CertInfo(done) /\ done.trust = v.trust /\ done.cert = v.cert
        BY <2>5, <2>6, <2>7, <3>3 DEF Status, Engine, Fields
      <4>2. Good(v.cert) \in BOOLEAN /\ v.trust \in BOOLEAN
        BY <2>5 DEF Good, ChainGood, Engine, Certs
      <4>. HIDE DEF done
      <4>3. \/ u = done
            \/ \E valid \in BOOLEAN :
                  /\ valid => ~v.trust \/ Good(v.cert)
                  /\ ~valid => v.trust
                  /\ u = [done EXCEPT !.inspected = TRUE, !.validated = valid]
        BY <4>1, <4>2 DEF CertInfo
      <4>. QED  BY <2>5, <3>3, <4>3 DEF done, Engine, Fields
    <3>4. CASE r.out = 0 /\ r.status \in {"CONTINUE", "INCOMPLETE"}
      BY <2>6, <2>7, <2>8, <3>4 DEF Status
    <3>5. CASE /\ ~(r.out > OutSize) /\ ~(r.out \in 1..OutSize)
               /\ ~(r.out = 0 /\ r.status = "OK")
               /\ ~(r.out = 0 /\ r.status \in {"CONTINUE", "INCOMPLETE"})
      <4>1. u = Status(v, "ERROR")
        BY ONLY <2>6, <3>5
      <4>. QED  BY <4>1 DEF Status
    <3>. QED  BY <3>1, <3>2, <3>3, <3>4, <3>5
  <2>10. CASE u = [v EXCEPT !.status = "ERROR"]
    BY <2>4, <2>5, <2>10 DEF Engine, SameGiven, Fields
  <2>11. CASE r.phase # "FAILED" /\ u = [v EXCEPT !.status = "WANT_WRITE", !.n = r.out]
    BY <2>4, <2>5, <2>11 DEF Engine, SameGiven, Fields
  <2>12. CASE r.status = "OK" /\ u = [v EXCEPT !.status = "OK", !.handshake_done = TRUE]
    BY <2>4, <2>5, <2>12 DEF Engine, SameGiven, Fields, Informed
  <2>14. CASE /\ r.status = "OK"
              /\ \E valid \in BOOLEAN :
                    /\ valid => ~v.trust \/ Good(v.cert)
                    /\ ~valid => v.trust
                    /\ u = [v EXCEPT !.status = "OK", !.handshake_done = TRUE,
                                     !.inspected = TRUE, !.validated = valid]
    <3>1. PICK valid \in BOOLEAN :
                /\ valid => ~v.trust \/ Good(v.cert)
                /\ ~valid => v.trust
                /\ u = [v EXCEPT !.status = "OK", !.handshake_done = TRUE,
                                 !.inspected = TRUE, !.validated = valid]
      BY <2>14
    <3>2. /\ Engine(u) /\ SameGiven(v, u) /\ u.out = v.out /\ u.phase = v.phase
          /\ u.handshake_done /\ u.inspected /\ u.validated = valid /\ u.status = "OK"
      BY <2>5, <3>1 DEF Engine, SameGiven, Fields
    <3>3. t.trust \in BOOLEAN /\ Good(t.cert) \in BOOLEAN /\ t.handshake_done \in BOOLEAN
      BY DEF Good, ChainGood, Engine, Certs
    <3>4. Informed(t, u)
      BY <2>5, <3>1, <3>2, <3>3 DEF Informed
    <3>5. u.phase = "COMPLETE" /\ SameGiven(t, u)
      BY <2>4, <2>5, <2>14, <3>2 DEF SameGiven
    <3>. QED  BY <2>4, <2>5, <2>14, <3>2, <3>3, <3>4, <3>5
  <2>13. CASE r.phase # "FAILED" /\ u = [v EXCEPT !.status = "WANT_READ"]
    BY <2>4, <2>5, <2>13 DEF Engine, SameGiven, Fields
  <2>. QED  BY <2>9, <2>10, <2>11, <2>12, <2>13, <2>14
<1>. QED  BY <1>1, <1>2

LEMMA ShutdownAsksForNothing ==
    ASSUME NEW t, Engine(t), NEW u \in OpenSslShutdown(t)
    PROVE  u.status \in {"OK", "WANT_WRITE"}
<1>1. u = Drain(OneMore(t)) \/ u = Drain(t) \/ u = Status(t, "OK")
  BY DEF OpenSslShutdown, DrainOr
<1>. QED  BY <1>1 DEF OneMore, Drain, Status, Engine, Fields

\* encrypt() and shutdown() only add to the output and set the status, or fail.
LEMMA SendDoes ==
    ASSUME NEW t, Engine(t), NEW u,
           \/ backend = "OPENSSL" /\ u \in OpenSslEncrypt(t) \cup OpenSslShutdown(t)
           \/ backend = "SCHANNEL" /\ u \in SchannelEncrypt(t) \cup SchannelShutdown(t)
    PROVE  /\ Engine(u) /\ SameGiven(t, u)
           /\ u.phase = t.phase \/ (backend = "OPENSSL" /\ u.phase = "FAILED" /\ u.status = "ERROR")
           /\ u.handshake_done = t.handshake_done /\ u.validated = t.validated
           /\ u.inspected = t.inspected
           /\ u.status = "WANT_READ" => backend = "OPENSSL"
           /\ backend = "SCHANNEL" => u.out = t.out
<1>1. CASE backend = "OPENSSL" /\ u \in OpenSslEncrypt(t) \cup OpenSslShutdown(t)
  <2>1. OutSize \in Nat /\ t.out \in Nat
    BY TlsAssumption DEF Engine
  <2>2. \/ u = Drain(OneMore(t)) \/ u = Drain(t)
        \/ \E status \in {"OK", "WANT_READ", "ERROR"} : u = Status(t, status)
        \/ u = [Status(t, "ERROR") EXCEPT !.phase = "FAILED"]
    <3>1. CASE u \in OpenSslEncrypt(t)
      BY <3>1 DEF OpenSslEncrypt, DrainOr
    <3>2. CASE u \in OpenSslShutdown(t)
      BY <3>2 DEF OpenSslShutdown, DrainOr
    <3>. QED  BY <1>1, <3>1, <3>2
  <2>3. CASE u = Drain(OneMore(t))
    BY <1>1, <2>1, <2>3 DEF OneMore, Drain, Smaller, Engine, SameGiven, Fields
  <2>4. CASE u = Drain(t)
    BY <1>1, <2>1, <2>4 DEF Drain, Smaller, Engine, SameGiven, Fields
  <2>5. CASE \E status \in {"OK", "WANT_READ", "ERROR"} : u = Status(t, status)
    BY <1>1, <2>5 DEF Status, Engine, SameGiven, Fields
  <2>7. CASE u = [Status(t, "ERROR") EXCEPT !.phase = "FAILED"]
    BY <1>1, <2>7 DEF Status, Engine, SameGiven, Fields
  <2>. QED  BY <2>2, <2>3, <2>4, <2>5, <2>7
<1>2. CASE backend = "SCHANNEL" /\ u \in SchannelEncrypt(t) \cup SchannelShutdown(t)
  <2>1. \/ u = [t EXCEPT !.status = "WANT_WRITE", !.n = 1]
        \/ u = [t EXCEPT !.status = "ERROR"]
        \/ u = [t EXCEPT !.status = "OK"]
    BY <1>2 DEF SchannelEncrypt, SchannelShutdown, Made, Status
  <2>. QED  BY <1>2, <2>1 DEF Engine, SameGiven, Fields
<1>. QED  BY <1>1, <1>2

-----------------------------------------------------------------------------
(* The invariant.                                                            *)

Admitted(t) == t.trust \/ Good(t.cert)
ChainVerdict(t) == t.inspected /\ (t.validated <=> ChainGood(t.cert))

\* Until it is given the verdict is the default.  The context is complete only for
\* an admitted certificate, and OpenSSL's callback has given the verdict by then;
\* SChannel's is given when the handshake is done.
CertTold(t) ==
    /\ backend = "OPENSSL" =>
          /\ t.phase \in {"NEW", "WAITING"} => t.validated
          /\ t.phase = "COMPLETE" \/ t.handshake_done => ChainVerdict(t)
    /\ backend = "SCHANNEL" =>
          /\ ~t.handshake_done \/ ~t.trust => t.validated
          /\ ~t.handshake_done => ~t.inspected
          /\ t.handshake_done /\ t.inspected /\ t.validated => Good(t.cert)
    /\ t.phase = "COMPLETE" \/ t.handshake_done => Admitted(t)

\* Data is exchanged after the handshake only, and not after a failure.
InOrder(t) ==
    /\ t.call \notin {"NONE", "HANDSHAKE"} => t.handshake_done
    /\ t.phase = "FAILED" /\ (backend = "SCHANNEL" \/ t.handshake_done) => t.status = "ERROR"

\* SChannel's output is handed out by the call that makes it.
Waits(t) ==
    /\ backend = "SCHANNEL" => t.out = 0
    /\ t.call = "HANDSHAKE" /\ t.status \in {"OK", "WANT_READ"} => t.out = 0
    /\ backend = "OPENSSL" /\ t.call # "ENCRYPT" /\ t.status = "WANT_READ" => Ends(t.in) = {}

Sound(t) == Engine(t) /\ CertTold(t) /\ InOrder(t) /\ Waits(t)

\* What is in the thread's error queue has been put there by a failure.
QueueTold == errors => backend = "OPENSSL" /\ \E c \in Conns : tls[c].phase = "FAILED"

IInv == Shape /\ (\A c \in Conns : Sound(tls[c])) /\ QueueTold /\ FailsForAReason

FailedRead(t) == t.call = "DECRYPT" /\ t.status = "ERROR"

\* What every call of connection c has in common; u is its engine afterwards.
Effect(c, u) ==
    /\ backend' = backend /\ tls' = [tls EXCEPT ![c] = u]
    /\ DOMAIN left' = Conns /\ \A d \in Conns : left'[d] \in Seq(Units)
    /\ Sound(u)
    /\ ~FailedRead(tls[c])
    /\ backend = "OPENSSL" /\ tls[c].phase = "FAILED" => u.phase = "FAILED"
    /\ errors' \in BOOLEAN
    /\ errors' => backend = "OPENSSL" /\ (errors \/ u.phase = "FAILED")
    /\ FailedRead(u) => u.phase = "FAILED" \/ Len(u.in) + MaxChunk > BufSize \/ errors

LEMMA EffectKeeps ==
    ASSUME IInv, NEW c \in Conns, NEW u, Effect(c, u)
    PROVE  IInv'
<1>1. /\ backend' = backend /\ tls'[c] = u /\ DOMAIN tls' = Conns
      /\ \A d \in Conns \ {c} : tls'[d] = tls[d]
  BY DEF IInv, Shape, Effect
<1>2. \A d \in Conns : Sound(tls[d])'
  <2>1. Sound(u) /\ \A d \in Conns : Sound(tls[d])
    BY DEF IInv, Effect
  <2>2. Sound(tls[c])'
    BY <1>1, <2>1 DEF Sound, Engine, CertTold, InOrder, Waits, Admitted, ChainVerdict
  <2>3. ASSUME NEW d \in Conns \ {c} PROVE Sound(tls[d])'
    <3>1. tls'[d] = tls[d] /\ backend' = backend /\ Sound(tls[d])
      BY <1>1, <2>1
    <3>2. Engine(tls[d])' /\ InOrder(tls[d])' /\ Waits(tls[d])'
      BY <3>1 DEF Sound, Engine, InOrder, Waits
    <3>3. CertTold(tls[d])'
      BY <3>1 DEF Sound, CertTold, Admitted, ChainVerdict
    <3>. QED  BY <3>2, <3>3 DEF Sound
  <2>. QED  BY <2>2, <2>3
<1>3. Shape'
  BY <1>1, <1>2 DEF Effect, Shape, Sound, IInv
<1>4. backend = "OPENSSL" =>
         \A d \in Conns : tls[d].phase = "FAILED" => tls'[d].phase = "FAILED"
  BY <1>1 DEF Effect
<1>5. errors => backend = "OPENSSL" /\ \E d \in Conns : tls'[d].phase = "FAILED"
  BY <1>4 DEF IInv, QueueTold
<1>6. QueueTold'
  BY <1>1, <1>5 DEF Effect, QueueTold
<1>7. FailsForAReason'
  <2> SUFFICES ASSUME NEW d \in Conns, FailedRead(tls'[d])
               PROVE  \/ tls'[d].phase = "FAILED"
                      \/ Len(tls'[d].in) + MaxChunk > BufSize
                      \/ backend = "OPENSSL" /\ \E other \in Conns \ {d} : tls'[other].phase = "FAILED"
    BY <1>1 DEF FailsForAReason, FailedRead
  <2>1. CASE d = c
    BY <1>1, <1>5, <2>1 DEF Effect
  <2>2. CASE d # c
    BY <1>1, <1>4, <2>2 DEF IInv, FailsForAReason, FailedRead
  <2>. QED  BY <2>1, <2>2
<1>. QED  BY <1>2, <1>3, <1>6, <1>7 DEF IInv

\* A call begins with its name noted, and with a piece of the stream.
LEMMA CallBegins ==
    ASSUME NEW t, Engine(t), NEW call \in {"HANDSHAKE", "DECRYPT", "ENCRYPT", "SHUTDOWN"}
    PROVE  LET w == Called(t, call) IN
           /\ Engine(w) /\ w.call = call /\ w.trust = t.trust /\ w.cert = t.cert
           /\ w.phase = t.phase /\ w.handshake_done = t.handshake_done
           /\ w.validated = t.validated /\ w.inspected = t.inspected
           /\ w.out = t.out /\ w.in = t.in
  BY DEF Called, Engine, Fields

LEMMA PieceArrives ==
    ASSUME Shape, NEW c \in Conns, NEW chunk \in Received(c)
    PROVE  chunk \in Seq(Units) /\ Len(chunk) <= MaxChunk /\ Len(chunk) \in 0..Len(left[c])
<1>1. left[c] \in Seq(Units) /\ Len(left[c]) \in Nat /\ MaxChunk \in Nat
  BY TlsAssumption, Sized DEF Shape
<1>2. CASE chunk = <<>>
  BY <1>1, <1>2
<1>3. CASE chunk \in Arriving(c)
  <2>1. PICK n \in 1..Smaller(Len(left[c]), MaxChunk) : chunk = SubSeq(left[c], 1, n)
    BY <1>3 DEF Arriving
  <2>2. n \in 1..Len(left[c]) /\ n <= MaxChunk
    BY <1>1, <2>1 DEF Smaller
  <2>. QED  BY <1>1, <2>1, <2>2
<1>. QED  BY <1>2, <1>3 DEF Received

LEMMA PieceTaken ==
    ASSUME Shape, NEW c \in Conns, NEW chunk \in Seq(Units), Len(chunk) \in 0..Len(left[c]),
           Took(c, chunk)
    PROVE  DOMAIN left' = Conns /\ \A d \in Conns : left'[d] \in Seq(Units)
<1>1. After(left[c], Len(chunk)) \in Seq(Units)
  BY AfterIsInput DEF Shape
<1>. QED  BY <1>1 DEF Took, Shape

LEMMA HandshakeEffect ==
    ASSUME IInv, NEW c \in Conns, NEW chunk \in Received(c), Handshake(c, chunk)
    PROVE  \E u : Effect(c, u)
<1>. DEFINE t == Called(tls[c], "HANDSHAKE")
<1>1. /\ Shape /\ Sound(tls[c]) /\ Engine(tls[c]) /\ QueueTold
  BY DEF IInv, Sound
<1>2. /\ Engine(t) /\ t.call = "HANDSHAKE" /\ t.trust = tls[c].trust /\ t.cert = tls[c].cert
      /\ t.phase = tls[c].phase /\ t.handshake_done = tls[c].handshake_done
      /\ t.validated = tls[c].validated /\ t.out = tls[c].out
      /\ t.inspected = tls[c].inspected
  BY <1>1, CallBegins
<1>3. /\ ~tls[c].handshake_done /\ tls[c].status # "ERROR" /\ ~FailedRead(tls[c])
      /\ Took(c, chunk) /\ backend' = backend
  BY DEF Handshake, FailedRead
<1>4. chunk \in Seq(Units) /\ Len(chunk) \in 0..Len(left[c])
  BY <1>1, PieceArrives
<1>5. DOMAIN left' = Conns /\ \A d \in Conns : left'[d] \in Seq(Units)
  BY <1>1, <1>3, <1>4, PieceTaken
<1>6. CASE backend = "OPENSSL"
  <2>. DEFINE u == OpenSslHandshake(t, chunk)
  <2>1. tls' = [tls EXCEPT ![c] = u] /\ errors' = ErrorsAfterHandshake(t, chunk, u)
    BY <1>6 DEF Handshake, Result
  <2>2. /\ Engine(u) /\ SameGiven(t, u)
        /\ t.phase = "FAILED" => u.phase = "FAILED"
        /\ u.handshake_done => t.handshake_done \/ (u.phase = "COMPLETE" /\ u.status = "OK")
        /\ Judged(t, u)
        /\ u.status \in {"OK", "WANT_READ"} => u.out = 0
        /\ u.status = "WANT_READ" => Ends(u.in) = {}
    BY <1>2, <1>4, OpenSslHandshakeDoes
  <2>. HIDE DEF t, u
  <2>3. errors' \in BOOLEAN /\ (errors' => errors \/ u.phase = "FAILED")
    BY <1>1, <2>1, <2>2 DEF ErrorsAfterHandshake, Shape
  <2>5. CertTold(u)
    <3>1. u.phase = "COMPLETE" => Admitted(u) /\ ChainVerdict(u)
      <4>1. SUFFICES ASSUME u.phase = "COMPLETE" PROVE Admitted(u) /\ ChainVerdict(u)
        OBVIOUS
      <4>2. u.trust = t.trust /\ u.cert = t.cert
        BY <2>2 DEF SameGiven
      <4>3. CASE t.phase = "COMPLETE" /\ u.validated = t.validated /\ u.inspected = t.inspected
        BY <1>1, <1>2, <1>6, <4>2, <4>3 DEF Sound, CertTold, Admitted, ChainVerdict
      <4>4. CASE t.phase = "WAITING" /\ Admits(t, u)
        <5>1. t.validated
          BY <1>1, <1>2, <1>6, <4>4 DEF Sound, CertTold
        <5>. QED  BY <4>2, <4>4, <5>1 DEF Admits, Admitted, ChainVerdict
      <4>. QED  BY <2>2, <4>1, <4>3, <4>4 DEF Judged
    <3>2. u.handshake_done => u.phase = "COMPLETE"
      BY <1>2, <1>3, <2>2
    <3>3. u.phase \in {"NEW", "WAITING"} => u.validated
      BY <1>1, <1>2, <1>6, <2>2 DEF Sound, CertTold, Judged
    <3>. QED  BY <1>6, <3>1, <3>2, <3>3 DEF CertTold
  <2>6. InOrder(u) /\ Waits(u)
    BY <1>2, <1>3, <1>6, <2>2 DEF InOrder, Waits, SameGiven
  <2>7. Effect(c, u)
    BY <1>2, <1>3, <1>5, <1>6, <2>1, <2>2, <2>3, <2>5, <2>6
       DEF Effect, Sound, FailedRead, SameGiven
  <2>. QED  BY <2>7
<1>7. CASE backend = "SCHANNEL"
  <2>1. PICK u \in SchannelHandshake(t, chunk) :
           tls' = [tls EXCEPT ![c] = u] /\ UNCHANGED errors
    BY <1>7 DEF Handshake, Result
  <2>2. t.phase # "FAILED"
    BY <1>1, <1>2, <1>3, <1>7 DEF Sound, InOrder
  <2>3. /\ Engine(u) /\ SameGiven(t, u) /\ u.out = t.out
        /\ u.phase = "FAILED" => u.status = "ERROR"
        /\ u.phase = "COMPLETE" => t.phase = "COMPLETE" \/ t.trust \/ Good(t.cert)
        /\ \/ /\ u.handshake_done = t.handshake_done /\ u.validated = t.validated
              /\ u.inspected = t.inspected
           \/ u.phase = "COMPLETE" /\ u.handshake_done /\ Informed(t, u)
    BY <1>2, <1>4, <2>1, <2>2, SchannelHandshakeDoes
  <2>. HIDE DEF t
  <2>4. ~errors /\ errors \in BOOLEAN
    BY <1>1, <1>7 DEF QueueTold, Shape
  <2>5. CertTold(u)
    <3>1. /\ u.trust = t.trust /\ u.cert = t.cert /\ ~t.handshake_done /\ t.validated
          /\ ~t.inspected
          /\ t.phase = "COMPLETE" => Admitted(t)
      BY <1>1, <1>2, <1>3, <1>7, <2>3 DEF Sound, CertTold, Admitted, SameGiven
    <3>2. u.phase = "COMPLETE" => Admitted(u)
      BY <2>3, <3>1 DEF Admitted
    <3>3. CASE /\ u.handshake_done = t.handshake_done /\ u.validated = t.validated
               /\ u.inspected = t.inspected
      BY <1>7, <3>1, <3>2, <3>3 DEF CertTold
    <3>4. CASE u.phase = "COMPLETE" /\ u.handshake_done /\ Informed(t, u)
      BY <1>7, <3>1, <3>2, <3>4 DEF CertTold, Informed, Admitted
    <3>. QED  BY <2>3, <3>3, <3>4
  <2>6. InOrder(u) /\ Waits(u)
    BY <1>1, <1>2, <1>3, <1>7, <2>3 DEF InOrder, Waits, SameGiven, Sound
  <2>7. Effect(c, u)
    BY <1>2, <1>3, <1>5, <1>7, <2>1, <2>3, <2>4, <2>5, <2>6
       DEF Effect, Sound, FailedRead, SameGiven
  <2>. QED  BY <2>7
<1>. QED  BY <1>1, <1>6, <1>7 DEF Shape

\* What decrypting leaves, whichever engine has done it.
LEMMA ReadEffect ==
    ASSUME IInv, NEW c \in Conns, Usable(tls[c]), NEW u,
           Decrypted(Called(tls[c], "DECRYPT"), u),
           backend' = backend, tls' = [tls EXCEPT ![c] = u],
           DOMAIN left' = Conns, \A d \in Conns : left'[d] \in Seq(Units),
           errors' \in BOOLEAN, errors' => backend = "OPENSSL" /\ (errors \/ u.phase = "FAILED"),
           u.status = "ERROR" =>
                u.phase = "FAILED" \/ Len(u.in) + MaxChunk > BufSize \/ errors,
           backend = "SCHANNEL" => u.out = tls[c].out,
           backend = "OPENSSL" /\ u.status = "WANT_READ" => Ends(u.in) = {}
    PROVE  Effect(c, u)
<1>. DEFINE t == Called(tls[c], "DECRYPT")
<1>1. /\ Sound(tls[c]) /\ Engine(tls[c])
  BY DEF IInv, Sound
<1>2. /\ Engine(t) /\ t.call = "DECRYPT" /\ t.trust = tls[c].trust /\ t.cert = tls[c].cert
      /\ t.phase = tls[c].phase /\ t.handshake_done = tls[c].handshake_done
      /\ t.validated = tls[c].validated /\ t.inspected = tls[c].inspected
  BY <1>1, CallBegins
<1>3. /\ Engine(u) /\ u.call = "DECRYPT" /\ u.trust = tls[c].trust /\ u.cert = tls[c].cert
      /\ u.handshake_done = tls[c].handshake_done /\ u.validated = tls[c].validated
      /\ u.inspected = tls[c].inspected
      /\ u.phase = tls[c].phase \/ (u.phase = "FAILED" /\ u.status = "ERROR")
  BY <1>2 DEF Decrypted, SameGiven
<1>. HIDE DEF t
<1>4. tls[c].handshake_done /\ tls[c].status # "ERROR"
  BY DEF Usable
<1>5. tls[c].phase # "FAILED"
  BY <1>1, <1>4 DEF Sound, InOrder
<1>6. CertTold(u)
  BY <1>1, <1>3 DEF Sound, CertTold, Admitted, ChainVerdict
<1>7. InOrder(u) /\ Waits(u)
  BY <1>1, <1>3, <1>4, <1>5 DEF Sound, InOrder, Waits
<1>. QED  BY <1>3, <1>4, <1>5, <1>6, <1>7 DEF Effect, Sound, FailedRead

LEMMA DecryptEffect ==
    ASSUME IInv, NEW c \in Conns, NEW chunk \in Received(c), NEW room, Decrypt(c, chunk, room)
    PROVE  \E u : Effect(c, u)
<1>. DEFINE t == Called(tls[c], "DECRYPT")
<1>1. Shape /\ Engine(tls[c]) /\ QueueTold
  BY DEF IInv, Sound
<1>2. Engine(t) /\ t.out = tls[c].out
  BY <1>1, CallBegins
<1>3. Usable(tls[c]) /\ Took(c, chunk) /\ backend' = backend
  BY DEF Decrypt
<1>4. chunk \in Seq(Units) /\ Len(chunk) <= MaxChunk
  BY <1>1, PieceArrives
<1>5. DOMAIN left' = Conns /\ \A d \in Conns : left'[d] \in Seq(Units)
  BY <1>1, <1>3, <1>4, PieceArrives, PieceTaken
<1>6. CASE backend = "OPENSSL"
  <2>. DEFINE u == OpenSslDecrypt(t, chunk, room)
  <2>1. tls' = [tls EXCEPT ![c] = u] /\ errors' = ErrorsAfter(u)
    BY <1>6 DEF Decrypt, Result
  <2>2. /\ Decrypted(t, u)
        /\ u.status = "ERROR" =>
             u.phase = "FAILED" \/ Len(u.in) + MaxChunk > BufSize \/ errors
        /\ u.status = "WANT_READ" => Ends(u.in) = {}
    BY <1>2, <1>4, OpenSslDecryptDoes
  <2>. HIDE DEF t, u
  <2>3. errors' \in BOOLEAN /\ (errors' => errors \/ u.phase = "FAILED")
    BY <1>1, <2>1 DEF ErrorsAfter, Shape
  <2>4. Effect(c, u)
    BY <1>3, <1>5, <1>6, <2>1, <2>2, <2>3, ReadEffect DEF t
  <2>. QED  BY <2>4
<1>7. CASE backend = "SCHANNEL"
  <2>. DEFINE u == SchannelDecrypt(t, chunk, room)
  <2>1. tls' = [tls EXCEPT ![c] = u] /\ UNCHANGED errors
    BY <1>7 DEF Decrypt, Result
  <2>2. /\ Decrypted(t, u) /\ u.out = t.out
        /\ u.status = "ERROR" => u.phase = "FAILED" \/ Len(u.in) + MaxChunk > BufSize
    BY <1>2, <1>4, SchannelDecryptDoes
  <2>. HIDE DEF t, u
  <2>3. ~errors /\ errors \in BOOLEAN
    BY <1>1, <1>7 DEF QueueTold, Shape
  <2>4. Effect(c, u)
    BY <1>2, <1>3, <1>5, <1>7, <2>1, <2>2, <2>3, ReadEffect DEF t
  <2>. QED  BY <2>4
<1>. QED  BY <1>1, <1>6, <1>7 DEF Shape

LEMMA SendEffect ==
    ASSUME IInv, NEW c \in Conns, NEW call \in {"ENCRYPT", "SHUTDOWN"}, Send(c, call)
    PROVE  \E u : Effect(c, u)
<1>. DEFINE t == Called(tls[c], call)
<1>1. Shape /\ Sound(tls[c]) /\ Engine(tls[c]) /\ QueueTold
  BY DEF IInv, Sound
<1>2. /\ Engine(t) /\ t.call = call /\ t.trust = tls[c].trust /\ t.cert = tls[c].cert
      /\ t.phase = tls[c].phase /\ t.handshake_done = tls[c].handshake_done
      /\ t.validated = tls[c].validated /\ t.out = tls[c].out
      /\ t.inspected = tls[c].inspected
  BY <1>1, CallBegins
<1>3. Usable(tls[c]) /\ UNCHANGED <<backend, left>>
  BY DEF Send
<1>4. PICK u : /\ tls' = [tls EXCEPT ![c] = u]
               /\ \/ backend = "OPENSSL" /\ u \in OpenSslEncrypt(t) \cup OpenSslShutdown(t)
                  \/ backend = "SCHANNEL" /\ u \in SchannelEncrypt(t) \cup SchannelShutdown(t)
               /\ errors' \in BOOLEAN
               /\ errors' => backend = "OPENSSL" /\ (errors \/ u.phase = "FAILED")
               /\ u.status = "WANT_READ" => u.call = "ENCRYPT" \/ backend = "SCHANNEL"
  <2>0. errors \in BOOLEAN /\ (errors => backend = "OPENSSL")
    BY <1>1 DEF Shape, QueueTold
  <2>1. CASE /\ backend = "OPENSSL"
             /\ \E u \in IF call = "ENCRYPT" THEN OpenSslEncrypt(t) ELSE OpenSslShutdown(t) :
                   Result(c, u) /\ errors' = ErrorsAfter(u)
    <3>1. PICK u \in IF call = "ENCRYPT" THEN OpenSslEncrypt(t) ELSE OpenSslShutdown(t) :
                   Result(c, u) /\ errors' = ErrorsAfter(u)
      BY <2>1
    <3>2. u \in OpenSslEncrypt(t) \cup OpenSslShutdown(t)
      BY <3>1
    <3>3. u.call = call
      BY <1>2, <2>1, <3>2, SendDoes DEF SameGiven
    <3>4. u.status = "WANT_READ" => call = "ENCRYPT"
      BY <1>2, <3>1, ShutdownAsksForNothing
    <3>. QED  BY <2>0, <2>1, <3>1, <3>2, <3>3, <3>4 DEF Result, ErrorsAfter
  <2>2. CASE /\ backend = "SCHANNEL"
             /\ \E u \in IF call = "ENCRYPT" THEN SchannelEncrypt(t) ELSE SchannelShutdown(t) :
                   Result(c, u)
             /\ UNCHANGED errors
    BY <2>0, <2>2 DEF Result
  <2>. QED  BY <2>1, <2>2 DEF Send
<1>5. /\ Engine(u) /\ SameGiven(t, u)
      /\ u.phase = t.phase \/ (backend = "OPENSSL" /\ u.phase = "FAILED" /\ u.status = "ERROR")
      /\ u.handshake_done = t.handshake_done /\ u.validated = t.validated
      /\ u.inspected = t.inspected
      /\ u.status = "WANT_READ" => backend = "OPENSSL"
      /\ backend = "SCHANNEL" => u.out = t.out
  BY <1>2, <1>4, SendDoes
<1>. HIDE DEF t
<1>6. tls[c].handshake_done /\ tls[c].status # "ERROR"
  BY <1>3 DEF Usable
<1>7. tls[c].phase # "FAILED"
  BY <1>1, <1>6 DEF Sound, InOrder
<1>8. CertTold(u)
  BY <1>1, <1>2, <1>5 DEF Sound, CertTold, Admitted, ChainVerdict, SameGiven
<1>9. InOrder(u) /\ Waits(u)
  BY <1>1, <1>2, <1>4, <1>5, <1>6, <1>7 DEF Sound, InOrder, Waits, SameGiven
<1>10. Effect(c, u)
  BY <1>1, <1>2, <1>3, <1>4, <1>5, <1>6, <1>7, <1>8, <1>9
     DEF Effect, Sound, FailedRead, SameGiven, Shape, QueueTold
<1>. QED  BY <1>10

-----------------------------------------------------------------------------
(* Verdicts, reasons and waits.                                              *)

LEMMA InitSound == Init => IInv
<1> SUFFICES ASSUME Init PROVE IInv
  OBVIOUS
<1>1. PICK f \in [Conns -> UNION {Peers[c] : c \in Conns}] :
        /\ \A c \in Conns : f[c] \in Peers[c]
        /\ left = [c \in Conns |-> f[c].stream]
        /\ tls = [c \in Conns |->
            [stream |-> f[c].stream, trust |-> f[c].trust, cert |-> f[c].cert,
             phase |-> "NEW", handshake_done |-> FALSE, validated |-> TRUE,
             inspected |-> FALSE, closed |-> FALSE, dry |-> TRUE, in |-> <<>>, out |-> 0, ready |-> <<>>, got |-> <<>>,
             call |-> "NONE", status |-> "NONE", n |-> 0]]
  BY DEF Init
<1>2. /\ backend \in {"OPENSSL", "SCHANNEL"} /\ errors = FALSE
      /\ DOMAIN tls = Conns /\ DOMAIN left = Conns
  BY <1>1, TlsAssumption DEF Init
<1>3. \A c \in Conns : f[c] \in [stream : Seq(Units), trust : BOOLEAN, cert : Certs]
  <2>1. ASSUME NEW c \in Conns
        PROVE  Peers[c] \subseteq [stream : Seq(Units), trust : BOOLEAN, cert : Certs]
    BY TlsAssumption
  <2>. QED  BY <1>1, <2>1
<1>4. ASSUME NEW c \in Conns PROVE Sound(tls[c])
  <2>1. f[c].trust \in BOOLEAN /\ f[c].cert \in Certs
    BY <1>3
  <2>2. tls[c] =
            [stream |-> f[c].stream, trust |-> f[c].trust, cert |-> f[c].cert,
             phase |-> "NEW", handshake_done |-> FALSE, validated |-> TRUE,
             inspected |-> FALSE, closed |-> FALSE, dry |-> TRUE, in |-> <<>>, out |-> 0, ready |-> <<>>, got |-> <<>>,
             call |-> "NONE", status |-> "NONE", n |-> 0]
    BY <1>1
  <2>3. Engine(tls[c])
    BY <2>1, <2>2 DEF Engine, Fields
  <2>4. CertTold(tls[c]) /\ InOrder(tls[c]) /\ Waits(tls[c])
    BY <2>2 DEF CertTold, InOrder, Waits
  <2>. QED  BY <2>3, <2>4 DEF Sound
<1>5. FailsForAReason
  BY <1>1 DEF FailsForAReason
<1>6. \A c \in Conns : left[c] \in Seq(Units)
  BY <1>1, <1>3
<1>. QED  BY <1>2, <1>4, <1>5, <1>6 DEF IInv, Shape, QueueTold, Sound

LEMMA StepSound == IInv /\ [Next]_vars => IInv'
<1> SUFFICES ASSUME IInv, [Next]_vars PROVE IInv'
  OBVIOUS
<1>1. CASE Next
  <2>1. PICK c \in Conns :
            \/ \E chunk \in Received(c) : Handshake(c, chunk)
            \/ \E chunk \in Received(c), room \in 1..Room : Decrypt(c, chunk, room)
            \/ \E call \in {"ENCRYPT", "SHUTDOWN"} : Send(c, call)
    BY <1>1 DEF Next
  <2>2. \E u : Effect(c, u)
    BY <2>1, HandshakeEffect, DecryptEffect, SendEffect
  <2>. QED  BY <2>2, EffectKeeps
<1>2. CASE UNCHANGED vars
  <2>1. backend' = backend /\ left' = left /\ tls' = tls /\ errors' = errors
    BY <1>2 DEF vars
  <2>2. Shape'
    BY <2>1 DEF IInv, Shape
  <2>3. ASSUME NEW c \in Conns PROVE Sound(tls[c])'
    <3>1. Sound(tls[c])
      BY DEF IInv
    <3>. QED  BY <2>1, <3>1 DEF Sound, CertTold, Admitted, ChainVerdict, InOrder, Waits
  <2>4. QueueTold' /\ FailsForAReason'
    BY <2>1 DEF IInv, QueueTold, FailsForAReason
  <2>. QED  BY <2>2, <2>3, <2>4 DEF IInv
<1>. QED  BY <1>1, <1>2

\* Every engine is told apart by its calls, its output and its certificate.
THEOREM Soundness == Spec => []IInv
  BY InitSound, StepSound, PTL DEF Spec

\* Whatever the peer sends and however it is cut, once smtp_tls_handshake() has
\* said OK the certificate was admitted and smtp_tls_cert_info tells the truth.
THEOREM CertInvariant == Spec => []CertVerdictTrue
<1>1. IInv => CertVerdictTrue
  <2> SUFFICES ASSUME IInv, NEW c \in Conns, tls[c].handshake_done
               PROVE  /\ ~tls[c].trust => Good(tls[c].cert) /\ tls[c].validated
                      /\ backend = "OPENSSL" =>
                            tls[c].inspected /\ (tls[c].validated <=> ChainGood(tls[c].cert))
                      /\ backend = "SCHANNEL" /\ tls[c].inspected /\ tls[c].validated
                            => Good(tls[c].cert)
    BY DEF CertVerdictTrue
  <2>1. CertTold(tls[c]) /\ backend \in {"OPENSSL", "SCHANNEL"}
    BY DEF IInv, Sound, Shape
  <2>2. ~tls[c].trust => Good(tls[c].cert)
    BY <2>1 DEF CertTold, Admitted
  <2>3. Good(tls[c].cert) => ChainGood(tls[c].cert)
    BY DEF Good
  <2>4. CASE backend = "OPENSSL"
    BY <2>1, <2>2, <2>3, <2>4 DEF CertTold, ChainVerdict
  <2>5. CASE backend = "SCHANNEL"
    BY <2>1, <2>2, <2>5 DEF CertTold
  <2>. QED  BY <2>1, <2>4, <2>5
<1>. QED  BY <1>1, Soundness, PTL

\* A read fails for what the peer sent, for want of room, or for another
\* connection's failure in OpenSSL's error queue, for any number of connections.
THEOREM ReasonInvariant == Spec => []FailsForAReason
<1>1. IInv => FailsForAReason
  BY DEF IInv
<1>. QED  BY <1>1, Soundness, PTL

\* A handshake that is over or wants input holds no output back, and OpenSSL wants
\* input only when it has used every whole record, for any sizes of the buffers.
THEOREM WaitsInvariant == Spec => []WaitsOnlyForThePeer
<1>1. IInv => WaitsOnlyForThePeer
  BY DEF IInv, Sound, Waits, WaitsOnlyForThePeer
<1>. QED  BY <1>1, Soundness, PTL

-----------------------------------------------------------------------------
(* The data of a stream.                                                     *)

\* d tells the data of the first i units, for each i up to n.
Gathers(s, d, n) ==
    /\ d \in [0..n -> Seq(Units)]
    /\ d[0] = <<>>
    /\ \A i \in 1..n : d[i] = IF IsData(s[i]) THEN Append(d[i - 1], s[i]) ELSE d[i - 1]

LEMMA GatheredOnce ==
    ASSUME NEW s \in Seq(Units), NEW n \in 0..Len(s), NEW d, NEW e,
           Gathers(s, d, n), Gathers(s, e, n)
    PROVE  \A i \in 0..n : d[i] = e[i]
<1>. DEFINE T == {i \in 0..n : d[i] # e[i]}
<1>1. SUFFICES ASSUME T # {} PROVE FALSE
  OBVIOUS
<1>2. T \subseteq Nat /\ n \in Nat
  OBVIOUS
<1>3. PICK i \in T : \A j \in T : i <= j
  BY <1>1, <1>2, LeastNatural
<1>4. i # 0 /\ i \in 0..n
  BY <1>3 DEF Gathers
<1>5. i \in 1..n /\ i - 1 \in 0..n /\ ~(i <= i - 1)
  BY <1>2, <1>4
<1>6. d[i - 1] = e[i - 1]
  BY <1>3, <1>5
<1>7. d[i] = e[i]
  BY <1>5, <1>6 DEF Gathers
<1>. QED  BY <1>3, <1>7

LEMMA GatheredUpTo ==
    ASSUME NEW s \in Seq(Units), NEW n \in 0..Len(s)
    PROVE  \E d : Gathers(s, d, n)
<1>. DEFINE T == {i \in 0..Len(s) : ~ \E d : Gathers(s, d, i)}
<1>1. SUFFICES ASSUME T # {} PROVE FALSE
  OBVIOUS
<1>2. T \subseteq Nat /\ Len(s) \in Nat
  BY Sized
<1>3. PICK i \in T : \A j \in T : i <= j
  BY <1>1, <1>2, LeastNatural
<1>4. i # 0
  <2>1. Gathers(s, [k \in 0..0 |-> <<>>], 0)
    BY DEF Gathers
  <2>. QED  BY <1>3, <2>1
<1>5. i \in 1..Len(s) /\ i - 1 \in 0..Len(s) /\ ~(i <= i - 1) /\ s[i] \in Units
  BY <1>2, <1>3, <1>4
<1>6. PICK d : Gathers(s, d, i - 1)
  BY <1>3, <1>5
<1>. DEFINE last == IF IsData(s[i]) THEN Append(d[i - 1], s[i]) ELSE d[i - 1]
            e == [k \in 0..i |-> IF k = i THEN last ELSE d[k]]
<1>7. d \in [0..(i - 1) -> Seq(Units)] /\ d[i - 1] \in Seq(Units) /\ last \in Seq(Units)
  <2>1. d \in [0..(i - 1) -> Seq(Units)] /\ d[i - 1] \in Seq(Units)
    BY <1>5, <1>6 DEF Gathers
  <2>. QED  BY <1>5, <2>1
<1>8. e \in [0..i -> Seq(Units)]
  BY <1>5, <1>7
<1>9. ASSUME NEW k \in 1..i
      PROVE  e[k] = IF IsData(s[k]) THEN Append(e[k - 1], s[k]) ELSE e[k - 1]
  <2>1. k - 1 \in 0..(i - 1) /\ e[k - 1] = d[k - 1]
    BY <1>5
  <2>2. CASE k = i
    BY <2>1, <2>2
  <2>3. CASE k # i
    <3>1. k \in 1..(i - 1) /\ e[k] = d[k]
      BY <1>5, <2>3
    <3>. QED  BY <1>6, <2>1, <3>1 DEF Gathers
  <2>. QED  BY <2>2, <2>3
<1>10. e[0] = <<>>
  BY <1>5, <1>6 DEF Gathers
<1>. HIDE DEF e
<1>11. Gathers(s, e, i)
  BY <1>8, <1>9, <1>10 DEF Gathers
<1>. QED  BY <1>3, <1>11

LEMMA DataIsGathered ==
    ASSUME NEW s \in Seq(Units), NEW d, Gathers(s, d, Len(s))
    PROVE  DataOf(s) = d[Len(s)]
<1>. DEFINE n == Len(s)
            Body(g) == [i \in 0..n |-> IF i = 0 THEN <<>>
                                       ELSE IF IsData(s[i]) THEN Append(g[i - 1], s[i]) ELSE g[i - 1]]
            c == CHOOSE g : g = Body(g)
<1>0. n \in Nat
  BY Sized
<1>1. d = Body(d)
  <2>1. d = [i \in 0..n |-> d[i]]
    BY DEF Gathers
  <2>2. ASSUME NEW i \in 0..n PROVE d[i] = Body(d)[i]
    <3>1. CASE i = 0
      BY <3>1 DEF Gathers
    <3>2. CASE i # 0
      <4>1. i \in 1..n
        BY <1>0, <3>2
      <4>. QED  BY <3>2, <4>1 DEF Gathers
    <3>. QED  BY <3>1, <3>2
  <2>. QED  BY <2>1, <2>2
<1>2. c = Body(c)
  BY <1>1
<1>3. DataOf(s) = c[n]
  BY DEF DataOf
<1>. HIDE DEF c, n
<1>4. c[0] = <<>> /\ \A i \in 1..n : c[i] = IF IsData(s[i]) THEN Append(c[i - 1], s[i]) ELSE c[i - 1]
  <2>. DEFINE b == Body(c)
  <2>1. /\ b[0] = <<>>
        /\ \A i \in 1..n : b[i] = IF IsData(s[i]) THEN Append(c[i - 1], s[i]) ELSE c[i - 1]
    <3>1. 0 \in 0..n /\ \A i \in 1..n : i \in 0..n /\ i # 0
      BY <1>0
    <3>. QED  BY <3>1
  <2>2. c = b
    BY <1>2
  <2>. HIDE DEF b
  <2>. QED  BY <2>1, <2>2
<1>. DEFINE T == {i \in 0..n : c[i] # d[i]}
<1>5. T = {}
  <2>1. SUFFICES ASSUME T # {} PROVE FALSE
    OBVIOUS
  <2>2. T \subseteq Nat
    OBVIOUS
  <2>3. PICK i \in T : \A j \in T : i <= j
    BY <2>1, <2>2, LeastNatural
  <2>4. i \in 1..n /\ i - 1 \in 0..n /\ ~(i <= i - 1)
    BY <1>0, <1>4, <2>3 DEF Gathers
  <2>5. c[i - 1] = d[i - 1]
    BY <2>3, <2>4
  <2>6. c[i] = d[i]
    BY <1>4, <2>4, <2>5 DEF Gathers, n
  <2>. QED  BY <2>3, <2>6
<1>6. n \in 0..n
  BY <1>0
<1>. QED  BY <1>3, <1>5, <1>6 DEF n

LEMMA DataIsUnits == ASSUME NEW s \in Seq(Units) PROVE DataOf(s) \in Seq(Units)
<1>1. Len(s) \in Nat
  BY Sized
<1>2. PICK d : Gathers(s, d, Len(s))
  BY <1>1, GatheredUpTo
<1>. QED  BY <1>1, <1>2, DataIsGathered DEF Gathers

LEMMA AppendBehind ==
    ASSUME NEW a \in Seq(Units), NEW b \in Seq(Units), NEW x \in Units
    PROVE  a \o Append(b, x) = Append(a \o b, x)
<1>1. /\ Len(a \o Append(b, x)) = Len(Append(a \o b, x))
      /\ a \o Append(b, x) \in Seq(Units) /\ Append(a \o b, x) \in Seq(Units)
  BY Sized
<1>2. ASSUME NEW k \in 1..Len(a \o Append(b, x))
      PROVE  (a \o Append(b, x))[k] = Append(a \o b, x)[k]
  BY Sized
<1>. QED  BY <1>1, <1>2

LEMMA DataOfBoth ==
    ASSUME NEW s \in Seq(Units), NEW r \in Seq(Units)
    PROVE  DataOf(s \o r) = DataOf(s) \o DataOf(r)
<1>. DEFINE n == Len(s)
            m == Len(r)
            b == s \o r
<1>1. /\ n \in Nat /\ m \in Nat /\ b \in Seq(Units) /\ Len(b) = n + m
      /\ \A i \in 1..n : b[i] = s[i] /\ s[i] \in Units
      /\ \A i \in 1..m : b[n + i] = r[i] /\ r[i] \in Units
  BY Sized
<1>2. PICK d : Gathers(s, d, n)
  BY <1>1, GatheredUpTo
<1>3. PICK e : Gathers(r, e, m)
  BY <1>1, GatheredUpTo
<1>. HIDE DEF b
<1>4. DataOf(s) = d[n] /\ DataOf(r) = e[m] /\ d[n] \in Seq(Units)
  <2>1. n \in 0..n /\ d[n] \in Seq(Units)
    BY <1>1, <1>2 DEF Gathers
  <2>2. DataOf(s) = d[n]
    BY <1>2, DataIsGathered
  <2>3. DataOf(r) = e[m]
    BY <1>3, DataIsGathered
  <2>. QED  BY <2>1, <2>2, <2>3
<1>. HIDE DEF n, m
<1>. DEFINE f == [i \in 0..(n + m) |-> IF i <= n THEN d[i] ELSE d[n] \o e[i - n]]
<1>5. f \in [0..(n + m) -> Seq(Units)]
  <2>1. ASSUME NEW i \in 0..(n + m) PROVE (IF i <= n THEN d[i] ELSE d[n] \o e[i - n]) \in Seq(Units)
    <3>1. CASE i <= n
      <4>1. i \in 0..n
        BY <1>1, <3>1
      <4>. QED  BY <1>2, <3>1, <4>1 DEF Gathers
    <3>2. CASE ~(i <= n)
      <4>1. i - n \in 0..m
        BY <1>1, <3>2
      <4>2. e[i - n] \in Seq(Units)
        BY <1>3, <4>1 DEF Gathers
      <4>. QED  BY <1>4, <3>2, <4>2
    <3>. QED  BY <3>1, <3>2
  <2>. QED  BY <2>1
<1>6. f[0] = <<>>
  BY <1>1, <1>2 DEF Gathers
<1>7. ASSUME NEW i \in 1..(n + m)
      PROVE  f[i] = IF IsData(b[i]) THEN Append(f[i - 1], b[i]) ELSE f[i - 1]
  <2>1. CASE i <= n
    <3>1. i \in 1..n /\ f[i] = d[i] /\ f[i - 1] = d[i - 1] /\ b[i] = s[i]
      BY <1>1, <2>1
    <3>. QED  BY <1>2, <3>1 DEF Gathers
  <2>2. CASE ~(i <= n)
    <3>. DEFINE j == i - n
    <3>1. j \in 1..m /\ n + j = i /\ j - 1 \in 0..m /\ j - 1 = (i - 1) - n /\ i \in 0..(n + m)
          /\ i - 1 \in 0..(n + m)
      BY <1>1, <2>2
    <3>2. f[i] = d[n] \o e[j]
      BY <2>2, <3>1
    <3>3. f[i - 1] = d[n] \o e[j - 1]
      <4>1. CASE j = 1
        <5>1. i - 1 = n /\ e[j - 1] = <<>> /\ f[i - 1] = d[n]
          BY <1>1, <1>3, <3>1, <4>1 DEF Gathers
        <5>. QED  BY <1>4, <5>1
      <4>2. CASE j # 1
        <5>1. ~(i - 1 <= n)
          BY <1>1, <3>1, <4>2
        <5>. QED  BY <3>1, <5>1
      <4>. QED  BY <4>1, <4>2
    <3>. HIDE DEF j, f
    <3>4. /\ b[i] = r[j] /\ r[j] \in Units /\ e[j - 1] \in Seq(Units)
          /\ e[j] = IF IsData(r[j]) THEN Append(e[j - 1], r[j]) ELSE e[j - 1]
      BY <1>1, <1>3, <3>1 DEF Gathers
    <3>5. d[n] \o Append(e[j - 1], r[j]) = Append(d[n] \o e[j - 1], r[j])
      BY <1>4, <3>4, AppendBehind
    <3>. QED  BY <3>2, <3>3, <3>4, <3>5
  <2>. QED  BY <2>1, <2>2
<1>8. f[n + m] = d[n] \o e[m]
  <2>1. CASE m = 0
    <3>1. e[m] = <<>> /\ n + m = n /\ f[n + m] = d[n]
      BY <1>1, <1>3, <2>1 DEF Gathers
    <3>. QED  BY <1>4, <3>1
  <2>2. CASE m # 0
    <3>1. ~(n + m <= n) /\ (n + m) - n = m /\ n + m \in 0..(n + m)
      BY <1>1, <2>2
    <3>. QED  BY <3>1
  <2>. QED  BY <2>1, <2>2
<1>. HIDE DEF f
<1>9. Gathers(b, f, Len(b))
  BY <1>1, <1>5, <1>6, <1>7 DEF Gathers
<1>10. DataOf(b) = f[n + m]
  BY <1>1, <1>9, DataIsGathered
<1>. QED  BY <1>4, <1>8, <1>10 DEF b

LEMMA NoDataIn ==
    ASSUME NEW s \in Seq(Units), \A i \in 1..Len(s) : ~IsData(s[i])
    PROVE  DataOf(s) = <<>>
<1>. DEFINE d == [i \in 0..Len(s) |-> <<>>]
<1>1. Len(s) \in Nat
  BY Sized
<1>2. Gathers(s, d, Len(s))
  BY <1>1 DEF Gathers
<1>. QED  BY <1>1, <1>2, DataIsGathered

LEMMA AllDataIn ==
    ASSUME NEW s \in Seq(Units), \A i \in 1..Len(s) : IsData(s[i])
    PROVE  DataOf(s) = s
<1>. DEFINE d == [i \in 0..Len(s) |-> SubSeq(s, 1, i)]
<1>1. Len(s) \in Nat
  BY Sized
<1>2. ASSUME NEW i \in 0..Len(s)
      PROVE  /\ SubSeq(s, 1, i) \in Seq(Units) /\ Len(SubSeq(s, 1, i)) = i
             /\ \A k \in 1..i : SubSeq(s, 1, i)[k] = s[k]
  BY <1>1
<1>3. ASSUME NEW i \in 1..Len(s) PROVE SubSeq(s, 1, i) = Append(SubSeq(s, 1, i - 1), s[i])
  <2>1. i - 1 \in 0..Len(s) /\ i \in 0..Len(s) /\ s[i] \in Units
    BY <1>1
  <2>. DEFINE p == SubSeq(s, 1, i - 1)
              q == SubSeq(s, 1, i)
  <2>2. p \in Seq(Units) /\ Len(p) = i - 1 /\ \A k \in 1..(i - 1) : p[k] = s[k]
    BY <1>2, <2>1
  <2>3. q \in Seq(Units) /\ Len(q) = i /\ \A k \in 1..i : q[k] = s[k]
    BY <1>2, <2>1
  <2>. HIDE DEF p, q
  <2>4. q = Append(p, s[i])
    BY <2>1, <2>2, <2>3
  <2>. QED  BY <2>4 DEF p, q
<1>4. d[0] = <<>> /\ d[Len(s)] = s
  <2>1. /\ SubSeq(s, 1, 0) \in Seq(Units) /\ Len(SubSeq(s, 1, 0)) = 0
    BY <1>1, <1>2
  <2>2. SubSeq(s, 1, Len(s)) = s
    BY <1>1
  <2>. QED  BY <1>1, <2>1, <2>2
<1>5. Gathers(s, d, Len(s))
  <2>1. ASSUME NEW i \in 1..Len(s) PROVE d[i] = Append(d[i - 1], s[i])
    BY <1>1, <1>3
  <2>2. d \in [0..Len(s) -> Seq(Units)]
    BY <1>2
  <2>. HIDE DEF d
  <2>. QED  BY <1>4, <2>1, <2>2 DEF Gathers
<1>. QED  BY <1>4, <1>5, DataIsGathered

\* Data at the end is data.
LEMMA SomeDataIn ==
    ASSUME NEW s \in Seq(Units), Len(s) >= 1, IsData(s[Len(s)])
    PROVE  DataOf(s) # <<>>
<1>1. Len(s) \in Nat /\ Len(s) \in 1..Len(s) /\ s[Len(s)] \in Units
  BY Sized
<1>2. PICK d : Gathers(s, d, Len(s))
  BY <1>1, GatheredUpTo
<1>3. d[Len(s)] = Append(d[Len(s) - 1], s[Len(s)]) /\ d[Len(s) - 1] \in Seq(Units)
  <2>1. Len(s) - 1 \in 0..Len(s)
    BY <1>1
  <2>. QED  BY <1>1, <1>2, <2>1 DEF Gathers
<1>4. ASSUME NEW q \in Seq(Units), NEW v \in Units PROVE Append(q, v) # <<>>
  OBVIOUS
<1>. QED  BY <1>2, <1>3, <1>4, DataIsGathered

-----------------------------------------------------------------------------
(* Records passed over.                                                      *)

LEMMA FirstEndIs ==
    ASSUME NEW in \in Seq(Units), NEW skip
    PROVE  LET i == FirstEnd(in, skip) IN
           /\ i = 0 => \A j \in Ends(in) : in[j].kind \in skip
           /\ i # 0 => /\ i \in Ends(in) /\ in[i].kind \notin skip
                       /\ \A j \in Ends(in) : j < i => in[j].kind \in skip
<1>. DEFINE T == {i \in Ends(in) : in[i].kind \notin skip}
<1>1. T \subseteq Nat /\ Ends(in) \subseteq 1..Len(in) /\ Len(in) \in Nat
  BY Sized DEF Ends
<1>2. CASE T = {}
  BY <1>2 DEF FirstEnd
<1>3. CASE T # {}
  <2>1. PICK i \in T : \A j \in T : i <= j
    BY <1>1, <1>3, LeastNatural
  <2>2. \A j \in Ends(in) : j < i => in[j].kind \in skip
    BY <1>1, <2>1
  <2>. DEFINE f == FirstEnd(in, skip)
  <2>3. f = CHOOSE k \in Ends(in) :
                in[k].kind \notin skip /\ \A j \in Ends(in) : j < k => in[j].kind \in skip
    BY <1>3 DEF FirstEnd
  <2>4. /\ f \in Ends(in) /\ in[f].kind \notin skip
        /\ \A j \in Ends(in) : j < f => in[j].kind \in skip
    BY <2>1, <2>2, <2>3
  <2>5. f # 0
    BY <1>1, <2>4
  <2>. QED  BY <2>4, <2>5
<1>. QED  BY <1>2, <1>3

LEMMA LastEndIs ==
    ASSUME NEW in \in Seq(Units)
    PROVE  LastEnd(in) # 0 => LastEnd(in) \in Ends(in)
<1>. DEFINE T == {Len(in) - i : i \in Ends(in)}
<1>1. Ends(in) \subseteq 1..Len(in) /\ Len(in) \in Nat /\ T \subseteq Nat
  BY Sized DEF Ends
<1>2. CASE Ends(in) = {}
  BY <1>2 DEF LastEnd
<1>3. CASE Ends(in) # {}
  <2>1. PICK m \in T : \A k \in T : m <= k
    BY <1>1, <1>3, LeastNatural
  <2>2. PICK i \in Ends(in) : m = Len(in) - i
    BY <2>1
  <2>3. ASSUME NEW j \in Ends(in) PROVE j <= i
    <3>1. Len(in) - j \in T
      OBVIOUS
    <3>2. m <= Len(in) - j
      BY <2>1, <3>1
    <3>. QED  BY <1>1, <2>2, <3>2
  <2>4. LastEnd(in) = CHOOSE k \in Ends(in) : \A j \in Ends(in) : j <= k
    BY <1>3 DEF LastEnd
  <2>. QED  BY <2>2, <2>3, <2>4
<1>. QED  BY <1>2, <1>3

\* The kinds of the records up to an end are the kinds of their units.
LEMMA KindsUpTo ==
    ASSUME NEW in \in Seq(Units), OneKindEach(in), NEW i \in Ends(in), NEW K,
           in[i].kind \in K, \A j \in Ends(in) : j < i => in[j].kind \in K
    PROVE  \A k \in 1..i : in[k].kind \in K
<1>. DEFINE B == {k \in 1..i : in[k].kind \notin K}
            T == {i - k : k \in B}
<1>1. SUFFICES ASSUME B # {} PROVE FALSE
  OBVIOUS
<1>2. Len(in) \in Nat /\ i \in 1..Len(in) /\ T \subseteq Nat /\ T # {}
  BY <1>1, Sized DEF Ends
<1>3. PICK m \in T : \A o \in T : m <= o
  BY <1>2, LeastNatural
<1>4. PICK k \in B : m = i - k
  BY <1>3
<1>5. k \in 1..i /\ in[k].kind \notin K /\ k # i /\ k \notin Ends(in)
  BY <1>2, <1>4
<1>6. ~in[k].last /\ k \in 1..(Len(in) - 1)
  BY <1>2, <1>5 DEF Ends
<1>7. in[k + 1].kind = in[k].kind
  BY <1>6 DEF OneKindEach
<1>8. k + 1 \in B /\ i - (k + 1) < i - k /\ i - (k + 1) \in T
  BY <1>2, <1>5, <1>7
<1>9. m <= i - (k + 1) /\ m = i - k
  BY <1>3, <1>4, <1>8
<1>. HIDE DEF B, T
<1>. QED  BY <1>2, <1>5, <1>9

LEMMA Joined ==
    ASSUME NEW a \in Seq(Units), NEW b \in Seq(Units)
    PROVE  /\ a \o b \in Seq(Units) /\ Len(a \o b) = Len(a) + Len(b)
           /\ \A k \in 1..Len(a) : (a \o b)[k] = a[k]
           /\ \A k \in 1..Len(b) : (a \o b)[Len(a) + k] = b[k]
  BY Sized

LEMMA InARow ==
    ASSUME NEW a \in Seq(Units), NEW b \in Seq(Units), NEW c \in Seq(Units)
    PROVE  (a \o b) \o c = a \o (b \o c)
  OBVIOUS

\* What is read in two pieces.
LEMMA CutInTwo ==
    ASSUME NEW in \in Seq(Units), NEW later \in Seq(Units), NEW i \in 0..Len(in),
           OneKindEach(in \o later)
    PROVE  /\ SubSeq(in, 1, i) \in Seq(Units) /\ After(in, i) \in Seq(Units)
           /\ OneKindEach(in) /\ OneKindEach(After(in, i) \o later)
           /\ DataOf(in \o later) = DataOf(SubSeq(in, 1, i)) \o DataOf(After(in, i) \o later)
<1>. DEFINE a == SubSeq(in, 1, i)
            b == After(in, i)
            n == Len(in)
            m == Len(later)
<1>1. n \in Nat /\ m \in Nat /\ i \in Nat /\ i <= n
  BY Sized
<1>2. a \in Seq(Units) /\ Len(a) = i /\ \A k \in 1..i : a[k] = in[k]
  BY <1>1
<1>3. b \in Seq(Units) /\ Len(b) = n - i /\ \A k \in 1..(n - i) : b[k] = in[k + i]
  BY AfterIsInput
<1>. HIDE DEF a, b, n, m
<1>4. /\ in \o later \in Seq(Units) /\ Len(in \o later) = n + m
      /\ \A k \in 1..n : (in \o later)[k] = in[k]
      /\ \A k \in 1..m : (in \o later)[n + k] = later[k]
  BY <1>1, Joined DEF n, m
<1>5. /\ b \o later \in Seq(Units) /\ Len(b \o later) = (n - i) + m
      /\ \A k \in 1..((n - i) + m) : (b \o later)[k] = (in \o later)[k + i]
  <2>1. /\ b \o later \in Seq(Units) /\ Len(b \o later) = (n - i) + m
        /\ \A k \in 1..(n - i) : (b \o later)[k] = b[k]
        /\ \A k \in 1..m : (b \o later)[(n - i) + k] = later[k]
    <3>1. /\ b \o later \in Seq(Units) /\ Len(b \o later) = Len(b) + Len(later)
          /\ \A k \in 1..Len(b) : (b \o later)[k] = b[k]
          /\ \A k \in 1..Len(later) : (b \o later)[Len(b) + k] = later[k]
      BY <1>3, Joined
    <3>. QED  BY <1>3, <3>1 DEF m
  <2>2. ASSUME NEW k \in 1..((n - i) + m) PROVE (b \o later)[k] = (in \o later)[k + i]
    <3>1. CASE k <= n - i
      <4>1. k \in 1..(n - i) /\ k + i \in 1..n
        BY <1>1, <3>1
      <4>. QED  BY <1>3, <1>4, <2>1, <4>1
    <3>2. CASE ~(k <= n - i)
      <4>1. k - (n - i) \in 1..m /\ (n - i) + (k - (n - i)) = k /\ n + (k - (n - i)) = k + i
        BY <1>1, <3>2
      <4>. QED  BY <1>4, <2>1, <4>1
    <3>. QED  BY <3>1, <3>2
  <2>. QED  BY <2>1, <2>2
<1>6. OneKindEach(in)
  <2>1. ASSUME NEW k \in 1..(n - 1), ~in[k].last PROVE in[k + 1].kind = in[k].kind
    <3>1. k \in 1..n /\ k + 1 \in 1..n /\ k \in 1..((n + m) - 1)
      BY <1>1
    <3>. QED  BY <1>4, <2>1, <3>1 DEF OneKindEach
  <2>. QED  BY <2>1 DEF OneKindEach, n
<1>7. OneKindEach(b \o later)
  <2>1. ASSUME NEW k \in 1..((n - i) + m - 1), ~(b \o later)[k].last
        PROVE  (b \o later)[k + 1].kind = (b \o later)[k].kind
    <3>1. /\ k \in 1..((n - i) + m) /\ k + 1 \in 1..((n - i) + m)
          /\ k + i \in 1..((n + m) - 1) /\ (k + i) + 1 = (k + 1) + i
      BY <1>1
    <3>2. (b \o later)[k] = (in \o later)[k + i] /\ (b \o later)[k + 1] = (in \o later)[(k + i) + 1]
      <4>1. \A j \in 1..((n - i) + m) : (b \o later)[j] = (in \o later)[j + i]
        BY <1>5
      <4>2. (b \o later)[k + 1] = (in \o later)[(k + 1) + i]
        BY <3>1, <4>1
      <4>3. (b \o later)[k] = (in \o later)[k + i]
        BY <3>1, <4>1
      <4>. QED  BY <3>1, <4>2, <4>3
    <3>. QED  BY <1>4, <2>1, <3>1, <3>2 DEF OneKindEach
  <2>. QED  BY <1>1, <1>5, <2>1 DEF OneKindEach
<1>8. in \o later = a \o (b \o later)
  <2>. DEFINE r == b \o later
  <2>1. r \in Seq(Units) /\ Len(r) = (n - i) + m /\ \A k \in 1..((n - i) + m) : r[k] = (in \o later)[k + i]
    BY <1>5
  <2>. HIDE DEF r
  <2>2. /\ a \o r \in Seq(Units) /\ Len(a \o r) = n + m
        /\ \A k \in 1..i : (a \o r)[k] = a[k]
        /\ \A k \in 1..((n - i) + m) : (a \o r)[i + k] = r[k]
    <3>1. i + ((n - i) + m) = n + m
      BY <1>1
    <3>2. /\ a \o r \in Seq(Units) /\ Len(a \o r) = Len(a) + Len(r)
          /\ \A k \in 1..Len(a) : (a \o r)[k] = a[k]
          /\ \A k \in 1..Len(r) : (a \o r)[Len(a) + k] = r[k]
      BY <1>2, <2>1, Joined
    <3>. QED  BY <1>2, <2>1, <3>1, <3>2
  <2>3. ASSUME NEW k \in 1..(n + m) PROVE (in \o later)[k] = (a \o r)[k]
    <3>1. CASE k <= i
      <4>1. k \in 1..i /\ k \in 1..n
        BY <1>1, <3>1
      <4>. QED  BY <1>2, <1>4, <2>2, <4>1
    <3>2. CASE ~(k <= i)
      <4>1. k - i \in 1..((n - i) + m) /\ i + (k - i) = k /\ (k - i) + i = k
        BY <1>1, <3>2
      <4>. QED  BY <2>1, <2>2, <4>1
    <3>. QED  BY <3>1, <3>2
  <2>. DEFINE x == in \o later
              y == a \o r
  <2>4. x \in Seq(Units) /\ y \in Seq(Units) /\ Len(x) = Len(y) /\ \A k \in 1..Len(x) : x[k] = y[k]
    BY <1>4, <2>2, <2>3
  <2>. HIDE DEF x, y
  <2>5. x = y
    BY <2>4
  <2>. QED  BY <2>5 DEF x, y, r
<1>9. DataOf(a \o (b \o later)) = DataOf(a) \o DataOf(b \o later)
  BY <1>2, <1>5, DataOfBoth
<1>. QED  BY <1>2, <1>3, <1>6, <1>7, <1>8, <1>9 DEF a, b

-----------------------------------------------------------------------------
(* The plaintext an engine owes its caller.                                  *)

\* It has neither failed nor seen the end.
Alive(t) == t.phase # "FAILED" /\ t.status # "ERROR" /\ ~t.closed

Texts(t) == t.got \in Seq(Units) /\ t.ready \in Seq(Units)

Plain(t, later) == t.got \o t.ready \o DataOf(t.in \o later)

\* u has and owes what t did, whatever is still to come.
Kept(t, u) ==
    \A later \in Seq(Units) : OneKindEach(t.in \o later) =>
        OneKindEach(u.in \o later) /\ Plain(u, later) = Plain(t, later)

\* Nothing else about the stream changes between t and u.
SameTexts(t, u) ==
    u.stream = t.stream /\ u.got = t.got /\ u.ready = t.ready /\ u.closed = t.closed

LEMMA PassedOver ==
    ASSUME NEW t, Engine(t), NEW u, u.got = t.got, u.ready = t.ready,
           NEW i \in 0..Len(t.in), u.in = After(t.in, i),
           i # 0 => i \in Ends(t.in),
           \A j \in Ends(t.in) : j <= i => t.in[j].kind # "DATA"
    PROVE  Kept(t, u)
<1>1. t.in \in Seq(Units) /\ Len(t.in) \in Nat
  BY Sized DEF Engine
<1>. SUFFICES ASSUME NEW later \in Seq(Units), OneKindEach(t.in \o later)
              PROVE  OneKindEach(u.in \o later) /\ Plain(u, later) = Plain(t, later)
  BY DEF Kept
<1>. DEFINE a == SubSeq(t.in, 1, i)
<1>2. /\ a \in Seq(Units) /\ u.in \in Seq(Units)
      /\ OneKindEach(t.in) /\ OneKindEach(u.in \o later)
      /\ DataOf(t.in \o later) = DataOf(a) \o DataOf(u.in \o later)
  <2>1. PICK in : in = t.in
    OBVIOUS
  <2>2. in \in Seq(Units) /\ i \in 0..Len(in) /\ OneKindEach(in \o later)
    BY <1>1, <2>1
  <2>3. /\ SubSeq(in, 1, i) \in Seq(Units) /\ After(in, i) \in Seq(Units)
        /\ OneKindEach(in) /\ OneKindEach(After(in, i) \o later)
        /\ DataOf(in \o later) = DataOf(SubSeq(in, 1, i)) \o DataOf(After(in, i) \o later)
    BY <2>2, CutInTwo
  <2>. QED  BY <2>1, <2>3
<1>3. Len(a) = i /\ \A k \in 1..i : a[k] = t.in[k]
  BY <1>1
<1>. HIDE DEF a
<1>4. \A k \in 1..i : ~IsData(a[k])
  <2>1. CASE i = 0
    BY <2>1
  <2>2. CASE i # 0
    <3>. DEFINE K == RecordKinds \ {"DATA"}
    <3>1. /\ i \in Ends(t.in) /\ Ends(t.in) \subseteq 1..Len(t.in)
          /\ \A j \in 1..Len(t.in) : t.in[j].kind \in RecordKinds
      <4>1. \A j \in 1..Len(t.in) : t.in[j] \in Units
        BY <1>1
      <4>. QED  BY <2>2, <4>1 DEF Ends, Units
    <3>2. t.in[i].kind \in K /\ \A j \in Ends(t.in) : j < i => t.in[j].kind \in K
      BY <1>1, <3>1
    <3>. HIDE DEF K
    <3>3. \A k \in 1..i : t.in[k].kind \in K
      BY <1>1, <1>2, <3>1, <3>2, KindsUpTo
    <3>. QED  BY <1>3, <3>3 DEF K, IsData
  <2>. QED  BY <2>1, <2>2
<1>5. DataOf(a) = <<>>
  BY <1>2, <1>3, <1>4, NoDataIn
<1>6. DataOf(u.in \o later) \in Seq(Units)
  <2>1. u.in \o later \in Seq(Units)
    BY <1>2
  <2>. QED  BY <2>1, DataIsUnits
<1>7. DataOf(t.in \o later) = DataOf(u.in \o later)
  BY <1>2, <1>5, <1>6
<1>. QED  BY <1>2, <1>7 DEF Plain

LEMMA NothingPassed ==
    ASSUME NEW t, NEW u, u.got = t.got, u.ready = t.ready, u.in = t.in
    PROVE  Kept(t, u)
  BY DEF Kept, Plain

LEMMA KeptOn ==
    ASSUME NEW t, NEW u, NEW v, Kept(t, u), Kept(u, v)
    PROVE  Kept(t, v)
  BY DEF Kept

LEMMA SslHandshakeKeeps ==
    ASSUME NEW t, Engine(t)
    PROVE  LET u == SslHandshake(t) IN
           /\ SameTexts(t, u) /\ u.status = t.status
           /\ u.phase # "FAILED" => Kept(t, u)
<1>. DEFINE i == FirstEnd(t.in, {"MID"})
            past == IF i = 0 THEN LastEnd(t.in) ELSE i
            rest == [t EXCEPT !.in = After(@, past)]
            kind == t.in[i].kind
            u == SslHandshake(t)
<1>1. /\ past \in 0..Len(t.in) /\ Len(t.in) \in Nat /\ t.in \in Seq(Units)
      /\ past # 0 => past \in Ends(t.in)
  BY FirstEndFound, LastEndFound, FirstEndIs, LastEndIs, Sized DEF Engine
<1>2. \A j \in Ends(t.in) : j <= past => t.in[j].kind = "MID" \/ (i # 0 /\ t.in[j].kind = kind)
  <2>1. /\ i = 0 => \A j \in Ends(t.in) : t.in[j].kind \in {"MID"}
        /\ i # 0 => \A j \in Ends(t.in) : j < i => t.in[j].kind \in {"MID"}
    BY <1>1, FirstEndIs
  <2>2. i # 0 => \A j \in Ends(t.in) : j <= i => j < i \/ j = i
    BY <1>1 DEF Ends
  <2>. QED  BY <2>1, <2>2
<1>3. /\ SameTexts(t, rest) /\ rest.status = t.status /\ rest.in = After(t.in, past)
      /\ DOMAIN rest = Fields /\ rest.phase = t.phase
  BY DEF SameTexts, Engine, Fields
<1>4. kind # "DATA" \/ i = 0 => Kept(t, rest)
  <2>1. SUFFICES ASSUME kind # "DATA" \/ i = 0 PROVE Kept(t, rest)
    OBVIOUS
  <2>2. \A j \in Ends(t.in) : j <= past => t.in[j].kind # "DATA"
    BY <1>2, <2>1
  <2>. HIDE DEF rest, past, kind, i
  <2>. QED  BY <1>1, <1>3, <2>2, PassedOver DEF SameTexts
<1>5. u = CASE t.phase = "NEW" -> [t EXCEPT !.phase = "WAITING", !.out = @ + Output.NEW]
            [] t.phase # "NEW" /\ t.phase # "WAITING" -> t
            [] t.phase = "WAITING" /\ i = 0 -> rest
            [] t.phase = "WAITING" /\ i # 0 /\ kind = "FLIGHT" -> [rest EXCEPT !.out = @ + Output.FLIGHT]
            [] t.phase = "WAITING" /\ i # 0 /\ kind \in {"FIN", "FINOUT"} /\ Verified(t).ok ->
                  [Verify(rest) EXCEPT !.phase = "COMPLETE", !.dry = FALSE,
                                       !.out = IF kind = "FIN" THEN @ ELSE @ + Output.FINOUT]
            [] OTHER -> [Verify(rest) EXCEPT !.phase = "FAILED", !.out = @ + 1]
  BY DEF SslHandshake
<1>. HIDE DEF i, past, rest, kind, u
<1>6. CASE t.phase # "WAITING"
  <2>1. u = t \/ u = [t EXCEPT !.phase = "WAITING", !.out = @ + Output.NEW]
    BY <1>5, <1>6
  <2>2. SameTexts(t, u) /\ u.status = t.status /\ u.in = t.in
    BY <2>1 DEF SameTexts, Engine, Fields
  <2>. QED  BY <2>2, NothingPassed DEF SameTexts, u
<1>7. CASE t.phase = "WAITING" /\ i = 0
  <2>1. u = rest
    BY <1>5, <1>7
  <2>. QED  BY <1>3, <1>4, <1>7, <2>1 DEF u
<1>8. CASE t.phase = "WAITING" /\ i # 0
  <2>1. \/ /\ kind \in {"FLIGHT", "FIN", "FINOUT"}
           /\ \E v \in {rest, Verify(rest)}, phase \in {"WAITING", "COMPLETE"} : \E out, dry :
                u = [v EXCEPT !.phase = phase, !.dry = dry, !.out = out]
        \/ u = [Verify(rest) EXCEPT !.phase = "FAILED", !.out = @ + 1]
    <3>1. CASE kind = "FLIGHT"
      <4>1. u = [rest EXCEPT !.out = @ + Output.FLIGHT]
        BY <1>5, <1>8, <3>1
      <4>2. u = [rest EXCEPT !.phase = "WAITING", !.dry = rest.dry, !.out = rest.out + Output.FLIGHT]
        BY <1>3, <1>8, <4>1 DEF Fields
      <4>. QED  BY <3>1, <4>2
    <3>2. CASE kind \in {"FIN", "FINOUT"} /\ Verified(t).ok
      <4>1. u = [Verify(rest) EXCEPT !.phase = "COMPLETE", !.dry = FALSE,
                                     !.out = IF kind = "FIN" THEN @ ELSE @ + Output.FINOUT]
        BY <1>5, <1>8, <3>2
      <4>. QED  BY <3>2, <4>1
    <3>3. CASE kind # "FLIGHT" /\ ~(kind \in {"FIN", "FINOUT"} /\ Verified(t).ok)
      BY <1>5, <1>8, <3>3
    <3>. QED  BY <3>1, <3>2, <3>3
  <2>2. /\ SameTexts(rest, u) /\ u.status = rest.status /\ u.in = rest.in
        /\ kind \in {"FLIGHT", "FIN", "FINOUT"} \/ u.phase = "FAILED"
    <3>1. /\ SameTexts(rest, Verify(rest)) /\ Verify(rest).status = rest.status
          /\ Verify(rest).in = rest.in /\ DOMAIN Verify(rest) = Fields
      BY <1>3 DEF Verify, SameTexts, Fields
    <3>2. CASE u = [Verify(rest) EXCEPT !.phase = "FAILED", !.out = @ + 1]
      BY <3>1, <3>2 DEF SameTexts, Fields
    <3>3. CASE /\ kind \in {"FLIGHT", "FIN", "FINOUT"}
               /\ \E v \in {rest, Verify(rest)}, phase \in {"WAITING", "COMPLETE"} : \E out, dry :
                    u = [v EXCEPT !.phase = phase, !.dry = dry, !.out = out]
      <4>1. PICK v \in {rest, Verify(rest)}, phase \in {"WAITING", "COMPLETE"} : \E out, dry :
                    u = [v EXCEPT !.phase = phase, !.dry = dry, !.out = out]
        BY <3>3
      <4>2. SameTexts(rest, v) /\ v.status = rest.status /\ v.in = rest.in /\ DOMAIN v = Fields
        BY <1>3, <3>1, <4>1 DEF SameTexts
      <4>. QED  BY <3>3, <4>1, <4>2 DEF SameTexts, Fields
    <3>. QED  BY <2>1, <3>2, <3>3
  <2>3. u.phase # "FAILED" => Kept(t, u)
    <3>1. Kept(rest, u)
      BY <2>2, NothingPassed DEF SameTexts
    <3>. QED  BY <1>4, <2>2, <3>1, KeptOn
  <2>. QED  BY <1>3, <2>2, <2>3 DEF SameTexts, u
<1>. QED  BY <1>6, <1>7, <1>8

\* The plaintext that fits goes to the caller, at least one unit of it.
LEMMA FetchKeeps ==
    ASSUME NEW t, Engine(t), Texts(t), NEW room \in Nat \ {0}, t.ready # <<>>
    PROVE  LET u == Fetch(t, room) IN
           /\ Kept(t, u) /\ Texts(u) /\ u.stream = t.stream /\ u.closed = t.closed
           /\ u.phase = t.phase /\ u.n # 0
<1>. DEFINE n == Smaller(Len(t.ready), room)
            u == Fetch(t, room)
            r == t.ready
            head == SubSeq(r, 1, n)
            tail == After(r, n)
<1>1. r \in Seq(Units) /\ Len(r) \in Nat \ {0} /\ t.got \in Seq(Units)
  BY DEF Texts
<1>2. n \in 1..Len(r)
  BY <1>1 DEF Smaller
<1>3. /\ u.got = t.got \o head /\ u.ready = tail /\ u.n = n /\ u.in = t.in
      /\ u.phase = t.phase /\ u.stream = t.stream /\ u.closed = t.closed
  BY DEF Fetch, Engine, Fields
<1>. HIDE DEF n, r, u
<1>4. head \in Seq(Units) /\ Len(head) = n /\ \A k \in 1..n : head[k] = r[k]
  BY <1>1, <1>2
<1>5. tail \in Seq(Units) /\ Len(tail) = Len(r) - n /\ \A k \in 1..(Len(r) - n) : tail[k] = r[k + n]
  BY <1>1, <1>2, AfterIsInput
<1>. HIDE DEF head, tail
<1>6. head \o tail = r
  <2>1. /\ head \o tail \in Seq(Units) /\ Len(head \o tail) = Len(head) + Len(tail)
        /\ \A k \in 1..Len(head) : (head \o tail)[k] = head[k]
        /\ \A k \in 1..Len(tail) : (head \o tail)[Len(head) + k] = tail[k]
    BY <1>4, <1>5, Joined
  <2>2. ASSUME NEW k \in 1..Len(r) PROVE (head \o tail)[k] = r[k]
    <3>1. CASE k <= n
      BY <1>1, <1>2, <1>4, <2>1, <3>1
    <3>2. CASE ~(k <= n)
      <4>. DEFINE j == k - n
      <4>1. j \in 1..(Len(r) - n) /\ n + j = k /\ j + n = k
        BY <1>1, <1>2, <3>2
      <4>. HIDE DEF j
      <4>2. tail[j] = r[j + n]
        BY <1>5, <4>1
      <4>3. (head \o tail)[n + j] = tail[j]
        BY <1>4, <1>5, <2>1, <4>1
      <4>. QED  BY <4>1, <4>2, <4>3
    <3>. QED  BY <3>1, <3>2
  <2>3. Len(head \o tail) = Len(r)
    BY <1>1, <1>2, <1>4, <1>5, <2>1
  <2>. DEFINE x == head \o tail
  <2>4. x \in Seq(Units) /\ Len(x) = Len(r) /\ \A k \in 1..Len(r) : x[k] = r[k]
    BY <2>1, <2>2, <2>3
  <2>. HIDE DEF x
  <2>5. x = r
    BY <1>1, <2>4
  <2>. QED  BY <2>5 DEF x
<1>7. (t.got \o head) \o tail = t.got \o r
  <2>1. (t.got \o head) \o tail = t.got \o (head \o tail)
    BY <1>1, <1>4, <1>5, InARow
  <2>. QED  BY <1>6, <2>1
<1>8. Kept(t, u)
  BY <1>3, <1>7 DEF Kept, Plain, r
<1>9. Texts(u) /\ u.n # 0
  BY <1>1, <1>2, <1>3, <1>4, <1>5 DEF Texts
<1>. QED  BY <1>3, <1>8, <1>9 DEF u

\* A record of data is decrypted and is then ready to be fetched.
LEMMA DataPassed ==
    ASSUME NEW t, Engine(t), Texts(t), t.ready = <<>>, NEW skip, "DATA" \notin skip,
           FirstEnd(t.in, skip) # 0, t.in[FirstEnd(t.in, skip)].kind = "DATA",
           NEW u, u.got = t.got, u.ready = DataOf(SubSeq(t.in, 1, FirstEnd(t.in, skip))),
           u.in = After(t.in, FirstEnd(t.in, skip))
    PROVE  Kept(t, u) /\ Texts(u) /\ u.ready # <<>>
<1>. DEFINE i == FirstEnd(t.in, skip)
            a == SubSeq(t.in, 1, i)
<1>1. t.in \in Seq(Units) /\ Len(t.in) \in Nat /\ i \in Ends(t.in) /\ i \in 1..Len(t.in)
  BY FirstEndIs, Sized DEF Engine, Ends
<1>2. a \in Seq(Units) /\ Len(a) = i /\ a[i] = t.in[i]
  BY <1>1
<1>. HIDE DEF a, i
<1>3. u.got = t.got /\ u.ready = DataOf(a) /\ u.in = After(t.in, i) /\ t.in[i].kind = "DATA"
  BY DEF a, i
<1>4. u.ready # <<>>
  BY <1>1, <1>2, <1>3, SomeDataIn DEF IsData
<1>5. Texts(u)
  BY <1>2, <1>3, DataIsUnits DEF Texts
<1>6. ASSUME NEW later \in Seq(Units), OneKindEach(t.in \o later)
      PROVE  OneKindEach(u.in \o later) /\ Plain(u, later) = Plain(t, later)
  <2>1. /\ u.in \in Seq(Units) /\ OneKindEach(u.in \o later)
        /\ DataOf(t.in \o later) = DataOf(a) \o DataOf(u.in \o later)
    <3>1. i \in 0..Len(t.in)
      BY <1>1
    <3>2. /\ After(t.in, i) \in Seq(Units) /\ OneKindEach(After(t.in, i) \o later)
          /\ DataOf(t.in \o later) = DataOf(SubSeq(t.in, 1, i)) \o DataOf(After(t.in, i) \o later)
      BY <1>1, <1>6, <3>1, CutInTwo
    <3>. QED  BY <1>3, <3>2 DEF a
  <2>2. u.in \o later \in Seq(Units)
    BY <2>1
  <2>3. DataOf(u.in \o later) \in Seq(Units) /\ DataOf(a) \in Seq(Units) /\ t.got \in Seq(Units)
    BY <1>2, <2>2, DataIsUnits DEF Texts
  <2>4. Plain(t, later) = (t.got \o <<>>) \o (DataOf(a) \o DataOf(u.in \o later))
    BY <2>1 DEF Plain
  <2>5. Plain(u, later) = (t.got \o DataOf(a)) \o DataOf(u.in \o later)
    BY <1>3 DEF Plain
  <2>. DEFINE g == t.got
              d == DataOf(a)
              e == DataOf(u.in \o later)
  <2>. HIDE DEF g, d, e
  <2>6. g \in Seq(Units) /\ d \in Seq(Units) /\ e \in Seq(Units)
    BY <2>3 DEF g, d, e
  <2>7. (g \o <<>>) \o (d \o e) = (g \o d) \o e
    <3>1. g \o <<>> = g
      BY <2>6
    <3>2. g \o (d \o e) = (g \o d) \o e
      BY <2>6, InARow
    <3>. QED  BY <3>1, <3>2
  <2>. QED  BY <2>1, <2>4, <2>5, <2>7 DEF g, d, e
<1>. QED  BY <1>4, <1>5, <1>6 DEF Kept

\* What a call does for the stream, with this much new input.
Owes(t, chunk, u) ==
    /\ Texts(u) /\ u.stream = t.stream /\ (t.closed => u.closed)
    /\ Alive(u) => Kept(Feed(t, chunk), u)

LEMMA FedTexts ==
    ASSUME NEW t, Engine(t), Texts(t), NEW chunk \in Seq(Units)
    PROVE  /\ Engine(Feed(t, chunk)) /\ Texts(Feed(t, chunk)) /\ SameTexts(t, Feed(t, chunk))
           /\ Feed(t, chunk).phase = t.phase /\ Feed(t, chunk).status = t.status
<1>1. /\ Engine(Feed(t, chunk)) /\ \A f \in Fields \ {"in"} : Feed(t, chunk)[f] = t[f]
  BY FedIsEngine
<1>. QED  BY <1>1 DEF Texts, SameTexts, Fields

LEMMA OpenSslHandshakeOwes ==
    ASSUME NEW t, Engine(t), Texts(t), NEW chunk \in Seq(Units)
    PROVE  Owes(t, chunk, OpenSslHandshake(t, chunk))
<1>. DEFINE w == Feed(t, chunk)
            v == SslHandshake(w)
            u == OpenSslHandshake(t, chunk)
<1>1. CASE ~BioFits(t, chunk)
  <2>1. u = [t EXCEPT !.status = "ERROR"]
    BY <1>1 DEF OpenSslHandshake, Status
  <2>. QED  BY <2>1 DEF Engine, Fields, Owes, Texts, Alive
<1>2. CASE BioFits(t, chunk)
  <2>1. u = SslHandshakeStatus(v)
    BY <1>2 DEF OpenSslHandshake
  <2>2. Engine(w) /\ Texts(w) /\ SameTexts(t, w)
    BY FedTexts
  <2>3. Engine(v) /\ SameTexts(w, v) /\ (v.phase # "FAILED" => Kept(w, v))
    BY <2>2, SslHandshakeDoes, SslHandshakeKeeps
  <2>. HIDE DEF u, v, w
  <2>4. /\ SameTexts(v, u) /\ u.in = v.in
        /\ u.phase = v.phase
    <3>1. \/ u = Drain(v)
          \/ u = [Status(v, "OK") EXCEPT !.handshake_done = TRUE]
          \/ u = Status(v, "ERROR")
          \/ u = Status(v, "WANT_READ")
      BY <2>1 DEF SslHandshakeStatus
    <3>2. \/ \E out, n : u = [v EXCEPT !.out = out, !.n = n, !.status = "WANT_WRITE"]
          \/ u = [v EXCEPT !.status = "OK", !.handshake_done = TRUE]
          \/ \E status : u = [v EXCEPT !.status = status]
      BY <3>1 DEF Drain, Status
    <3>3. DOMAIN v = Fields
      BY <2>3 DEF Engine
    <3>. QED  BY <3>2, <3>3 DEF SameTexts, Fields
  <2>5. Alive(u) => Kept(w, u)
    <3>1. Kept(v, u)
      BY <2>4, NothingPassed DEF SameTexts
    <3>. QED  BY <2>3, <2>4, <3>1, KeptOn DEF Alive
  <2>6. Texts(u) /\ u.stream = t.stream /\ u.closed = t.closed
    BY <2>2, <2>3, <2>4 DEF Texts, SameTexts
  <2>. QED  BY <2>5, <2>6 DEF Owes, u, w
<1>. QED  BY <1>1, <1>2

\* One read of OpenSSL, which does not succeed with nothing unless at the end.
LEMMA SslReadKeeps ==
    ASSUME NEW t, Engine(t), Texts(t), NEW room \in Nat \ {0}
    PROVE  LET u == SslRead(t, room) IN
           /\ Texts(u) /\ u.stream = t.stream /\ (t.closed => u.closed)
           /\ Alive(u) => Kept(t, u)
           /\ u.status = "OK" /\ u.n = 0 => u.closed
<1>. DEFINE i == FirstEnd(t.in, Skipped)
            past == IF i = 0 THEN LastEnd(t.in) ELSE i
            rest == [t EXCEPT !.in = After(@, past), !.out = @ + KeyUpdates(t.in, past),
                              !.dry = FALSE]
            kind == t.in[i].kind
            plain == DataOf(SubSeq(t.in, 1, i))
            u == SslRead(t, room)
<1>1. /\ past \in 0..Len(t.in) /\ Len(t.in) \in Nat /\ t.in \in Seq(Units)
      /\ past # 0 => past \in Ends(t.in)
  BY FirstEndFound, LastEndFound, FirstEndIs, LastEndIs, Sized DEF Engine
<1>2. /\ SameTexts(t, rest) /\ rest.in = After(t.in, past) /\ DOMAIN rest = Fields
      /\ rest.phase = t.phase
  BY DEF SameTexts, Engine, Fields
<1>3. i = 0 => Kept(t, rest)
  <2>1. SUFFICES ASSUME i = 0 PROVE Kept(t, rest)
    OBVIOUS
  <2>2. \A j \in Ends(t.in) : t.in[j].kind \in Skipped
    BY <1>1, <2>1, FirstEndIs
  <2>3. \A j \in Ends(t.in) : j <= past => t.in[j].kind # "DATA"
    BY <2>2 DEF Skipped
  <2>. HIDE DEF rest, past, kind, i
  <2>. QED  BY <1>1, <1>2, <2>3, PassedOver DEF SameTexts
<1>4. u =
        CASE t.ready # <<>> -> Fetch(t, room)
          [] t.ready = <<>> /\ i # 0 /\ kind = "DATA" -> Fetch([rest EXCEPT !.ready = plain], room)
          [] t.ready = <<>> /\ i = 0 -> Status(rest, NothingYet)
          [] t.ready = <<>> /\ i # 0 /\ kind = "CLOSE" ->
                [Status(rest, IF errors THEN "ERROR" ELSE "OK") EXCEPT !.closed = TRUE]
          [] OTHER -> [Status(rest, "ERROR") EXCEPT !.phase = "FAILED"]
  BY DEF SslRead
<1>5. CASE t.ready # <<>>
  <2>1. u = Fetch(t, room)
    BY <1>4, <1>5
  <2>. QED  BY <1>5, <2>1, FetchKeeps
<1>6. CASE t.ready = <<>> /\ i # 0 /\ kind = "DATA"
  <2>. DEFINE v == [rest EXCEPT !.ready = plain]
  <2>1. u = Fetch(v, room)
    BY <1>4, <1>6
  <2>2. /\ v.got = t.got /\ v.ready = plain /\ v.in = After(t.in, i) /\ v.stream = t.stream
        /\ v.closed = t.closed
    BY <1>2, <1>6 DEF SameTexts, Fields
  <2>3. Engine(v)
    <3>1. Engine(rest)
      <4>1. KeyUpdates(t.in, past) \in Nat /\ After(t.in, past) \in Seq(Units)
        BY <1>1, AfterIsInput DEF KeyUpdates
      <4>. HIDE DEF past
      <4>. QED  BY <4>1 DEF Engine, Fields
    <3>. HIDE DEF rest, plain
    <3>. QED  BY <3>1 DEF Engine, Fields
  <2>. HIDE DEF v
  <2>4. Kept(t, v) /\ Texts(v) /\ v.ready # <<>>
    BY <1>6, <2>2, DataPassed DEF Skipped
  <2>5. /\ Kept(v, u) /\ Texts(u) /\ u.stream = v.stream /\ u.closed = v.closed /\ u.n # 0
    BY <2>1, <2>3, <2>4, FetchKeeps
  <2>6. Kept(t, u)
    BY <2>4, <2>5, KeptOn
  <2>. QED  BY <2>2, <2>5, <2>6
<1>. HIDE DEF i, past, rest, kind, plain, u
<1>7. CASE t.ready = <<>> /\ i = 0
  <2>1. u = [rest EXCEPT !.status = NothingYet] /\ NothingYet # "OK"
    BY <1>4, <1>7 DEF Status, NothingYet
  <2>2. SameTexts(t, u) /\ u.in = rest.in /\ u.status # "OK"
    BY <1>2, <2>1 DEF SameTexts, Fields
  <2>3. Kept(rest, u)
    BY <1>2, <2>2, NothingPassed DEF SameTexts
  <2>4. Kept(t, u)
    BY <1>3, <1>7, <2>3, KeptOn
  <2>. QED  BY <2>2, <2>4 DEF SameTexts, Texts, u
<1>8. CASE t.ready = <<>> /\ i # 0 /\ kind = "CLOSE"
  <2>1. u = [rest EXCEPT !.status = IF errors THEN "ERROR" ELSE "OK", !.closed = TRUE]
    BY <1>4, <1>8 DEF Status
  <2>2. u.closed /\ u.got = t.got /\ u.ready = t.ready /\ u.stream = t.stream
    BY <1>2, <2>1 DEF SameTexts, Fields
  <2>. QED  BY <2>2 DEF Alive, Texts, u
<1>9. CASE t.ready = <<>> /\ i # 0 /\ kind \notin {"DATA", "CLOSE"}
  <2>1. u = [rest EXCEPT !.status = "ERROR", !.phase = "FAILED"]
    BY <1>4, <1>9 DEF Status
  <2>2. SameTexts(t, u) /\ u.status = "ERROR"
    BY <1>2, <2>1 DEF SameTexts, Fields
  <2>. QED  BY <2>2 DEF SameTexts, Alive, Texts, u
<1>. QED  BY <1>5, <1>6, <1>7, <1>8, <1>9

LEMMA OpenSslDecryptOwes ==
    ASSUME NEW t, Engine(t), Texts(t), NEW chunk \in Seq(Units), NEW room \in Nat \ {0}
    PROVE  LET u == OpenSslDecrypt(t, chunk, room) IN
           Owes(t, chunk, u) /\ (u.status = "OK" /\ u.n = 0 => u.closed)
<1>1. CASE ~BioFits(t, chunk)
  <2>1. OpenSslDecrypt(t, chunk, room) = [t EXCEPT !.status = "ERROR"]
    BY <1>1 DEF OpenSslDecrypt, Status
  <2>. QED  BY <2>1 DEF Engine, Fields, Owes, Texts, Alive
<1>2. CASE BioFits(t, chunk)
  <2>. DEFINE w == Feed(t, chunk)
  <2>1. OpenSslDecrypt(t, chunk, room) = SslRead(w, room)
    BY <1>2 DEF OpenSslDecrypt
  <2>2. Engine(w) /\ Texts(w) /\ SameTexts(t, w)
    BY FedTexts
  <2>. HIDE DEF w
  <2>. QED  BY <2>1, <2>2, SslReadKeeps DEF Owes, SameTexts, w
<1>. QED  BY <1>1, <1>2

\* SChannel keeps no plaintext, and no more input than it has room for.
Holds(t) == t.ready = <<>> /\ Len(t.in) <= BufSize

LEMMA FedFits ==
    ASSUME NEW t, Engine(t), NEW chunk \in Seq(Units), AccumFits(t, chunk)
    PROVE  Len(Feed(t, chunk).in) <= BufSize
<1>1. Feed(t, chunk).in = t.in \o chunk
  BY FedIsEngine
<1>2. Len(t.in \o chunk) = Len(t.in) + Len(chunk)
  BY Joined DEF Engine
<1>. QED  BY <1>1, <1>2 DEF AccumFits

LEMMA LeftFits ==
    ASSUME NEW in \in Seq(Units), Len(in) <= BufSize, NEW i \in 0..Len(in)
    PROVE  Len(After(in, i)) <= BufSize
<1>1. Len(After(in, i)) = Len(in) - i /\ Len(in) \in Nat /\ BufSize \in Nat
  BY AfterIsInput, Sized, TlsAssumption
<1>. QED  BY <1>1

\* A record of data is handed out at once and whole.
LEMMA RecordHandedOut ==
    ASSUME NEW t, Engine(t), Texts(t), t.ready = <<>>, NEW i \in Ends(t.in),
           t.in[i].kind = "DATA", \A j \in Ends(t.in) : ~(j < i),
           NEW u, u.got = t.got \o SubSeq(t.in, 1, i), u.ready = <<>>, u.in = After(t.in, i)
    PROVE  Kept(t, u) /\ Texts(u)
<1>. DEFINE a == SubSeq(t.in, 1, i)
<1>1. t.in \in Seq(Units) /\ Len(t.in) \in Nat /\ i \in 0..Len(t.in)
  BY Sized DEF Engine, Ends
<1>2. a \in Seq(Units) /\ Len(a) = i /\ \A k \in 1..i : a[k] = t.in[k]
  BY <1>1
<1>3. u.got = t.got \o a /\ t.got \in Seq(Units)
  BY DEF Texts
<1>. HIDE DEF a
<1>4. ASSUME NEW later \in Seq(Units), OneKindEach(t.in \o later)
      PROVE  OneKindEach(u.in \o later) /\ Plain(u, later) = Plain(t, later)
  <2>1. /\ OneKindEach(t.in) /\ After(t.in, i) \in Seq(Units)
        /\ OneKindEach(After(t.in, i) \o later)
        /\ DataOf(t.in \o later) = DataOf(SubSeq(t.in, 1, i)) \o DataOf(After(t.in, i) \o later)
    BY <1>1, <1>4, CutInTwo
  <2>. DEFINE K == {"DATA"}
  <2>2. t.in[i].kind \in K /\ \A j \in Ends(t.in) : j < i => t.in[j].kind \in K
    OBVIOUS
  <2>. HIDE DEF K
  <2>3. \A k \in 1..i : t.in[k].kind \in K
    BY <1>1, <2>1, <2>2, KindsUpTo
  <2>4. DataOf(a) = a
    BY <1>2, <2>3, AllDataIn DEF K, IsData
  <2>. DEFINE e == DataOf(u.in \o later)
  <2>5. e \in Seq(Units)
    <3>1. u.in \o later \in Seq(Units)
      BY <2>1
    <3>. QED  BY <3>1, DataIsUnits
  <2>6. DataOf(t.in \o later) = a \o e
    BY <2>1, <2>4 DEF a
  <2>. HIDE DEF e
  <2>7. (t.got \o <<>>) \o (a \o e) = ((t.got \o a) \o <<>>) \o e
    <3>1. t.got \o <<>> = t.got /\ (t.got \o a) \o <<>> = t.got \o a
      BY <1>2, <1>3
    <3>2. (t.got \o a) \o e = t.got \o (a \o e)
      BY <1>2, <1>3, <2>5, InARow
    <3>. QED  BY <3>1, <3>2
  <2>. QED  BY <1>3, <2>1, <2>6, <2>7 DEF Plain, e
<1>5. Texts(u)
  BY <1>2, <1>3 DEF Texts
<1>. QED  BY <1>4, <1>5 DEF Kept

LEMMA SchannelDecryptOwes ==
    ASSUME NEW t, Engine(t), Texts(t), Holds(t), NEW chunk \in Seq(Units), NEW room
    PROVE  LET u == SchannelDecrypt(t, chunk, room) IN Owes(t, chunk, u) /\ Holds(u)
<1>1. CASE ~AccumFits(t, chunk)
  <2>1. SchannelDecrypt(t, chunk, room) = [t EXCEPT !.status = "ERROR"]
    BY <1>1 DEF SchannelDecrypt, Status
  <2>. QED  BY <2>1 DEF Engine, Fields, Owes, Texts, Alive, Holds
<1>2. CASE AccumFits(t, chunk)
  <2>. DEFINE w == Feed(t, chunk)
              u == OneRecord(w, room)
              i == FirstEnd(w.in, {})
              rest == [w EXCEPT !.in = After(@, i)]
              kind == w.in[i].kind
  <2>1. SchannelDecrypt(t, chunk, room) = u
    BY <1>2 DEF SchannelDecrypt
  <2>2. Engine(w) /\ Texts(w) /\ SameTexts(t, w) /\ Len(w.in) <= BufSize /\ w.ready = <<>>
    BY <1>2, FedTexts, FedFits DEF SameTexts, Holds
  <2>3. /\ w.in \in Seq(Units) /\ i \in 0..Len(w.in) /\ Len(After(w.in, i)) <= BufSize
        /\ i # 0 => i \in Ends(w.in) /\ \A j \in Ends(w.in) : ~(j < i)
    BY <2>2, FirstEndFound, FirstEndIs, LeftFits DEF Engine
  <2>4. SameTexts(w, rest) /\ rest.in = After(w.in, i) /\ DOMAIN rest = Fields
    BY <2>2 DEF SameTexts, Engine, Fields
  <2>5. u = CASE i = 0 -> Status(w, "WANT_READ")
              [] i # 0 /\ kind = "CLOSE" -> [Status(w, "OK") EXCEPT !.in = <<>>, !.closed = TRUE]
              [] i # 0 /\ kind \in {"TICKET", "KEYUPDATE", "EMPTY"} -> Status(rest, "OK")
              [] i # 0 /\ kind = "DATA" /\ i <= room ->
                    [Status(rest, "OK") EXCEPT !.got = @ \o SubSeq(w.in, 1, i), !.n = i]
              [] OTHER -> [Status(w, "ERROR") EXCEPT !.phase = "FAILED"]
    BY DEF OneRecord
  <2>. HIDE DEF w, u, i, rest, kind
  <2>6. SUFFICES /\ Texts(u) /\ u.stream = t.stream /\ (t.closed => u.closed)
                 /\ Alive(u) => Kept(w, u)
                 /\ Holds(u)
    BY <2>1 DEF Owes, w
  <2>7. CASE i = 0
    <3>1. u = [w EXCEPT !.status = "WANT_READ"]
      BY <2>5, <2>7 DEF Status
    <3>2. SameTexts(w, u) /\ u.in = w.in
      BY <2>2, <3>1 DEF SameTexts, Engine, Fields
    <3>. QED  BY <2>2, <3>2, NothingPassed DEF SameTexts, Texts, Holds
  <2>8. CASE i # 0 /\ kind = "CLOSE"
    <3>1. u = [w EXCEPT !.status = "OK", !.in = <<>>, !.closed = TRUE]
      BY <2>5, <2>8 DEF Status
    <3>2. u.stream = w.stream /\ u.got = w.got /\ u.ready = w.ready /\ u.closed /\ u.in = <<>>
      BY <2>2, <3>1 DEF Engine, Fields
    <3>3. Len(u.in) <= BufSize
      BY <3>2, TlsAssumption
    <3>. QED  BY <2>2, <3>2, <3>3 DEF SameTexts, Texts, Alive, Holds
  <2>9. CASE i # 0 /\ kind \in {"TICKET", "KEYUPDATE", "EMPTY"}
    <3>1. u = [rest EXCEPT !.status = "OK"]
      BY <2>5, <2>9 DEF Status
    <3>2. SameTexts(w, u) /\ u.in = After(w.in, i)
      BY <2>4, <3>1 DEF SameTexts, Fields
    <3>3. \A j \in Ends(w.in) : j <= i => w.in[j].kind # "DATA"
      <4>1. \A j \in Ends(w.in) : j <= i => j = i
        BY <2>3, <2>9 DEF Ends
      <4>. QED  BY <2>9, <4>1 DEF kind
    <3>4. Kept(w, u)
      BY <2>2, <2>3, <3>2, <3>3, PassedOver DEF SameTexts
    <3>. QED  BY <2>2, <2>3, <3>2, <3>4 DEF SameTexts, Texts, Holds
  <2>10. CASE i # 0 /\ kind = "DATA" /\ i <= room
    <3>1. u = [Status(rest, "OK") EXCEPT !.got = @ \o SubSeq(w.in, 1, i), !.n = i]
      BY <2>5, <2>10
    <3>2. /\ u.got = w.got \o SubSeq(w.in, 1, i) /\ u.ready = <<>> /\ u.in = After(w.in, i)
          /\ u.stream = w.stream /\ u.closed = w.closed
      BY <2>2, <2>4, <3>1 DEF SameTexts, Status, Fields
    <3>3. Kept(w, u) /\ Texts(u)
      BY <2>2, <2>3, <2>10, <3>2, RecordHandedOut DEF kind
    <3>. QED  BY <2>2, <2>3, <3>2, <3>3 DEF SameTexts, Holds
  <2>11. CASE /\ i # 0 /\ kind \notin {"CLOSE", "TICKET", "KEYUPDATE", "EMPTY"}
              /\ ~(kind = "DATA" /\ i <= room)
    <3>1. u = [w EXCEPT !.status = "ERROR", !.phase = "FAILED"]
      BY <2>5, <2>11 DEF Status
    <3>2. SameTexts(w, u) /\ u.in = w.in /\ u.status = "ERROR"
      BY <2>2, <3>1 DEF SameTexts, Engine, Fields
    <3>. QED  BY <2>2, <3>2 DEF SameTexts, Texts, Alive, Holds
  <2>. QED  BY <2>7, <2>8, <2>9, <2>10, <2>11
<1>. QED  BY <1>1, <1>2

\* SSPI uses up handshake messages only, and without input there is nothing to
\* lose.
LEMMA IscUses ==
    ASSUME NEW t, Engine(t), t.phase # "FAILED", t.phase = "NEW" => t.in = <<>>, NEW r \in Isc(t)
    PROVE  \/ r.status = "FAILED" /\ r.phase = "FAILED" /\ r.out = 0
           \/ /\ r.used # 0 => r.used \in Ends(t.in)
              /\ \A j \in Ends(t.in) : j <= r.used => t.in[j].kind # "DATA"
<1>. DEFINE i == FirstEnd(t.in, {"MID"})
            kind == t.in[i].kind
            mids == {j \in Ends(t.in) : i = 0 \/ j < i}
            Step(status, used, out, phase) ==
                [status |-> status, used |-> used, out |-> out, phase |-> phase]
            Answered ==
                CASE kind = "FLIGHT" -> Step("CONTINUE", i, Output.FLIGHT, "WAITING")
                  [] kind \in {"FIN", "FINOUT"} /\ (t.trust \/ Good(t.cert)) ->
                        Step("OK", i, IF kind = "FIN" THEN 0 ELSE Output.FINOUT, "COMPLETE")
                  [] OTHER -> Step("FAILED", Len(t.in), 0, "FAILED")
<1>1. /\ t.in \in Seq(Units) /\ Len(t.in) \in Nat /\ i \in 0..Len(t.in)
      /\ Ends(t.in) \subseteq 1..Len(t.in)
      /\ i = 0 => \A j \in Ends(t.in) : t.in[j].kind \in {"MID"}
      /\ i # 0 => i \in Ends(t.in) /\ \A j \in Ends(t.in) : j < i => t.in[j].kind \in {"MID"}
  BY FirstEndFound, FirstEndIs, Sized DEF Engine, Ends
<1>2. Isc(t) =
        CASE t.phase = "NEW" -> {Step("CONTINUE", Len(t.in), Output.NEW, "WAITING")}
          [] t.phase = "WAITING" /\ Ends(t.in) = {} -> {Step("INCOMPLETE", 0, 0, "WAITING")}
          [] t.phase = "WAITING" /\ Ends(t.in) # {} ->
                {Step("CONTINUE", j, 0, "WAITING") : j \in mids}
                    \cup (IF i = 0 THEN {} ELSE {Answered})
          [] OTHER -> {Step("OK", 0, 0, t.phase), Step("INCOMPLETE", 0, 0, t.phase),
                       Step("FAILED", Len(t.in), 0, "FAILED")}
  BY DEF Isc
<1>3. \/ kind \in {"FLIGHT", "FIN", "FINOUT"} /\ Answered.used = i
      \/ Answered = Step("FAILED", Len(t.in), 0, "FAILED")
  <2>1. CASE kind = "FLIGHT"
    <3>1. Answered = Step("CONTINUE", i, Output.FLIGHT, "WAITING")
      BY <2>1
    <3>. QED  BY <2>1, <3>1
  <2>2. CASE kind # "FLIGHT" /\ kind \in {"FIN", "FINOUT"} /\ (t.trust \/ Good(t.cert))
    <3>1. Answered = Step("OK", i, IF kind = "FIN" THEN 0 ELSE Output.FINOUT, "COMPLETE")
      BY <2>2
    <3>. QED  BY <2>2, <3>1
  <2>3. CASE kind # "FLIGHT" /\ ~(kind \in {"FIN", "FINOUT"} /\ (t.trust \/ Good(t.cert)))
    BY <2>3
  <2>. QED  BY <2>1, <2>2, <2>3
<1>4. \A j \in Ends(t.in) : ~(j <= 0)
  BY <1>1
<1>. HIDE DEF i, kind, Answered
<1>5. CASE t.phase = "NEW"
  <2>1. r = Step("CONTINUE", Len(t.in), Output.NEW, "WAITING") /\ Len(t.in) = 0
    BY <1>2, <1>5
  <2>. QED  BY <1>4, <2>1
<1>6. CASE t.phase = "WAITING" /\ Ends(t.in) = {}
  <2>1. r = Step("INCOMPLETE", 0, 0, "WAITING")
    BY <1>2, <1>6
  <2>. QED  BY <1>1, <1>4, <2>1
<1>7. CASE t.phase = "WAITING" /\ Ends(t.in) # {}
  <2>1. \/ \E j \in mids : r = Step("CONTINUE", j, 0, "WAITING")
        \/ i # 0 /\ r = Answered
    BY <1>2, <1>7
  <2>2. ASSUME NEW j \in mids, r = Step("CONTINUE", j, 0, "WAITING")
        PROVE  /\ r.used \in 0..Len(t.in) /\ r.used \in Ends(t.in)
               /\ \A k \in Ends(t.in) : k <= r.used => t.in[k].kind # "DATA"
    <3>1. r.used = j /\ j \in Ends(t.in) /\ (i = 0 \/ j < i)
      BY <2>2
    <3>2. ASSUME NEW k \in Ends(t.in), k <= j PROVE t.in[k].kind = "MID"
      <4>1. i = 0 \/ k < i
        BY <1>1, <3>1, <3>2
      <4>. QED  BY <1>1, <4>1
    <3>. QED  BY <1>1, <3>1, <3>2
  <2>3. CASE i # 0 /\ r = Answered /\ r.used = i /\ kind \in {"FLIGHT", "FIN", "FINOUT"}
    <3>1. ASSUME NEW k \in Ends(t.in), k <= i PROVE t.in[k].kind # "DATA"
      <4>1. k < i \/ k = i
        BY <1>1, <3>1
      <4>. QED  BY <1>1, <2>3, <4>1 DEF kind
    <3>. QED  BY <1>1, <2>3, <3>1
  <2>. QED  BY <1>3, <2>1, <2>2, <2>3
<1>8. CASE t.phase = "COMPLETE"
  <2>1. r \in {Step("OK", 0, 0, t.phase), Step("INCOMPLETE", 0, 0, t.phase),
               Step("FAILED", Len(t.in), 0, "FAILED")}
    BY <1>2, <1>8
  <2>. QED  BY <1>1, <1>4, <2>1
<1>. QED  BY <1>5, <1>6, <1>7, <1>8 DEF Engine

LEMMA SchannelHandshakeOwes ==
    ASSUME NEW t, Engine(t), Texts(t), Holds(t), t.phase # "FAILED", NEW chunk \in Seq(Units),
           t.phase = "NEW" => t.in = <<>> /\ chunk = <<>>,
           NEW u \in SchannelHandshake(t, chunk)
    PROVE  Owes(t, chunk, u) /\ Holds(u) /\ (u.phase = "NEW" => u.status = "ERROR")
<1>1. CASE ~AccumFits(t, chunk)
  <2>1. u = [t EXCEPT !.status = "ERROR"]
    BY <1>1 DEF SchannelHandshake, Status
  <2>. QED  BY <2>1 DEF Engine, Fields, Owes, Texts, Alive, Holds
<1>2. CASE AccumFits(t, chunk)
  <2>. DEFINE w == Feed(t, chunk)
  <2>1. PICK r \in Isc(w) : u \in SchannelStatus(w, r)
    BY <1>2 DEF SchannelHandshake
  <2>2. /\ Engine(w) /\ Texts(w) /\ SameTexts(t, w) /\ Len(w.in) <= BufSize /\ w.ready = <<>>
        /\ w.phase = t.phase
    BY <1>2, FedTexts, FedFits DEF SameTexts, Holds
  <2>3. w.phase = "NEW" => w.in = <<>>
    <3>1. w.in = t.in \o chunk
      BY FedIsEngine
    <3>. QED  BY <2>2, <3>1
  <2>. HIDE DEF w
  <2>4. /\ r.used \in 0..Len(w.in) /\ r.phase \in {"WAITING", "COMPLETE", "FAILED"}
    BY <2>1, <2>2, IscAnswers
  <2>5. \/ r.status = "FAILED" /\ r.phase = "FAILED" /\ r.out = 0
        \/ /\ r.used # 0 => r.used \in Ends(w.in)
           /\ \A j \in Ends(w.in) : j <= r.used => w.in[j].kind # "DATA"
    <3>1. Engine(w) /\ w.phase # "FAILED" /\ r \in Isc(w)
      BY <2>1, <2>2
    <3>. QED  BY <2>3, <3>1, IscUses
  <2>. DEFINE v == [w EXCEPT !.in = Keep(w, r), !.phase = r.phase]
  <2>6. SameTexts(w, v) /\ v.in = After(w.in, r.used) /\ v.phase = r.phase /\ DOMAIN v = Fields
    BY <2>2 DEF SameTexts, Engine, Fields, Keep
  <2>7. u \in CASE r.out > OutSize -> {Status(v, "ERROR")}
                [] r.out \in 1..OutSize -> {[Status(v, "WANT_WRITE") EXCEPT !.n = r.out]}
                [] r.out = 0 /\ r.status = "OK" ->
                      CertInfo([Status(v, "OK") EXCEPT !.handshake_done = TRUE])
                [] r.out = 0 /\ r.status \in {"CONTINUE", "INCOMPLETE"} -> {Status(v, "WANT_READ")}
                [] OTHER -> {Status(v, "ERROR")}
    BY <2>1 DEF SchannelStatus
  <2>. HIDE DEF v
  <2>8. SameTexts(v, u) /\ u.in = v.in /\ u.phase = v.phase
    <3>1. \/ u = Status(v, "ERROR") \/ u = Status(v, "WANT_READ")
          \/ u = [Status(v, "WANT_WRITE") EXCEPT !.n = r.out]
          \/ u \in CertInfo([Status(v, "OK") EXCEPT !.handshake_done = TRUE])
      BY <2>7
    <3>. QED  BY <2>6, <3>1 DEF Status, CertInfo, SameTexts, Fields
  <2>9. Alive(u) => Kept(w, u)
    <3>1. CASE r.phase = "FAILED"
      BY <2>6, <2>8, <3>1 DEF Alive
    <3>2. CASE r.phase # "FAILED"
      <4>1. u.got = w.got /\ u.ready = w.ready /\ u.in = After(w.in, r.used)
        BY <2>6, <2>8 DEF SameTexts
      <4>. QED  BY <2>2, <2>4, <2>5, <3>2, <4>1, PassedOver
    <3>. QED  BY <3>1, <3>2
  <2>10. Texts(u) /\ u.stream = t.stream /\ u.closed = t.closed /\ u.ready = <<>>
    BY <2>2, <2>6, <2>8 DEF Texts, SameTexts
  <2>11. Len(u.in) <= BufSize
    BY <2>2, <2>4, <2>6, <2>8, LeftFits DEF Engine
  <2>. QED  BY <2>4, <2>6, <2>8, <2>9, <2>10, <2>11 DEF Owes, Holds, w
<1>. QED  BY <1>1, <1>2

LEMMA SendOwes ==
    ASSUME NEW t, Engine(t), Texts(t), NEW u,
           \/ u \in OpenSslEncrypt(t) \cup OpenSslShutdown(t)
           \/ u \in SchannelEncrypt(t) \cup SchannelShutdown(t)
    PROVE  Owes(t, <<>>, u) /\ u.in = t.in /\ u.ready = t.ready
<1>1. SameTexts(t, u) /\ u.in = t.in
  <2>1. CASE u \in OpenSslEncrypt(t) \cup OpenSslShutdown(t)
    <3>1. \/ u = Drain(OneMore(t)) \/ u = Drain(t)
          \/ \E status \in {"OK", "WANT_READ", "ERROR"} : u = Status(t, status)
          \/ u = [Status(t, "ERROR") EXCEPT !.phase = "FAILED"]
      <4>1. CASE u \in OpenSslEncrypt(t)
        BY <4>1 DEF OpenSslEncrypt, DrainOr
      <4>2. CASE u \in OpenSslShutdown(t)
        BY <4>2 DEF OpenSslShutdown, DrainOr
      <4>. QED  BY <2>1, <4>1, <4>2
    <3>. QED  BY <3>1 DEF OneMore, Drain, Status, SameTexts, Engine, Fields
  <2>2. CASE u \in SchannelEncrypt(t) \cup SchannelShutdown(t)
    <3>1. \/ u = [t EXCEPT !.status = "WANT_WRITE", !.n = 1]
          \/ u = [t EXCEPT !.status = "ERROR"]
          \/ u = [t EXCEPT !.status = "OK"]
      BY <2>2 DEF SchannelEncrypt, SchannelShutdown, Made, Status
    <3>. QED  BY <3>1 DEF SameTexts, Engine, Fields
  <2>. QED  BY <2>1, <2>2
<1>. DEFINE w == Feed(t, <<>>)
<1>2. w.in = t.in /\ SameTexts(t, w)
  <2>1. <<>> \in Seq(Units) /\ t.in \in Seq(Units)
    BY DEF Engine
  <2>2. w.in = t.in \o <<>>
    BY <2>1, FedIsEngine
  <2>3. t.in \o <<>> = t.in
    BY <2>1
  <2>. QED  BY <2>1, <2>2, <2>3, FedTexts
<1>. HIDE DEF w
<1>3. Kept(w, u)
  BY <1>1, <1>2, NothingPassed DEF SameTexts
<1>. QED  BY <1>1, <1>3 DEF Owes, Texts, SameTexts, w

-----------------------------------------------------------------------------
(* The stream's invariant.                                                   *)

\* What the peer sent is what it had, has and is still to get.
Told(t, later) ==
    Alive(t) => OneKindEach(t.in \o later) /\ Plain(t, later) = DataOf(t.stream)

\* Of a build's engine with this much still to come; a successful read of nothing
\* is OpenSSL's word for the end.
StreamTold(build, t, later) ==
    /\ Texts(t)
    /\ Told(t, later)
    /\ build = "SCHANNEL" =>
        /\ Holds(t)
        /\ t.phase = "NEW" => ~t.handshake_done
        /\ t.phase = "NEW" /\ t.status # "ERROR" => t.in = <<>> /\ t.status = "NONE"
    /\ build = "OPENSSL" /\ t.call = "DECRYPT" /\ t.status = "OK" /\ t.n = 0 => t.closed

StreamInv == \A c \in Conns : StreamTold(backend, tls[c], left[c])

\* A call with a piece of what was to come.
LEMMA CallOwes ==
    ASSUME NEW t, Engine(t), Texts(t), NEW call,
           NEW chunk \in Seq(Units), NEW rest \in Seq(Units), NEW u,
           Owes(Called(t, call), chunk, u), t.status # "ERROR",
           t.phase = "FAILED" => u.phase = "FAILED", Told(t, chunk \o rest)
    PROVE  Told(u, rest)
<1>. DEFINE later == chunk \o rest
<1>. SUFFICES ASSUME Alive(u)
              PROVE  OneKindEach(u.in \o rest) /\ Plain(u, rest) = DataOf(u.stream)
  BY DEF Told
<1>. DEFINE w == Called(t, call)
            f == Feed(w, chunk)
<1>1. /\ w.in = t.in /\ w.got = t.got /\ w.ready = t.ready /\ w.closed = t.closed
      /\ w.stream = t.stream
  BY DEF Called, Engine, Fields
<1>2. f.in = t.in \o chunk /\ f.got = t.got /\ f.ready = t.ready
  BY DEF Feed, Called, Engine, Fields
<1>. HIDE DEF w, f
<1>3. Kept(f, u) /\ u.stream = t.stream /\ (t.closed => u.closed)
  BY <1>1 DEF Owes, w, f
<1>4. Alive(t)
  BY <1>3 DEF Alive
<1>4a. OneKindEach(t.in \o later) /\ Plain(t, later) = DataOf(t.stream)
  BY <1>4 DEF Told
<1>5. f.in \o rest = t.in \o later
  <2>1. t.in \in Seq(Units)
    BY DEF Engine
  <2>2. (t.in \o chunk) \o rest = t.in \o (chunk \o rest)
    BY <2>1, InARow
  <2>. QED  BY <1>2, <2>2
<1>6. Plain(f, rest) = Plain(t, later)
  BY <1>2, <1>5 DEF Plain
<1>7. OneKindEach(f.in \o rest)
  BY <1>5, <1>4a
<1>. QED  BY <1>3, <1>6, <1>7, <1>4a DEF Kept

LEMMA CallBeginsTexts ==
    ASSUME NEW t, Engine(t), NEW call
    PROVE  /\ SameTexts(t, Called(t, call)) /\ Called(t, call).status = t.status
           /\ Called(t, call).in = t.in
  BY DEF Called, SameTexts, Engine, Fields

LEMMA PieceAndRest ==
    ASSUME Shape, NEW c \in Conns, NEW chunk \in Received(c), Took(c, chunk)
    PROVE  /\ chunk \in Seq(Units) /\ left'[c] \in Seq(Units) /\ left[c] \in Seq(Units)
           /\ left[c] = chunk \o left'[c]
           /\ \A d \in Conns \ {c} : left'[d] = left[d]
<1>1. left[c] \in Seq(Units) /\ Len(left[c]) \in Nat /\ MaxChunk \in Nat /\ DOMAIN left = Conns
  BY TlsAssumption, Sized DEF Shape
<1>2. PICK n \in 0..Len(left[c]) : chunk = SubSeq(left[c], 1, n)
  <2>1. CASE chunk = <<>>
    <3>1. 0 \in 0..Len(left[c]) /\ SubSeq(left[c], 1, 0) = <<>>
      BY <1>1
    <3>. QED  BY <2>1, <3>1
  <2>2. CASE chunk \in Arriving(c)
    <3>1. PICK n \in 1..Smaller(Len(left[c]), MaxChunk) : chunk = SubSeq(left[c], 1, n)
      BY <2>2 DEF Arriving
    <3>2. n \in 0..Len(left[c])
      BY <1>1, <3>1 DEF Smaller
    <3>. QED  BY <3>1, <3>2
  <2>. QED  BY <2>1, <2>2 DEF Received
<1>. DEFINE s == left[c]
<1>3. chunk \in Seq(Units) /\ Len(chunk) = n /\ \A k \in 1..n : chunk[k] = s[k]
  BY <1>1, <1>2
<1>4. left'[c] = After(s, n) /\ \A d \in Conns \ {c} : left'[d] = left[d]
  BY <1>1, <1>3 DEF Took
<1>5. After(s, n) \in Seq(Units) /\ Len(After(s, n)) = Len(s) - n
      /\ \A k \in 1..(Len(s) - n) : After(s, n)[k] = s[k + n]
  BY <1>1, AfterIsInput
<1>. DEFINE x == chunk \o After(s, n)
<1>. HIDE DEF s
<1>6. /\ x \in Seq(Units) /\ Len(x) = Len(chunk) + Len(After(s, n))
      /\ \A k \in 1..Len(chunk) : x[k] = chunk[k]
      /\ \A k \in 1..Len(After(s, n)) : x[Len(chunk) + k] = After(s, n)[k]
  BY <1>3, <1>5, Joined
<1>. HIDE DEF x
<1>7. s \in Seq(Units) /\ Len(s) \in Nat /\ n \in 0..Len(s)
  BY <1>1 DEF s
<1>8. ASSUME NEW k \in 1..Len(s) PROVE x[k] = s[k]
  <2>1. CASE k <= n
    BY <1>3, <1>6, <1>7, <2>1
  <2>2. CASE ~(k <= n)
    <3>. DEFINE j == k - n
    <3>1. j \in 1..(Len(s) - n) /\ n + j = k /\ j + n = k
      BY <1>7, <2>2
    <3>. HIDE DEF j
    <3>2. After(s, n)[j] = s[j + n]
      BY <1>5, <3>1
    <3>3. x[n + j] = After(s, n)[j]
      BY <1>3, <1>5, <1>6, <3>1
    <3>. QED  BY <3>1, <3>2, <3>3
  <2>. QED  BY <2>1, <2>2
<1>9. x = s
  <2>1. Len(x) = Len(s)
    BY <1>3, <1>5, <1>6, <1>7
  <2>. QED  BY <1>6, <1>7, <1>8, <2>1
<1>. QED  BY <1>3, <1>4, <1>5, <1>7, <1>9 DEF s, x

\* What a call of connection c leaves, in terms of its engine.
LEMMA StreamEffect ==
    ASSUME IInv, StreamInv, NEW c \in Conns, NEW u, NEW call,
           NEW chunk \in Seq(Units), left'[c] \in Seq(Units), left[c] = chunk \o left'[c],
           \A d \in Conns \ {c} : left'[d] = left[d],
           backend' = backend, tls' = [tls EXCEPT ![c] = u],
           Owes(Called(tls[c], call), chunk, u), tls[c].status # "ERROR",
           tls[c].phase = "FAILED" => u.phase = "FAILED",
           backend = "SCHANNEL" =>
                /\ Holds(u)
                /\ u.phase = "NEW" => ~u.handshake_done /\ u.status = "ERROR",
           backend = "OPENSSL" /\ u.call = "DECRYPT" /\ u.status = "OK" /\ u.n = 0 => u.closed
    PROVE  StreamInv'
<1>1. left[c] \in Seq(Units) /\ Engine(tls[c]) /\ DOMAIN tls = Conns
  BY DEF IInv, Shape
<1>2. Texts(tls[c]) /\ Told(tls[c], left[c])
  BY DEF StreamInv, StreamTold
<1>3. Told(u, left'[c])
  <2>1. PICK t, rest : t = tls[c] /\ rest = left'[c]
    OBVIOUS
  <2>2. /\ Engine(t) /\ Texts(t) /\ Owes(Called(t, call), chunk, u) /\ t.status # "ERROR"
        /\ t.phase = "FAILED" => u.phase = "FAILED"
    BY <1>1, <1>2, <2>1
  <2>3. rest \in Seq(Units) /\ Told(t, chunk \o rest)
    BY <1>2, <2>1
  <2>4. Told(u, rest)
    BY <2>2, <2>3, CallOwes
  <2>. QED  BY <2>1, <2>4
<1>4. StreamTold(backend, u, left'[c])
  BY <1>3 DEF StreamTold, Owes
<1>5. \A d \in Conns \ {c} : StreamTold(backend, tls[d], left[d])
  BY DEF StreamInv
<1>6. tls'[c] = u /\ \A d \in Conns \ {c} : tls'[d] = tls[d]
  BY <1>1
<1>7. ASSUME NEW d \in Conns PROVE StreamTold(backend', tls'[d], left'[d])
  BY <1>4, <1>5, <1>6
<1>. QED  BY <1>7 DEF StreamInv

LEMMA HandshakeStream ==
    ASSUME IInv, StreamInv, NEW c \in Conns, NEW chunk \in Received(c),
           Handshake(c, chunk)
    PROVE  StreamInv'
<1>. DEFINE t == Called(tls[c], "HANDSHAKE")
<1>1. /\ Shape /\ Sound(tls[c]) /\ Engine(tls[c]) /\ StreamTold(backend, tls[c], left[c])
  BY DEF IInv, Sound, StreamInv
<1>2. /\ Engine(t) /\ t.call = "HANDSHAKE" /\ t.phase = tls[c].phase /\ SameTexts(tls[c], t)
      /\ t.handshake_done = tls[c].handshake_done /\ t.in = tls[c].in
  BY <1>1, CallBegins, CallBeginsTexts
<1>3. /\ ~tls[c].handshake_done /\ tls[c].status # "ERROR" /\ Took(c, chunk) /\ backend' = backend
      /\ chunk = <<>> \/ tls[c].status = "WANT_READ"
  BY DEF Handshake
<1>4. Texts(t) /\ (backend = "SCHANNEL" => Holds(t)) /\ chunk \in Seq(Units)
  BY <1>1, <1>2, <1>3, PieceAndRest DEF StreamTold, Texts, Holds, SameTexts
<1>4a. /\ left'[c] \in Seq(Units) /\ left[c] = chunk \o left'[c]
      /\ \A d \in Conns \ {c} : left'[d] = left[d]
  BY <1>1, <1>3, PieceAndRest
<1>5. CASE backend = "OPENSSL"
  <2>. DEFINE u == OpenSslHandshake(t, chunk)
  <2>1. tls' = [tls EXCEPT ![c] = u]
    BY <1>5 DEF Handshake, Result
  <2>2. Owes(t, chunk, u) /\ SameGiven(t, u) /\ (t.phase = "FAILED" => u.phase = "FAILED")
    BY <1>2, <1>4, OpenSslHandshakeOwes, OpenSslHandshakeDoes
  <2>3. u.call = "HANDSHAKE"
    BY <1>2, <2>2 DEF SameGiven
  <2>. HIDE DEF u
  <2>. QED  BY <1>2, <1>3, <1>4, <1>5, <1>4a, <2>1, <2>2, <2>3, StreamEffect
<1>6. CASE backend = "SCHANNEL"
  <2>1. PICK u \in SchannelHandshake(t, chunk) : tls' = [tls EXCEPT ![c] = u]
    BY <1>6 DEF Handshake, Result
  <2>2. t.phase # "FAILED"
    BY <1>1, <1>2, <1>3, <1>6 DEF Sound, InOrder
  <2>3. t.phase = "NEW" => t.in = <<>> /\ chunk = <<>>
    BY <1>1, <1>2, <1>3, <1>6 DEF StreamTold
  <2>4. Owes(t, chunk, u) /\ Holds(u) /\ (u.phase = "NEW" => u.status = "ERROR")
    BY <1>2, <1>4, <1>6, <2>1, <2>2, <2>3, SchannelHandshakeOwes
  <2>5. u.handshake_done = t.handshake_done \/ u.phase = "COMPLETE"
    BY <1>2, <1>4, <2>1, <2>2, SchannelHandshakeDoes
  <2>6. u.phase = "NEW" => ~u.handshake_done /\ u.status = "ERROR"
    BY <1>2, <1>3, <2>4, <2>5
  <2>. QED  BY <1>2, <1>3, <1>4, <1>6, <1>4a, <2>1, <2>2, <2>4, <2>6, StreamEffect
<1>. QED  BY <1>1, <1>5, <1>6 DEF Shape

LEMMA DecryptStream ==
    ASSUME IInv, StreamInv, NEW c \in Conns, NEW chunk \in Received(c), NEW room \in 1..Room,
           Decrypt(c, chunk, room)
    PROVE  StreamInv'
<1>. DEFINE t == Called(tls[c], "DECRYPT")
<1>1. /\ Shape /\ Sound(tls[c]) /\ Engine(tls[c]) /\ StreamTold(backend, tls[c], left[c])
  BY DEF IInv, Sound, StreamInv
<1>2. /\ Engine(t) /\ t.phase = tls[c].phase /\ SameTexts(tls[c], t)
      /\ t.handshake_done = tls[c].handshake_done /\ t.in = tls[c].in
  BY <1>1, CallBegins, CallBeginsTexts
<1>3. /\ tls[c].handshake_done /\ tls[c].status # "ERROR" /\ Took(c, chunk) /\ backend' = backend
  BY DEF Decrypt, Usable
<1>4. /\ Texts(t) /\ (backend = "SCHANNEL" => Holds(t)) /\ chunk \in Seq(Units)
      /\ Len(chunk) <= MaxChunk /\ room \in Nat \ {0}
  <2>1. Texts(t) /\ (backend = "SCHANNEL" => Holds(t))
    BY <1>1, <1>2 DEF StreamTold, Texts, Holds, SameTexts
  <2>2. chunk \in Seq(Units) /\ Len(chunk) <= MaxChunk
    BY <1>1, <1>3, PieceArrives
  <2>3. room \in Nat \ {0}
    BY TlsAssumption
  <2>. QED  BY <2>1, <2>2, <2>3
<1>5. tls[c].phase # "FAILED"
  BY <1>1, <1>3 DEF Sound, InOrder
<1>4a. /\ left'[c] \in Seq(Units) /\ left[c] = chunk \o left'[c]
      /\ \A d \in Conns \ {c} : left'[d] = left[d]
  BY <1>1, <1>3, PieceAndRest
<1>6. CASE backend = "OPENSSL"
  <2>. DEFINE u == OpenSslDecrypt(t, chunk, room)
  <2>1. tls' = [tls EXCEPT ![c] = u]
    BY <1>6 DEF Decrypt, Result
  <2>2. Owes(t, chunk, u) /\ (u.status = "OK" /\ u.n = 0 => u.closed)
    BY <1>2, <1>4, OpenSslDecryptOwes
  <2>. HIDE DEF u
  <2>. QED  BY <1>2, <1>3, <1>4, <1>5, <1>6, <1>4a, <2>1, <2>2, StreamEffect
<1>7. CASE backend = "SCHANNEL"
  <2>. DEFINE u == SchannelDecrypt(t, chunk, room)
  <2>1. tls' = [tls EXCEPT ![c] = u]
    BY <1>7 DEF Decrypt, Result
  <2>2. Owes(t, chunk, u) /\ Holds(u) /\ Decrypted(t, u)
    BY <1>2, <1>4, <1>7, SchannelDecryptOwes, SchannelDecryptDoes
  <2>3. u.phase # "NEW"
    BY <1>1, <1>2, <1>3, <1>7, <2>2 DEF StreamTold, Decrypted
  <2>. HIDE DEF u
  <2>. QED  BY <1>2, <1>3, <1>4, <1>5, <1>7, <1>4a, <2>1, <2>2, <2>3, StreamEffect
<1>. QED  BY <1>1, <1>6, <1>7 DEF Shape

LEMMA SendStream ==
    ASSUME IInv, StreamInv, NEW c \in Conns, NEW call \in {"ENCRYPT", "SHUTDOWN"}, Send(c, call)
    PROVE  StreamInv'
<1>. DEFINE t == Called(tls[c], call)
<1>1. /\ Shape /\ Sound(tls[c]) /\ Engine(tls[c]) /\ StreamTold(backend, tls[c], left[c])
  BY DEF IInv, Sound, StreamInv
<1>2. /\ Engine(t) /\ t.call = call /\ t.phase = tls[c].phase /\ SameTexts(tls[c], t)
      /\ t.handshake_done = tls[c].handshake_done /\ t.in = tls[c].in
  BY <1>1, CallBegins, CallBeginsTexts
<1>3. /\ tls[c].handshake_done /\ tls[c].status # "ERROR"
      /\ UNCHANGED <<backend, left>>
  BY DEF Send, Usable
<1>4. PICK u : /\ tls' = [tls EXCEPT ![c] = u]
               /\ \/ backend = "OPENSSL" /\ u \in OpenSslEncrypt(t) \cup OpenSslShutdown(t)
                  \/ backend = "SCHANNEL" /\ u \in SchannelEncrypt(t) \cup SchannelShutdown(t)
  <2>1. CASE /\ backend = "OPENSSL"
             /\ \E u \in IF call = "ENCRYPT" THEN OpenSslEncrypt(t) ELSE OpenSslShutdown(t) :
                   Result(c, u)
    BY <2>1 DEF Result
  <2>2. CASE /\ backend = "SCHANNEL"
             /\ \E u \in IF call = "ENCRYPT" THEN SchannelEncrypt(t) ELSE SchannelShutdown(t) :
                   Result(c, u)
    BY <2>2 DEF Result
  <2>. QED  BY <2>1, <2>2 DEF Send
<1>5. Texts(t) /\ (backend = "SCHANNEL" => Holds(t))
  BY <1>1, <1>2 DEF StreamTold, Texts, Holds, SameTexts
<1>6. Owes(t, <<>>, u) /\ u.in = t.in /\ u.ready = t.ready
  BY <1>2, <1>4, <1>5, SendOwes
<1>7. /\ SameGiven(t, u)
      /\ u.phase = t.phase \/ (backend = "OPENSSL" /\ u.phase = "FAILED" /\ u.status = "ERROR")
  BY <1>2, <1>4, SendDoes
<1>8. /\ left'[c] \in Seq(Units) /\ left[c] = <<>> \o left'[c] /\ <<>> \in Seq(Units)
      /\ \A d \in Conns \ {c} : left'[d] = left[d]
  BY <1>1, <1>3 DEF Shape
<1>9. /\ tls[c].phase # "FAILED"
      /\ backend = "SCHANNEL" => Holds(u) /\ u.phase # "NEW"
      /\ u.call # "DECRYPT"
  BY <1>1, <1>2, <1>3, <1>5, <1>6, <1>7 DEF Sound, InOrder, Holds, StreamTold, SameGiven
<1>. HIDE DEF t
<1>10. Owes(Called(tls[c], call), <<>>, u)
  BY <1>6 DEF t
<1>. QED  BY <1>3, <1>4, <1>8, <1>9, <1>10, StreamEffect

LEMMA InitStream == Init => StreamInv
<1>. SUFFICES ASSUME Init PROVE StreamInv
  OBVIOUS
<1>1. PICK f \in [Conns -> UNION {Peers[c] : c \in Conns}] :
        /\ \A c \in Conns : f[c] \in Peers[c]
        /\ left = [c \in Conns |-> f[c].stream]
        /\ tls = [c \in Conns |->
            [stream |-> f[c].stream, trust |-> f[c].trust, cert |-> f[c].cert,
             phase |-> "NEW", handshake_done |-> FALSE, validated |-> TRUE,
             inspected |-> FALSE, closed |-> FALSE, dry |-> TRUE, in |-> <<>>, out |-> 0, ready |-> <<>>, got |-> <<>>,
             call |-> "NONE", status |-> "NONE", n |-> 0]]
  BY DEF Init
<1>2. ASSUME NEW c \in Conns PROVE StreamTold(backend, tls[c], left[c])
  <2>. DEFINE s == f[c].stream
              t == tls[c]
  <2>1. s \in Seq(Units) /\ OneKindEach(s) /\ left[c] = s
    BY <1>1, TlsAssumption
  <2>2. /\ t.stream = s /\ t.in = <<>> /\ t.got = <<>> /\ t.ready = <<>> /\ t.status = "NONE"
        /\ t.call = "NONE" /\ t.handshake_done = FALSE
    BY <1>1
  <2>. HIDE DEF s, t
  <2>3. <<>> \o s = s /\ Len(<<>>) <= BufSize
    BY <2>1, TlsAssumption
  <2>4. Plain(t, s) = DataOf(s)
    <3>1. (<<>> \o <<>>) \o DataOf(s) = DataOf(s)
      BY <2>1, DataIsUnits
    <3>. QED  BY <2>2, <2>3, <3>1 DEF Plain
  <2>5. Texts(t) /\ Holds(t)
    BY <2>2, <2>3 DEF Texts, Holds
  <2>6. StreamTold(backend, t, s)
    BY <2>1, <2>2, <2>3, <2>4, <2>5 DEF StreamTold, Told
  <2>. QED  BY <2>1, <2>6 DEF t
<1>. QED  BY <1>2 DEF StreamInv

LEMMA StepStream == IInv /\ StreamInv /\ [Next]_vars => StreamInv'
<1>. SUFFICES ASSUME IInv, StreamInv, [Next]_vars PROVE StreamInv'
  OBVIOUS
<1>1. CASE Next
  <2>1. PICK c \in Conns :
            \/ \E chunk \in Received(c) : Handshake(c, chunk)
            \/ \E chunk \in Received(c), room \in 1..Room : Decrypt(c, chunk, room)
            \/ \E call \in {"ENCRYPT", "SHUTDOWN"} : Send(c, call)
    BY <1>1 DEF Next
  <2>. QED  BY <2>1, HandshakeStream, DecryptStream, SendStream
<1>2. CASE UNCHANGED vars
  BY <1>2 DEF vars, StreamInv
<1>. QED  BY <1>1, <1>2

\* The stream's invariant holds of every reachable state.
THEOREM StreamSoundness == Spec => []StreamInv
<1>1. Init => IInv /\ StreamInv
  BY InitSound, InitStream
<1>2. IInv /\ StreamInv /\ [Next]_vars => (IInv /\ StreamInv)'
  BY StepSound, StepStream
<1>3. IInv /\ StreamInv => StreamInv
  OBVIOUS
<1>. QED  BY <1>1, <1>2, <1>3, PTL DEF Spec

\* Whatever the peer sends and however it is cut, both engines hand the peer's data
\* out in order, whole and once, until they have failed or seen the close.
THEOREM StreamInvariant == Spec => []PlaintextIsTheStream
<1>1. IInv /\ StreamInv => PlaintextIsTheStream
  <2>. SUFFICES ASSUME IInv, StreamInv, NEW c \in Conns
                PROVE  /\ Alive(tls[c]) =>
                            tls[c].got \o tls[c].ready \o DataOf(tls[c].in) \o DataOf(left[c])
                                = DataOf(tls[c].stream)
                       /\ backend = "SCHANNEL" => Len(tls[c].in) <= BufSize
    BY DEF PlaintextIsTheStream, Alive
  <2>. DEFINE t == tls[c]
              l == left[c]
  <2>1. StreamTold(backend, t, l) /\ t.in \in Seq(Units) /\ l \in Seq(Units)
    BY DEF IInv, Shape, StreamInv, Engine
  <2>. HIDE DEF t, l
  <2>2. DataOf(t.in \o l) = DataOf(t.in) \o DataOf(l)
    BY <2>1, DataOfBoth
  <2>. DEFINE a == t.got \o t.ready
              b == DataOf(t.in)
              d == DataOf(l)
  <2>3. a \in Seq(Units)
    BY <2>1 DEF StreamTold, Texts
  <2>4. b \in Seq(Units) /\ d \in Seq(Units)
    BY <2>1, DataIsUnits
  <2>5. Plain(t, l) = a \o (b \o d)
    BY <2>2 DEF Plain
  <2>. HIDE DEF a, b, d
  <2>6. (a \o b) \o d = Plain(t, l)
    BY <2>3, <2>4, <2>5, InARow
  <2>7. t.got \o t.ready \o DataOf(t.in) \o DataOf(l) = Plain(t, l)
    BY <2>6 DEF a, b, d
  <2>. QED  BY <2>1, <2>7 DEF StreamTold, Told, Holds, t, l
<1>. QED  BY <1>1, Soundness, StreamSoundness, PTL

\* A successful read of nothing from OpenSSL is the peer's close, for any stream and
\* any room the caller has.
THEOREM ZeroInvariant == Spec => []ZeroMeansClosed
<1>1. StreamInv => ZeroMeansClosed
  BY DEF StreamInv, StreamTold, ZeroMeansClosed
<1>. QED  BY <1>1, StreamSoundness, PTL
=============================================================================
