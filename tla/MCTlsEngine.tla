----------------------------- MODULE MCTlsEngine -----------------------------
(***************************************************************************)
(* Instance of TlsEngine: a connection with streams that put the limits and  *)
(* the record kinds next to each other, and one that shares its thread.     *)
(***************************************************************************)
EXTENDS TlsEngine

CONSTANTS c1, c2

\* The kinds of a stream's records with the units each takes.
RECURSIVE Stream(_, _)
Stream(recs, r) ==
    IF recs = <<>> THEN <<>>
    ELSE [i \in 1..Head(recs)[2] |-> [rec |-> r, kind |-> Head(recs)[1], last |-> i = Head(recs)[2]]]
            \o Stream(Tail(recs), r + 1)

Handshakes == {
    << <<"FLIGHT", 2>>, <<"FIN", 1>> >>,
    << <<"MID", 1>>, <<"MID", 1>>, <<"FINOUT", 1>> >>,
    << <<"MID", 2>>, <<"FIN", 1>> >>}
Sessions == {
    << <<"DATA", 3>>, <<"CLOSE", 1>> >>,
    << <<"DATA", 1>>, <<"EMPTY", 1>>, <<"DATA", 2>>, <<"KEYUPDATE", 1>>, <<"DATA", 1>> >>,
    << <<"TICKET", 1>>, <<"DATA", 2>>, <<"BAD", 1>> >>}
MCStreams == {Stream(h \o s, 1) : h \in Handshakes, s \in Sessions}
                \cup {Stream(<< <<"BAD", 1>> >>, 1), Stream(<< <<"FLIGHT", 1>>, <<"BAD", 2>> >>, 1)}
\* Streams that get as far as the certificate.
MCCertStreams == {Stream(h, 1) : h \in Handshakes}

\* A chain that is in order, one whose failure is not the last call and one whose
\* failure is.
GoodCert == [chain |-> <<TRUE, TRUE>>, host |-> TRUE]
MCCerts  == [chain : {<<TRUE, TRUE>>, <<FALSE, TRUE>>, <<TRUE, FALSE>>}, host : BOOLEAN]

\* An answer to a flight is more than out_buf holds.
MCOutput == [NEW |-> 1, FLIGHT |-> 3, FINOUT |-> 2]

\* A second connection of the thread, whose peer refuses or is in order.
MCShortStreams == {Stream(<< <<"BAD", 1>> >>, 1), Stream(<< <<"FIN", 1>>, <<"DATA", 2>> >>, 1)}
MCShortPeers == [stream : MCShortStreams, trust : {FALSE},
                 cert : {GoodCert, [GoodCert EXCEPT !.host = FALSE]}]

MCPeers == [stream : MCStreams, trust : BOOLEAN, cert : {GoodCert}]
              \cup [stream : MCCertStreams, trust : BOOLEAN, cert : MCCerts]
PeersOf == [c \in Conns |-> IF c = c1 THEN MCPeers ELSE MCShortPeers]
=============================================================================
