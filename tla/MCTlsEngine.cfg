CONSTANTS
    c1 = c1
    c2 = c2
    Conns = {c1, c2}
    Backends = {"OPENSSL", "SCHANNEL"}
    Peers <- PeersOf
    MaxChunk = 4
    BufSize = 5
    OutSize = 2
    Room = 2
    Output <- MCOutput
SPECIFICATION Spec
CHECK_DEADLOCK FALSE
INVARIANTS
    PlaintextIsTheStream
    WaitsOnlyForThePeer
    ZeroMeansClosed
    CertVerdictTrue
    FailsForAReason
