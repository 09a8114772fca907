CONSTANTS
    fd1 = fd1
    fd2 = fd2
    fd3 = fd3
    fd4 = fd4
    Sockets <- FourSockets
    MaxConnections = 3
    MaxOut = 2
    Backends <- BothBackends

SYMMETRY SocketSymmetry
SPECIFICATION Spec

INVARIANTS
    NoAssertFails
    WatchedAsSubmitted
    OneOpEach

PROPERTY KeepsReactorContract
