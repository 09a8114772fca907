----------------------------- MODULE MCReactor -----------------------------
(* Model-checking values for Reactor.                                      *)
EXTENDS Reactor, TLC

CONSTANTS fd1, fd2, fd3, fd4

FourSockets    == {fd1, fd2, fd3, fd4}
SocketSymmetry == Permutations(FourSockets)
BothBackends   == {"EPOLL", "KQUEUE"}
=============================================================================
