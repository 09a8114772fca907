--------------------------- MODULE MCReactorIocp ---------------------------
(* Model-checking values for ReactorIocp.                                  *)
EXTENDS ReactorIocp, TLC

CONSTANTS s1, s2, s3

ThreeSlots   == {s1, s2, s3}
SlotSymmetry == Permutations(ThreeSlots)
=============================================================================
