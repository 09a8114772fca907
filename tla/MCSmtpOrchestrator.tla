------------------------- MODULE MCSmtpOrchestrator -------------------------
(* Model-checking values for SmtpOrchestrator.                             *)
EXTENDS SmtpOrchestrator

CONSTANTS s1, s2

TwoSlots   == {s1, s2}
AllTargets == {0, 2}
=============================================================================
