-------------------------- MODULE MCSmtpConnection --------------------------
(* Model-checking values for SmtpConnection and its refinement.            *)
EXTENDS SmtpConnectionRefinement

OneLineTexts == {"ONE"}
AnyText      == {"ONE", "MANY"}
=============================================================================
