----------------------------- MODULE MCSmtpLog -----------------------------
(***************************************************************************)
(* Instance of SmtpLog: interchangeable threads.                             *)
(***************************************************************************)
EXTENDS SmtpLog, TLC

ThreadSymmetry == Permutations(Threads)
=============================================================================
