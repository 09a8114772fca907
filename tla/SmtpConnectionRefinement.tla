---------------------- MODULE SmtpConnectionRefinement ----------------------
(***************************************************************************)
(* smtp_connection.c keeps the contract its owner relies on: SmtpConnection *)
(* implements ConnectionContract under the mapping below.                   *)
(***************************************************************************)
EXTENDS SmtpConnection

\* The attempt as its owner sees it.  A terminal connection may still hold a
\* stale deadline and, after a timeout, an operation: the contract hides both.
AttemptView ==
    CASE life = "NEW"                           ->
            [phase |-> "IDLE", op |-> "NONE", deadline |-> 0, renewals |-> 0]
      [] life = "CLOSED"                        ->
            [phase |-> "CLOSED", op |-> "NONE", deadline |-> 0, renewals |-> 0]
      [] life = "OPEN" /\ state \in Terminal    ->
            [phase |-> state, op |-> "NONE", deadline |-> 0, renewals |-> 0]
      [] life = "OPEN" /\ state \notin Terminal ->
            [phase |-> "ACTIVE", op |-> op, deadline |-> deadline_ms,
             renewals |-> StepsLeft]

Contract == INSTANCE ConnectionContract WITH
    MaxRenewals <- 5,
    attempt     <- AttemptView,
    clock       <- now,
    caps_mine   <- (caps.from \in Channels)

\* Every step of the connection is a step of the contract, or invisible to the
\* owner: the orchestrator may treat a connection as an opaque attempt.
KeepsContract == Contract!Spec
=============================================================================
