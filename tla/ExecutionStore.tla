---------------------------- MODULE ExecutionStore ----------------------------
(***************************************************************************)
(* The relay_executions table (db/repositories.ts): a row, the guards the  *)
(* statements put in their WHERE clauses, and what each statement writes.  *)
(* A row keeps the columns the workers and the API decide on:              *)
(*   oz        oz_transaction_id: NULL, a "claim:<uuid>" placeholder, or   *)
(*             the id of the transaction the relayer accepted;             *)
(*   hash      current_transaction_hash, 0 for NULL;                       *)
(*   receipt   the status in receipt_json;                                 *)
(*   error     the code in last_error_json and its submitAttempts.         *)
(* The terminal column is always isTerminalState(state), so it is read as  *)
(* such.  The state "absent" stands for a row not yet inserted.            *)
(***************************************************************************)
EXTENDS Lifecycle, RelayerProjection, FiniteSets, Sequences

CONSTANTS
    N,              \* executions are 1..N, numbered in the order of created_at
    RetryCount      \* submitRetryCount

ASSUME NAssumption == N \in Nat \ {0}
ASSUME RetryCountAssumption == RetryCount \in Nat \ {0}

Executions == 1..N

Kind == { "clearMacroV1", "clearMacroPermit2V1" }

ErrorCode ==
    { "none", "PREFLIGHT_REVERTED", "CLEAR_MACRO_EXPIRED", "CHAIN_NOT_ALLOWED",
      "INTERNAL_INVARIANT", "RELAYER_SUBMIT_ERROR", "RELAYER_SUBMIT_FAILED",
      "CANCELED_BY_CLIENT", "ONCHAIN_REVERTED", "RELAYER_REPORTED_REVERT",
      "RELAYER_FAILED" }

Row == [ id      : Executions,
         kind    : Kind,
         force   : BOOLEAN,
         state   : RelayExecutionState \cup {"absent"},
         oz      : {"null", "claim", "id"},
         hash    : 0..MaxHash,
         receipt : Receipt,
         error   : [code : ErrorCode, attempts : 0..RetryCount] ]

NullError == [code |-> "none", attempts |-> 0]

ErrorOf(code) == [code |-> code, attempts |-> 0]

AbsentRow(e) ==
    [ id |-> e, kind |-> "clearMacroV1", force |-> FALSE, state |-> "absent",
      oz |-> "null", hash |-> 0, receipt |-> "none", error |-> NullError ]

createPending(e, kind, force) ==
    [AbsentRow(e) EXCEPT !.kind = kind, !.force = force, !.state = "pending"]

isTerminal(row) == row.state \in TerminalState

Coalesce(error, old) == IF error.code = "none" THEN old ELSE error

-----------------------------------------------------------------------------
(* What the listings select.                                               *)

isSubmittable(row) == row.state = "pending" /\ row.oz = "null"

\* Faulty: forgets the transactions that have no hash yet.
pollsSubmittedOnly(row) == row.state = "submitted" /\ row.oz = "id"

isPollable(row) == row.state \in {"pending", "submitted"} /\ row.oz = "id"

(* The first limit members of S in a strict order, given as a set of pairs:*)
(* ORDER BY ... LIMIT.  The result is the set of the sequences it can be,  *)
(* which is a singleton when the order is total on S.                      *)
FirstOf(S, before, limit) ==
    LET chosen == { e \in S : Cardinality({ f \in S : <<f, e>> \in before }) < limit }
    IN  { s \in [ 1..Cardinality(chosen) -> chosen ] :
            \A i, j \in 1..Cardinality(chosen) : i < j => <<s[i], s[j]>> \in before }

createdBefore == { p \in Executions \X Executions : p[1] < p[2] }

-----------------------------------------------------------------------------
(* What the statements write.                                              *)

isClientCancelable(row) ==
    \/ row.state = "awaiting_authorization"
    \/ row.state = "pending" /\ row.oz = "null"

tryClientCancelGuard(row) ==
    row.state \in {"awaiting_authorization", "pending"} /\ row.oz = "null"

tryClientCancel(row) ==
    [row EXCEPT !.state = "canceled", !.error = ErrorOf("CANCELED_BY_CLIENT")]

claimGuard(row) == row.state = "pending" /\ row.oz = "null"

\* Faulty: submits without a claim.
claimNothing(row) == row

claimForSubmission(row) == [row EXCEPT !.oz = "claim"]

\* Faulty: keeps the claim.
releaseNothing(row) == row

releaseSubmissionClaim(row) ==
    IF row.state = "pending" /\ row.oz = "claim"
      THEN [row EXCEPT !.oz = "null"] ELSE row

\* Faulty: overwrites the id instead of COALESCE.
transitionUnlinked(row, to, error) ==
    [row EXCEPT !.state = to, !.error = Coalesce(error, @), !.oz = "null"]

\* transitionState throws unless canTransitionState: callers test it first.
transitionState(row, to, error) ==
    [row EXCEPT !.state = to, !.error = Coalesce(error, @)]

updateMetadata(row, receipt, error) ==
    [row EXCEPT !.receipt = IF receipt = "none" THEN @ ELSE receipt,
                !.error = Coalesce(error, @)]

appendCurrentHashChange(row, hash) == [row EXCEPT !.hash = hash]

updateLastError(row, error) == [row EXCEPT !.error = error]

\* Faulty: stores the id with the hash only.
acknowledgeHashed(row, hash) ==
    IF hash = 0
      THEN [row EXCEPT !.oz = "null"]
      ELSE [row EXCEPT !.oz = "id", !.hash = hash, !.state = "submitted"]

\* The id (and the hash, if the relayer already knows one) in one transaction;
\* it throws on a terminal row.
applySubmitAcknowledgement(row, hash) ==
    IF hash = 0
      THEN [row EXCEPT !.oz = "id"]
      ELSE [row EXCEPT !.oz = "id", !.hash = hash,
                       !.state = IF @ = "pending" THEN "submitted" ELSE @]

=============================================================================
