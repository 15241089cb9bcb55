-------------------------- MODULE RelayerProjection --------------------------
(***************************************************************************)
(* How an OpenZeppelin Relayer transaction is projected on the public      *)
(* state of an execution (relayer/mapper.ts).  The view of a transaction   *)
(* keeps what the projection reads:                                        *)
(*   status    the relayer's status, "none" where there is no transaction; *)
(*   reverts   the status reason reads like a revert (isRevertReason);     *)
(*   hash      0 stands for a null hash;                                   *)
(*   outcome   what the chain did, the status of the receipt if there is   *)
(*             one to be read.                                             *)
(* confirmed_at is set exactly on the transactions that are "confirmed".   *)
(***************************************************************************)
EXTENDS Integers

CONSTANT MaxHash    \* hashes a transaction goes through: the first and its replacements

ASSUME MaxHashAssumption == MaxHash \in Nat \ {0}

OzStatus ==
    { "pending", "sent", "submitted", "inmempool", "mined", "confirmed",
      "failed", "canceled", "expired" }

Receipt == { "none", "success", "reverted" }

OzView == [ status  : OzStatus \cup {"none"},
            reverts : BOOLEAN,
            hash    : 0..MaxHash,
            outcome : Receipt ]

NoView == [ status |-> "none", reverts |-> FALSE, hash |-> 0, outcome |-> "none" ]

ByHash(view) == IF view.hash # 0 THEN "submitted" ELSE "pending"

\* Faulty: does not wait for the confirmations.
projectUnconfirmed(view, receipt, waitConfirmed) ==
    [state |-> CASE receipt = "success"  -> "succeeded"
                 [] receipt = "reverted" -> "reverted"
                 [] OTHER                -> ByHash(view),
     code  |-> "none"]

\* The state and the error code (if any) the view projects to. Evidence from
\* the chain is looked at before the relayer's own status.
projectRelayerState(view, receipt, waitConfirmed) ==
    LET confirmed == view.status = "confirmed"
    IN  CASE receipt = "reverted" ->
                [state |-> "reverted", code |-> "ONCHAIN_REVERTED"]
          [] receipt = "success" ->
                [state |-> IF waitConfirmed /\ ~confirmed
                             THEN ByHash(view) ELSE "succeeded",
                 code  |-> "none"]
          [] receipt = "none" /\ view.status = "inmempool" ->
                [state |-> "submitted", code |-> "none"]
          [] receipt = "none" /\ view.status = "failed" ->
                IF view.reverts
                  THEN [state |-> "reverted", code |-> "RELAYER_REPORTED_REVERT"]
                  ELSE [state |-> "failed", code |-> "RELAYER_FAILED"]
          [] receipt = "none" /\ view.status \in {"canceled", "expired"} ->
                [state |-> view.status, code |-> "none"]
          [] OTHER -> [state |-> ByHash(view), code |-> "none"]

=============================================================================
