------------------------------ MODULE Lifecycle ------------------------------
(***************************************************************************)
(* The public state machine of a relay execution (tx/lifecycle.ts): the    *)
(* states, the terminal ones, and the transitions transitionState accepts. *)
(***************************************************************************)

RelayExecutionState ==
    { "awaiting_authorization", "pending", "submitted", "succeeded",
      "reverted", "rejected", "failed", "expired", "canceled" }

TerminalState ==
    { "succeeded", "reverted", "rejected", "failed", "expired", "canceled" }

\* Faulty variants of a definition, like the ones below and in the other modules, are
\* used by no specification: substituted for it, they break the property that a run
\* checks, and so show what the property catches.
reopenedTransitions ==
    [ from \in RelayExecutionState |->
        CASE from \in TerminalState -> {"failed"}
          [] OTHER -> RelayExecutionState \ {"awaiting_authorization"} ]

unfailingTransitions ==
    [ from \in RelayExecutionState |->
        IF from \in TerminalState
          THEN {} ELSE RelayExecutionState \ {"awaiting_authorization", "failed"} ]

allowedTransitions ==
    [ from \in RelayExecutionState |->
        CASE from = "awaiting_authorization" ->
                { "pending", "rejected", "failed", "expired", "canceled" }
          [] from = "pending" ->
                { "submitted", "rejected", "failed", "expired", "canceled" }
          [] from = "submitted" ->
                { "submitted", "succeeded", "reverted", "failed", "expired",
                  "canceled" }
          [] OTHER -> {} ]

canTransitionState(from, to) == to \in allowedTransitions[from]

=============================================================================
