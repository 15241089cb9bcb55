-------------------------- MODULE ExecutionPromise --------------------------
(***************************************************************************)
(* What the provider promises of its executions, without the worker, the   *)
(* database or the relayer: each has a public state and stands somewhere   *)
(* in the hand-over of its intent to the relayer.                          *)
(*   kept      the provider has it: it may still be given up;              *)
(*   offered   the relayer is being asked: nobody else may end it;         *)
(*   accepted  the relayer has it, for good: it alone decides the outcome. *)
(***************************************************************************)
EXTENDS Lifecycle

CONSTANT Intents

VARIABLES status, hand

promiseVars == <<status, hand>>

PromiseInit ==
    /\ status = [i \in Intents |-> "absent"]
    /\ hand = [i \in Intents |-> "kept"]

Create(i) ==
    /\ status[i] = "absent"
    /\ status' = [status EXCEPT ![i] = "pending"]
    /\ UNCHANGED hand

\* The client cancels, or a check before the submission fails.
GiveUp(i) ==
    /\ status[i] = "pending" /\ hand[i] = "kept"
    /\ \E end \in {"canceled", "rejected", "failed", "expired"} :
         status' = [status EXCEPT ![i] = end]
    /\ UNCHANGED hand

Offer(i) ==
    /\ status[i] = "pending" /\ hand[i] = "kept"
    /\ hand' = [hand EXCEPT ![i] = "offered"]
    /\ UNCHANGED status

\* The relayer does not take it: it is kept for another attempt, or failed.
TakeBack(i) ==
    /\ status[i] = "pending" /\ hand[i] = "offered"
    /\ hand' = [hand EXCEPT ![i] = "kept"]
    /\ \E s \in {"pending", "failed"} : status' = [status EXCEPT ![i] = s]

\* The provider cannot write down how the relayer answered, and fails the execution. The
\* offer is never made again.
BreakOff(i) ==
    /\ status[i] = "pending" /\ hand[i] = "offered"
    /\ status' = [status EXCEPT ![i] = "failed"]
    /\ \E h \in {"offered", "accepted"} : hand' = [hand EXCEPT ![i] = h]

HandOver(i) ==
    /\ status[i] = "pending" /\ hand[i] = "offered"
    /\ hand' = [hand EXCEPT ![i] = "accepted"]
    /\ \E s \in {"pending", "submitted"} : status' = [status EXCEPT ![i] = s]

\* News of the transaction. It may pass through "submitted" on the way to its end,
\* but a transaction once "submitted" is never "pending" again.
Report(i) ==
    /\ status[i] \in {"pending", "submitted"} /\ hand[i] = "accepted"
    /\ \E s \in allowedTransitions[status[i]] \cup allowedTransitions["submitted"] :
         /\ s # "rejected"
         /\ status' = [status EXCEPT ![i] = s]
    /\ UNCHANGED hand

PromiseNext ==
    \E i \in Intents :
        Create(i) \/ GiveUp(i) \/ Offer(i) \/ TakeBack(i) \/ BreakOff(i)
          \/ HandOver(i) \/ Report(i)

PromiseSpec == PromiseInit /\ [][PromiseNext]_promiseVars

=============================================================================
