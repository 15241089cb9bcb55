------------------------ MODULE RelayWorkerSafetyProofs ------------------------
(***************************************************************************)
(* The safety theorems of RelayWorker: an intent is handed to the relayer  *)
(* once, a canceled one never, and what a row has recorded stays.  They    *)
(* all come from HandOverInv, which each step preserves.                   *)
(***************************************************************************)
EXTENDS RelayWorkerProofs

-----------------------------------------------------------------------------
(* What a step does to a row.  Most of them let a row go on: the column    *)
(* that links it to the relayer is left alone, a terminal row keeps its    *)
(* state, and nobody but a client makes it canceled by the client.         *)

GoesOn(r, q) ==
    /\ q.oz = r.oz
    /\ q.state = "absent" => r.state = "absent" /\ q.hash = r.hash
    /\ r.hash # 0 => q.hash # 0
    /\ isTerminal(r) => q.state = r.state
    /\ q.error.code = "CANCELED_BY_CLIENT" => r.error.code = "CANCELED_BY_CLIENT"

\* What every step keeps of a row: LinkIsKept and TerminalIsFinal, for one step.
Kept(r, q) ==
    /\ r.oz = "id" => q.oz = "id"
    /\ r.hash # 0 => q.hash # 0
    /\ isTerminal(r) => q.state = r.state

Rows == \A e \in Executions : HandOverRow(e)
RowsKept == \A e \in Executions : Kept(rows[e], rows'[e])

\* A row that goes on keeps its link and its terminal state.
LEMMA GoesOnKept == \A r, q : GoesOn(r, q) => Kept(r, q)
BY DEF GoesOn, Kept

\* A row that is left alone goes on.
LEMMA GoesOnReflexive == \A r : GoesOn(r, r)
BY DEF GoesOn

\* Writes that let a row go on compose, as those of one poll do.
LEMMA GoesOnTransitive == \A r, q, s : GoesOn(r, q) /\ GoesOn(q, s) => GoesOn(r, s)
BY DEF GoesOn, isTerminal

\* The table of transitions lets nothing leave a terminal state.
LEMMA TerminalAllowsNothing == \A s \in TerminalState : allowedTransitions[s] = {}
<1> SUFFICES ASSUME NEW s \in TerminalState PROVE allowedTransitions[s] = {}
  OBVIOUS
<1>1. /\ s \in RelayExecutionState
      /\ s # "awaiting_authorization" /\ s # "pending" /\ s # "submitted"
  BY DEF TerminalState, RelayExecutionState
<1> QED
  BY <1>1 DEF allowedTransitions

\* A legal transition lets the row go on.
LEMMA TransitionGoesOn ==
    ASSUME NEW r \in Row, NEW to \in RelayExecutionState,
           NEW code \in ErrorCode \ {"CANCELED_BY_CLIENT"},
           canTransitionState(r.state, to)
    PROVE  GoesOn(r, transitionState(r, to, ErrorOf(code)))
<1> DEFINE q == transitionState(r, to, ErrorOf(code))
<1>1. /\ q.oz = r.oz /\ q.hash = r.hash /\ q.state = to
      /\ q.error = Coalesce(ErrorOf(code), r.error)
  BY DEF transitionState, Row
<1>2. q.error.code = "CANCELED_BY_CLIENT" => r.error.code = "CANCELED_BY_CLIENT"
  BY <1>1 DEF Coalesce, ErrorOf
<1>3. ~isTerminal(r)
  BY TerminalAllowsNothing DEF canTransitionState, isTerminal
<1>4. to # "absent"
  BY DEF RelayExecutionState
<1>5. GoesOn(r, q)
  <2> HIDE DEF q
  <2> QED
    BY <1>1, <1>2, <1>3, <1>4 DEF GoesOn
<1> QED
  BY <1>5

\* Every row a poll writes on its way goes on from the row it found.
LEMMA PollWritesGoOn ==
    ASSUME TypeInv, batch # <<>>, current.state # "absent",
           NEW view \in OzView, NEW receipt \in Receipt, NEW i \in 1..5
    PROVE  GoesOn(current, pollWrites(view, receipt)[i])
<1> DEFINE newHash   == view.hash # 0 /\ view.hash # snapshot.hash
           hashed    == IF newHash THEN appendCurrentHashChange(current, view.hash) ELSE current
           submitted == IF newHash /\ hashed.state = "pending"
                          THEN transitionState(hashed, "submitted", NullError) ELSE hashed
           projected == projectRelayerState(view, receipt, WaitConfirmed)
           updated   == updateMetadata(submitted, receipt, ErrorOf(projected.code))
           final     == IF updated.state # projected.state
                            /\ canTransitionState(updated.state, projected.state)
                          THEN transitionState(updated, projected.state, NullError)
                          ELSE updated
           On(r)     == r \in Row /\ r.state # "absent" /\ GoesOn(current, r)
<1>1. On(current)
  BY CurrentType, GoesOnReflexive
<1>2. On(hashed)
  <2>1. CASE newHash
    <3>1. view.hash \in 0..MaxHash
      BY DEF OzView
    <3>2. appendCurrentHashChange(current, view.hash) \in Row
      BY <1>1, <3>1, WritesType
    <3>3. /\ GoesOn(current, appendCurrentHashChange(current, view.hash))
          /\ appendCurrentHashChange(current, view.hash).state # "absent"
      BY <1>1, <2>1 DEF appendCurrentHashChange, Row, GoesOn
    <3> QED
      BY <2>1, <3>2, <3>3
  <2>2. CASE ~newHash
    BY <1>1, <2>2
  <2> QED
    BY <2>1, <2>2
<1>3. NullError = ErrorOf("none") /\ "none" \in ErrorCode \ {"CANCELED_BY_CLIENT"}
  BY DEF NullError, ErrorOf, ErrorCode
<1>4. ASSUME NEW r, On(r), NEW to \in RelayExecutionState, canTransitionState(r.state, to)
      PROVE  On(transitionState(r, to, NullError))
  <2>1. transitionState(r, to, NullError) \in Row
    BY <1>3, <1>4, WritesType
  <2>2. GoesOn(r, transitionState(r, to, NullError))
    BY <1>3, <1>4, TransitionGoesOn
  <2>3. transitionState(r, to, NullError).state # "absent"
    BY <1>4, <2>2 DEF GoesOn
  <2> QED
    BY <1>4, <2>1, <2>2, <2>3, GoesOnTransitive
<1>5. On(submitted)
  <2>1. canTransitionState("pending", "submitted")
    BY DEF canTransitionState, allowedTransitions, RelayExecutionState, TerminalState
  <2> HIDE DEF hashed
  <2> QED
    BY <1>2, <1>4, <2>1 DEF RelayExecutionState
<1>6. /\ projected.state \in RelayExecutionState
      /\ projected.code \in ErrorCode \ {"CANCELED_BY_CLIENT"}
  <2>1. projected.code # "CANCELED_BY_CLIENT"
    BY DEF projectRelayerState
  <2> QED
    BY <2>1, ProjectionType, Constants
<1>7. On(updated)
  <2> HIDE DEF submitted, projected
  <2>1. updated \in Row
    BY <1>5, <1>6, WritesType
  <2>2. /\ updated.oz = submitted.oz /\ updated.hash = submitted.hash
        /\ updated.state = submitted.state
        /\ updated.error = Coalesce(ErrorOf(projected.code), submitted.error)
    BY <1>5 DEF updateMetadata, Row
  <2>3. GoesOn(submitted, updated)
    <3> HIDE DEF updated
    <3> QED
      BY <1>6, <2>2 DEF GoesOn, Coalesce, ErrorOf
  <2> QED
    BY <1>5, <2>1, <2>2, <2>3, GoesOnTransitive
<1>8. On(final)
  <2> HIDE DEF updated, projected
  <2> QED
    BY <1>4, <1>6, <1>7
<1>9. pollWrites(view, receipt) = <<current, hashed, submitted, updated, final>>
  BY DEF pollWrites
<1> HIDE DEF hashed, submitted, updated, final
<1> QED
  BY <1>1, <1>2, <1>5, <1>7, <1>8, <1>9

-----------------------------------------------------------------------------
(* Steps that let every row go on, none of them while it is in flight.     *)

\* A step that lets every row go on, and is none of the call in flight, keeps the
\* hand-over of all rows.
LEMMA StepGoesOn ==
    ASSUME Rows,
           \A e \in Executions : GoesOn(rows[e], rows'[e]),
           \A e \in Executions :
               relayerTransactions'[e] # NoView =>
                   relayerTransactions[e] # NoView \/ rows[e].oz = "id",
           UNCHANGED <<learned, accepted, stray>>,
           crashes + faults > 0 => (crashes + faults)' > 0,
           \/ pc # "submitting" /\ pc' # "submitting"
           \/ /\ UNCHANGED <<pc, batch, reply>>
              /\ \A e \in Executions : InFlight(e) => rows'[e].state = rows[e].state
    PROVE  Rows' /\ RowsKept
<1> SUFFICES ASSUME NEW e \in Executions
             PROVE  HandOverRow(e)' /\ Kept(rows[e], rows'[e])
  BY DEF Rows, RowsKept
<1>1. GoesOn(rows[e], rows'[e])
  OBVIOUS
<1>2. HandOverRow(e)
  BY DEF Rows
<1>3. InFlight(e)' => InFlight(e) /\ rows'[e].state = rows[e].state /\ reply' = reply
  BY DEF InFlight, cur, snapshot
<1>4. InFlight(e) => InFlight(e)'
  BY DEF InFlight, cur, snapshot
<1>5. (rows'[e].state = "absent" => rows'[e].oz = "null" /\ rows'[e].hash = 0)
  BY <1>1, <1>2 DEF GoesOn, HandOverRow
<1>6. relayerTransactions'[e] # NoView => rows'[e].oz = "id"
  BY <1>1, <1>2 DEF GoesOn, HandOverRow
<1>7. learned'[e] <= 1 /\ (learned'[e] = 1 => rows'[e].oz # "null")
  BY <1>1, <1>2 DEF GoesOn, HandOverRow
<1>8. InFlight(e)' => rows'[e].oz = "claim" /\ rows'[e].state = "pending" /\ learned'[e] = 0
  BY <1>1, <1>2, <1>3 DEF GoesOn, HandOverRow
<1>9. rows'[e].oz = "claim" => InFlight(e)' \/ (crashes + faults)' > 0
  BY <1>1, <1>2, <1>4 DEF GoesOn, HandOverRow
<1>10. clientCanceled(e)' => rows'[e].state = "canceled" /\ rows'[e].oz = "null"
  BY <1>1, <1>2 DEF GoesOn, HandOverRow, clientCanceled, isTerminal, TerminalState
<1>11. ~LoseReplies =>
         /\ accepted'[e] + stray'[e] <= 1
         /\ rows'[e].oz = "null" => accepted'[e] + stray'[e] = 0
         /\ InFlight(e)' /\ reply'.kind = "none" => accepted'[e] + stray'[e] = 0
  BY <1>1, <1>2, <1>3 DEF GoesOn, HandOverRow
<1>12. HandOverRow(e)'
  BY <1>5, <1>6, <1>7, <1>8, <1>9, <1>10, <1>11 DEF HandOverRow
<1> QED
  BY <1>1, <1>12, GoesOnKept

\* The row of one execution goes on, and the others are not written.
LEMMA WriteGoesOn ==
    ASSUME TypeInv, NEW r \in Row, Write(r), GoesOn(rows[r.id], r)
    PROVE  \A e \in Executions : GoesOn(rows[e], rows'[e])
BY WriteRows, GoesOnReflexive DEF TypeInv

\* A row that the tick settles itself is not handed over.
LEMMA SettleSafe ==
    ASSUME TypeInv, Rows, batch # <<>>, pc # "submitting",
           NEW to \in RelayExecutionState, NEW code \in ErrorCode \ {"CANCELED_BY_CLIENT"},
           Settle(current, to, code), UNCHANGED outside
    PROVE  Rows' /\ RowsKept
<1>1. \A e \in Executions : GoesOn(rows[e], rows'[e])
  <2>1. current \in Row /\ current = rows[current.id]
    BY CurrentType DEF current
  <2>2. "failed" \in RelayExecutionState
        /\ "INTERNAL_INVARIANT" \in ErrorCode \ {"CANCELED_BY_CLIENT"}
    BY DEF RelayExecutionState, ErrorCode
  <2>3. ASSUME NEW s \in RelayExecutionState, NEW c \in ErrorCode \ {"CANCELED_BY_CLIENT"},
               canTransitionState(current.state, s),
               Write(transitionState(current, s, ErrorOf(c)))
        PROVE  \A e \in Executions : GoesOn(rows[e], rows'[e])
    <3>1. /\ transitionState(current, s, ErrorOf(c)) \in Row
          /\ transitionState(current, s, ErrorOf(c)).id = current.id
      BY <2>1, WritesType DEF transitionState, Row
    <3>2. GoesOn(current, transitionState(current, s, ErrorOf(c)))
      BY <2>1, <2>3, TransitionGoesOn
    <3> QED
      BY <2>1, <2>3, <3>1, <3>2, WriteGoesOn
  <2>4. CASE UNCHANGED rows
    BY <2>4, GoesOnReflexive
  <2> QED
    BY <2>2, <2>3, <2>4 DEF Settle
<1>2. pc' # "submitting"
  BY DEF Settle, Continue, AbortTick
<1>3. UNCHANGED <<relayerTransactions, learned, accepted, stray, crashes, faults>>
  BY DEF Settle, outside
<1> QED
  BY <1>1, <1>2, <1>3, StepGoesOn

\* A step of the tick that writes nothing.
LEMMA MoveSafe ==
    ASSUME Rows, pc # "submitting", pc' # "submitting", UNCHANGED <<store, outside, history>>
    PROVE  Rows' /\ RowsKept
<1>1. \A e \in Executions : GoesOn(rows[e], rows'[e])
  BY GoesOnReflexive DEF store
<1>2. UNCHANGED <<relayerTransactions, learned, accepted, stray, crashes, faults>>
  BY DEF store, outside, history
<1> QED
  BY <1>1, <1>2, StepGoesOn

-----------------------------------------------------------------------------
(* The steps that hand an intent over, or take one back.                   *)

\* What a step that writes row e only leaves of the others.
LEMMA OthersSafe ==
    ASSUME Rows, NEW e \in Executions, NEW f \in Executions, f # e,
           rows'[f] = rows[f], relayerTransactions'[f] = relayerTransactions[f],
           learned'[f] = learned[f], accepted'[f] + stray'[f] = accepted[f] + stray[f],
           crashes + faults > 0 => (crashes + faults)' > 0,
           InFlight(f)' <=> InFlight(f),
           reply'.kind = "none" => reply.kind = "none"
    PROVE  HandOverRow(f)' /\ Kept(rows[f], rows'[f])
<1>1. HandOverRow(f)
  BY DEF Rows
<1>2. clientCanceled(f)' <=> clientCanceled(f)
  BY DEF clientCanceled
<1>3. HandOverRow(f)'
  BY <1>1, <1>2 DEF HandOverRow
<1> QED
  BY <1>3 DEF Kept

\* The claim takes a row that was never handed over, or none.
LEMMA ClaimAndSubmitSafe ==
    ASSUME TypeInv, Rows, batch # <<>>, pc # "submitting", ClaimAndSubmit
    PROVE  Rows' /\ RowsKept
<1>1. CASE ~claimGuard(current)
  BY <1>1, MoveSafe DEF ClaimAndSubmit, Skip, Continue
<1>2. CASE claimGuard(current)
  <2> DEFINE claimed == claimForSubmission(current)
  <2>1. Write(claimed) /\ pc' = "submitting" /\ UNCHANGED <<batch, reply>>
        /\ UNCHANGED <<relayerTransactions, outside, accepted, learned, crashes, faults>>
    BY <1>2 DEF ClaimAndSubmit
  <2>2. cur \in Executions /\ current \in Row /\ current.id = cur
    BY CurrentType
  <2>3. claimed \in Row /\ claimed.id = cur
    BY <2>2, WritesType DEF claimForSubmission, Row
  <2>4. rows'[cur] = claimed /\ \A f \in Executions : f # cur => rows'[f] = rows[f]
    BY <2>1, <2>3, WriteRows DEF TypeInv
  <2>5. \A f \in Executions : InFlight(f)' <=> f = cur
    BY <2>1 DEF InFlight, cur, snapshot
  <2>6. \A f \in Executions : ~InFlight(f)
    BY DEF InFlight
  <2>7. ASSUME NEW f \in Executions, f # cur
        PROVE  HandOverRow(f)' /\ Kept(rows[f], rows'[f])
    BY <2>1, <2>2, <2>4, <2>5, <2>6, <2>7, OthersSafe DEF outside
  <2>8. /\ claimed.oz = "claim" /\ claimed.state = current.state
        /\ claimed.error = current.error /\ claimed.hash = current.hash
    BY <2>2 DEF claimForSubmission, Row
  <2>9. HandOverRow(cur) /\ current = rows[cur] /\ learned[cur] \in Nat
    BY <2>2 DEF Rows, current, TypeInv, HistoryType
  <2>10. current.state = "pending" /\ current.oz = "null"
    BY <1>2 DEF claimGuard
  <2>11. learned[cur] = 0 /\ ~clientCanceled(cur) /\ relayerTransactions[cur] = NoView
    BY <2>9, <2>10 DEF HandOverRow
  <2>12. ~clientCanceled(cur)'
    BY <2>1, <2>2, <2>4, <2>8, <2>9, <2>11 DEF clientCanceled, cur, snapshot
  <2>13. UNCHANGED cur
    BY <2>1 DEF cur, snapshot
  <2> HIDE DEF claimed
  <2>14. HandOverRow(cur)'
    BY <2>1, <2>2, <2>4, <2>5, <2>8, <2>9, <2>10, <2>11, <2>12, <2>13 DEF HandOverRow, outside
  <2>15. Kept(rows[cur], rows'[cur])
    BY <2>4, <2>8, <2>9, <2>10 DEF Kept
  <2> QED
    BY <2>7, <2>13, <2>14, <2>15 DEF Rows, RowsKept
<1> QED
  BY <1>1, <1>2

\* The answer of the relayer turns the claim into its id.
LEMMA SubmitAcceptedSafe ==
    ASSUME TypeInv, Rows, SubmitAccepted
    PROVE  Rows' /\ RowsKept
<1> DEFINE acknowledged == applySubmitAcknowledgement(current, reply.view.hash)
<1>1. batch # <<>> /\ pc = "submitting"
  BY DEF SubmitAccepted, TypeInv, TickType, Awaiting, Suspended
<1>2. cur \in Executions /\ current \in Row /\ current.id = cur /\ current = rows[cur]
  BY <1>1, CurrentType DEF current
<1>3. /\ HandOverRow(cur) /\ InFlight(cur)
      /\ \A f \in Executions : InFlight(f) => f = cur
  BY <1>1, <1>2 DEF Rows, InFlight
<1>4. current.oz = "claim" /\ current.state = "pending" /\ learned[cur] = 0
  BY <1>2, <1>3 DEF HandOverRow
<1>5. acknowledged \in Row /\ acknowledged.id = cur
  <2>1. reply.view.hash \in 0..MaxHash
    BY DEF TypeInv, TickType, Reply, OzView
  <2>2. acknowledged \in Row
    BY <1>2, <2>1, WritesType
  <2>3. acknowledged.id = current.id
    BY <1>2 DEF applySubmitAcknowledgement, Row
  <2> QED
    BY <1>2, <2>2, <2>3
<1>6. /\ acknowledged.oz = "id" /\ acknowledged.state \in {"pending", "submitted"}
      /\ acknowledged.error = current.error
      /\ current.hash # 0 => acknowledged.hash # 0
  BY <1>2, <1>4 DEF applySubmitAcknowledgement, Row
<1>7. /\ learned' = [learned EXCEPT ![cur] = @ + 1]
      /\ learned \in [Executions -> Nat]
      /\ UNCHANGED <<accepted, stray>>
      /\ pc' # "submitting"
      /\ reply' = NoReply
  BY DEF SubmitAccepted, Continue, Restart, TypeInv, HistoryType
<1>8. learned'[cur] = 1 /\ \A f \in Executions : f # cur => learned'[f] = learned[f]
  BY <1>2, <1>4, <1>7, CountType
<1>9. /\ failItem(current) \in Row /\ failItem(current).id = cur
      /\ failItem(acknowledged) \in Row /\ failItem(acknowledged).id = cur
      /\ failItem(current).oz = "claim" /\ failItem(acknowledged).oz = "id"
      /\ current.hash # 0 => failItem(current).hash # 0 /\ failItem(acknowledged).hash # 0
      /\ \A r \in {current, acknowledged} :
           /\ failItem(r).state = "failed"
           /\ failItem(r).error.code = "INTERNAL_INVARIANT"
  BY <1>2, <1>4, <1>5, <1>6, FailItemType DEF ErrorOf
<1>10. /\ \A f \in Executions : f # cur => rows'[f] = rows[f]
       /\ \/ rows'[cur] \in {acknowledged, failItem(acknowledged)}
          \/ /\ rows'[cur] \in {current, failItem(current)}
             /\ relayerTransactions' = relayerTransactions
             /\ (crashes + faults)' > 0
       /\ crashes + faults > 0 => (crashes + faults)' > 0
       /\ \A f \in Executions : f # cur => relayerTransactions'[f] = relayerTransactions[f]
  <2>1. crashes \in Nat /\ faults \in Nat /\ relayerTransactions \in [Executions -> OzView]
    BY Constants DEF TypeInv, HistoryType, OutsideType
  <2> DEFINE stored == [relayerTransactions EXCEPT ![cur] = reply.view]
  <2>2. \A r \in {acknowledged, failItem(acknowledged), failItem(current)} :
          Write(r) => /\ rows'[cur] = r
                      /\ \A f \in Executions : f # cur => rows'[f] = rows[f]
    BY <1>5, <1>9, WriteRows DEF TypeInv
  <2>3. \A f \in Executions : f # cur => stored[f] = relayerTransactions[f]
    BY <2>1
  <2> HIDE DEF acknowledged
  <2>4. CASE /\ Write(acknowledged)
             /\ relayerTransactions' = stored
             /\ UNCHANGED <<crashes, faults>>
    BY <2>1, <2>2, <2>3, <2>4
  <2>5. CASE /\ Throws
             /\ \/ /\ UNCHANGED <<rows, updatedBefore>> \/ Write(failItem(current))
                   /\ UNCHANGED relayerTransactions
                \/ /\ Write(acknowledged) \/ Write(failItem(acknowledged))
                   /\ relayerTransactions' \in {relayerTransactions, stored}
             /\ UNCHANGED crashes
    BY <1>2, <2>1, <2>2, <2>3, <2>5, ThrowsType
  <2>6. CASE Write(acknowledged) /\ crashes' = crashes + 1 /\ UNCHANGED <<relayerTransactions, faults>>
    BY <2>1, <2>2, <2>6
  <2> QED
    BY <2>4, <2>5, <2>6 DEF SubmitAccepted, Restart, acknowledged
<1>11. \A f \in Executions : ~InFlight(f)'
  BY <1>7 DEF InFlight
<1>12. ASSUME NEW f \in Executions, f # cur
       PROVE  HandOverRow(f)' /\ Kept(rows[f], rows'[f])
  <2>1. HandOverRow(f) /\ ~InFlight(f)
    BY <1>3, <1>12 DEF Rows
  <2>2. clientCanceled(f)' <=> clientCanceled(f)
    BY <1>10, <1>12 DEF clientCanceled
  <2>3. HandOverRow(f)'
    BY <1>7, <1>8, <1>10, <1>11, <1>12, <2>1, <2>2 DEF HandOverRow
  <2> QED
    BY <1>10, <1>12, <2>3 DEF Kept
<1>13. ASSUME NEW e \in Executions, e = cur
       PROVE  HandOverRow(e)' /\ Kept(rows[e], rows'[e])
  <2> HIDE DEF acknowledged
  <2>1. /\ HandOverRow(e) /\ ~clientCanceled(e) /\ rows[e].error = current.error
        /\ rows[e] = current
    BY <1>2, <1>3, <1>4, <1>13 DEF HandOverRow
  <2>2. ~clientCanceled(e)'
    BY <1>6, <1>9, <1>10, <1>13, <2>1 DEF clientCanceled
  <2>3. rows'[e].oz # "null" /\ rows'[e].state \in {"pending", "submitted", "failed"}
    BY <1>4, <1>6, <1>9, <1>10, <1>13, <2>1
  <2>4. relayerTransactions'[e] # NoView => rows'[e].oz = "id"
    BY <1>4, <1>6, <1>9, <1>10, <1>13, <2>1 DEF HandOverRow
  <2>5. rows'[e].oz = "claim" => (crashes + faults)' > 0
    BY <1>6, <1>9, <1>10, <1>13
  <2>6. ~LoseReplies => accepted'[e] + stray'[e] <= 1
    BY <1>7, <2>1 DEF HandOverRow
  <2>7. HandOverRow(e)'
    BY <1>8, <1>11, <1>13, <2>2, <2>3, <2>4, <2>5, <2>6 DEF HandOverRow
  <2>8. Kept(rows[e], rows'[e])
    BY <1>4, <1>6, <1>9, <1>10, <1>13, <2>1 DEF Kept, isTerminal, TerminalState
  <2> QED
    BY <2>7, <2>8
<1> QED
  BY <1>12, <1>13 DEF Rows, RowsKept

\* A claim is released only when the relayer has not taken the call, or a reply may be
\* lost.
LEMMA SubmitFailedSafe ==
    ASSUME TypeInv, Rows, NEW kind, NEW left \in {0, 1}, SubmitFailed(kind, left),
           ~LoseReplies => left = 0 /\ reply.kind = "none"
    PROVE  Rows' /\ RowsKept
<1> DEFINE released == releaseSubmissionClaim(current)
           failed == afterSubmitFailure(released, kind)
<1>1. batch # <<>> /\ pc = "submitting"
  BY DEF SubmitFailed, TypeInv, TickType, Awaiting, Suspended
<1>2. /\ cur \in Executions /\ current \in Row /\ snapshot \in Row
      /\ current.id = cur /\ current = rows[cur]
  BY <1>1, CurrentType DEF current
<1>3. /\ HandOverRow(cur) /\ InFlight(cur)
      /\ \A f \in Executions : InFlight(f) => f = cur
  BY <1>1, <1>2 DEF Rows, InFlight
<1>4. /\ current.oz = "claim" /\ current.state = "pending" /\ learned[cur] = 0
      /\ relayerTransactions[cur] = NoView /\ ~clientCanceled(cur)
  BY <1>2, <1>3 DEF HandOverRow
<1>5. /\ released \in Row /\ released.id = cur /\ released.oz = "null"
      /\ released.state = "pending" /\ released.hash = current.hash
      /\ released.error = current.error
  BY <1>2, <1>4, WritesType DEF releaseSubmissionClaim, Row
<1>6. /\ failed \in Row /\ failed.id = cur /\ failed.oz = "null"
      /\ failed.state \in {"pending", "failed"} /\ failed.hash = current.hash
      /\ failed.error.code # "CANCELED_BY_CLIENT"
  <2> HIDE DEF released
  <2>1. failed \in Row
    BY <1>2, <1>5, AfterSubmitFailureType
  <2>2. current.error.code # "CANCELED_BY_CLIENT"
    BY <1>2, <1>4 DEF clientCanceled
  <2> QED
    BY <1>5, <2>1, <2>2
    DEF afterSubmitFailure, updateLastError, transitionState, Coalesce, ErrorOf, Row
<1>6a. /\ failItem(current) \in Row /\ failItem(current).id = cur
       /\ failItem(released) \in Row /\ failItem(released).id = cur
       /\ failItem(current).oz = "claim" /\ failItem(released).oz = "null"
       /\ \A r \in {current, released} :
            /\ failItem(r).state = "failed" /\ failItem(r).hash = current.hash
            /\ failItem(r).error.code # "CANCELED_BY_CLIENT"
  BY <1>2, <1>4, <1>5, FailItemType DEF ErrorOf
<1>7. /\ \/ Write(failed) \/ Write(released)
         \/ Throws /\ (Write(failItem(current)) \/ Write(failItem(released)) \/ UNCHANGED rows)
      /\ UNCHANGED <<relayerTransactions, accepted, learned>>
      /\ stray' = [stray EXCEPT ![cur] = @ + left]
      /\ pc' # "submitting"
      /\ UNCHANGED crashes \/ crashes' = crashes + 1
      /\ UNCHANGED faults \/ Throws
  BY DEF SubmitFailed, Continue, Restart, AbortTick
<1>7a. crashes \in Nat /\ faults \in Nat /\ (Throws => faults' = faults + 1)
  BY ThrowsType, Constants DEF TypeInv, HistoryType
<1>8. /\ \/ rows'[cur] \in {failed, released, failItem(released)}
         \/ rows'[cur] \in {current, failItem(current)} /\ (crashes + faults)' > 0
      /\ \A f \in Executions : f # cur => rows'[f] = rows[f]
  <2>1. \A r \in {failed, released, failItem(current), failItem(released)} :
          Write(r) => /\ rows'[cur] = r
                      /\ \A f \in Executions : f # cur => rows'[f] = rows[f]
    BY <1>5, <1>6, <1>6a, WriteRows DEF TypeInv
  <2>2. Throws => (crashes + faults)' > 0
    BY <1>7, <1>7a
  <2> HIDE DEF released, failed
  <2> QED
    BY <1>2, <1>7, <2>1, <2>2
<1>9. /\ stray'[cur] = stray[cur] + left
      /\ \A f \in Executions : f # cur => stray'[f] = stray[f]
  BY <1>2, <1>7 DEF TypeInv, OutsideType
<1>10. crashes + faults > 0 => (crashes + faults)' > 0
  BY <1>7, <1>7a
<1>11. \A f \in Executions : ~InFlight(f)'
  BY <1>7 DEF InFlight
<1> HIDE DEF released, failed
<1>12. ASSUME NEW f \in Executions, f # cur
       PROVE  HandOverRow(f)' /\ Kept(rows[f], rows'[f])
  <2>1. HandOverRow(f) /\ ~InFlight(f)
    BY <1>3, <1>12 DEF Rows
  <2>2. clientCanceled(f)' <=> clientCanceled(f)
    BY <1>8, <1>12 DEF clientCanceled
  <2>3. HandOverRow(f)'
    BY <1>7, <1>8, <1>9, <1>10, <1>11, <1>12, <2>1, <2>2 DEF HandOverRow
  <2> QED
    BY <1>8, <1>12, <2>3 DEF Kept
<1>13. ASSUME NEW e \in Executions, e = cur
       PROVE  HandOverRow(e)' /\ Kept(rows[e], rows'[e])
  <2>1. ~clientCanceled(e)'
    BY <1>2, <1>4, <1>5, <1>6, <1>6a, <1>8, <1>13 DEF clientCanceled
  <2>2. /\ \/ rows'[e].oz = "null"
           \/ rows'[e].oz = "claim" /\ (crashes + faults)' > 0
        /\ rows'[e].state \in {"pending", "failed"}
        /\ rows'[e].hash = rows[e].hash
    BY <1>2, <1>4, <1>5, <1>6, <1>6a, <1>8, <1>13
  <2>3. ~LoseReplies => accepted'[e] + stray'[e] = 0
    BY <1>3, <1>7, <1>9, <1>13 DEF HandOverRow, TypeInv, OutsideType, HistoryType
  <2>4. HandOverRow(e)'
    BY <1>4, <1>7, <1>11, <1>13, <2>1, <2>2, <2>3 DEF HandOverRow
  <2>5. Kept(rows[e], rows'[e])
    BY <1>2, <1>4, <1>13, <2>2 DEF Kept, isTerminal, TerminalState
  <2> QED
    BY <2>4, <2>5
<1> QED
  BY <1>12, <1>13 DEF Rows, RowsKept

\* The relayer takes a call only of a row that is claimed and in flight.
LEMMA OutsideSafe ==
    ASSUME TypeInv, Rows, Outside
    PROVE  Rows' /\ RowsKept
<1>1. UNCHANGED <<rows, relayerTransactions, learned, faults>>
  BY DEF Outside, OzAccepts, BackoffElapses, Crash, OzAcceptsStray, OzAdvances, Expire,
         store, history
<1>2. RowsKept
  BY <1>1 DEF RowsKept, Kept
<1>3. CASE OzAccepts
  <2>1. /\ pc = "submitting" /\ reply.kind = "none" /\ reply'.kind = "ok"
        /\ UNCHANGED <<pc, batch, stray, crashes>>
        /\ accepted' = [accepted EXCEPT ![cur] = @ + 1]
    BY <1>3 DEF OzAccepts
  <2>2. cur \in Executions
    BY <2>1, CurrentType DEF TypeInv, TickType, Awaiting, Suspended
  <2>3. /\ accepted'[cur] = accepted[cur] + 1
        /\ \A f \in Executions : f # cur => accepted'[f] = accepted[f]
    BY <2>1, <2>2, CountType DEF TypeInv, HistoryType
  <2>4. ASSUME NEW e \in Executions
        PROVE  HandOverRow(e)'
    <3>1. HandOverRow(e) /\ (InFlight(e) <=> e = cur) /\ (InFlight(e)' <=> InFlight(e))
      BY <2>1 DEF Rows, InFlight, cur, snapshot
    <3>2. clientCanceled(e)' <=> clientCanceled(e)
      BY <1>1 DEF clientCanceled
    <3>3. accepted[e] \in Nat /\ stray[e] \in Nat
      BY DEF TypeInv, HistoryType, OutsideType
    <3> QED
      BY <1>1, <2>1, <2>3, <3>1, <3>2, <3>3 DEF HandOverRow
  <2> QED
    BY <1>2, <2>4 DEF Rows
<1>4. CASE Crash
  <2>1. pc' # "submitting" /\ crashes' = crashes + 1 /\ UNCHANGED accepted
    BY <1>4 DEF Crash, Restart
  <2>2. ASSUME NEW e \in Executions
        PROVE  HandOverRow(e)'
    <3>1. HandOverRow(e) /\ ~InFlight(e)'
      BY <2>1 DEF Rows, InFlight
    <3>2. clientCanceled(e)' <=> clientCanceled(e)
      BY <1>1 DEF clientCanceled
    <3>3. /\ accepted[e] \in Nat /\ stray[e] \in Nat
          /\ crashes \in Nat /\ faults \in Nat
      BY Constants DEF TypeInv, HistoryType, OutsideType
    <3>4. \/ stray'[e] = stray[e]
          \/ InFlight(e) /\ reply.kind = "none" /\ stray'[e] = stray[e] + 1
      BY <1>4 DEF Crash, InFlight, TypeInv, OutsideType
    <3>5. ~LoseReplies =>
            /\ accepted'[e] + stray'[e] <= 1
            /\ rows'[e].oz = "null" => accepted'[e] + stray'[e] = 0
      BY <1>1, <2>1, <3>1, <3>3, <3>4 DEF HandOverRow
    <3> QED
      BY <1>1, <2>1, <3>1, <3>2, <3>3, <3>5 DEF HandOverRow
  <2> QED
    BY <1>2, <2>2 DEF Rows
<1>5. CASE \/ BackoffElapses
           \/ \E e \in Executions : OzAcceptsStray(e) \/ OzAdvances(e) \/ Expire(e)
  <2>1. UNCHANGED <<pc, batch, reply, crashes>>
    BY <1>5 DEF BackoffElapses, OzAcceptsStray, OzAdvances, Expire, history
  <2>2. ASSUME NEW e \in Executions
        PROVE  HandOverRow(e)'
    <3>1. HandOverRow(e) /\ (InFlight(e)' <=> InFlight(e))
      BY <2>1 DEF Rows, InFlight, cur, snapshot
    <3>2. clientCanceled(e)' <=> clientCanceled(e)
      BY <1>1 DEF clientCanceled
    <3>3. accepted'[e] + stray'[e] = accepted[e] + stray[e]
      BY <1>5 DEF BackoffElapses, OzAcceptsStray, OzAdvances, Expire, history, outside,
                  TypeInv, HistoryType, OutsideType
    <3> QED
      BY <1>1, <2>1, <3>1, <3>2, <3>3 DEF HandOverRow
  <2> QED
    BY <1>2, <2>2 DEF Rows
<1> QED
  BY <1>3, <1>4, <1>5 DEF Outside

\* The API creates a row, cancels one that nobody has claimed, or answers with one.
LEMMA ApiSafe ==
    ASSUME TypeInv, Rows, NEW e \in Executions, Api(e)
    PROVE  Rows' /\ RowsKept
<1>1. UNCHANGED <<relayerTransactions, pc, batch, reply, learned, accepted, stray, crashes, faults>>
  BY DEF Api, Admit, Cancel, Replay, outside, history
<1>2. rows[e] \in Row /\ rows[e].id = e /\ HandOverRow(e)
  BY DEF TypeInv, TableType, Rows
<1>3. \A f \in Executions : (InFlight(f)' <=> InFlight(f))
  BY <1>1 DEF InFlight, cur, snapshot
<1>4. ASSUME NEW r \in Row, r.id = e, Write(r), HandOverRow(e)', Kept(rows[e], r)
      PROVE  Rows' /\ RowsKept
  <2>1. rows'[e] = r /\ \A f \in Executions : f # e => rows'[f] = rows[f]
    BY <1>4, WriteRows DEF TypeInv
  <2>2. ASSUME NEW f \in Executions, f # e
        PROVE  HandOverRow(f)' /\ Kept(rows[f], rows'[f])
    BY <1>1, <1>3, <2>1, <2>2, OthersSafe
  <2> QED
    BY <1>4, <2>1, <2>2 DEF Rows, RowsKept
<1>5. CASE Admit(e)
  <2>1. PICK profile \in Profiles : Write(createPending(e, profile[1], profile[2]))
    BY <1>5 DEF Admit
  <2> DEFINE r == createPending(e, profile[1], profile[2])
  <2>2. r \in Row
    <3>1. AbsentRow(e) \in Row
      BY Constants DEF AbsentRow, NullError, Row, Kind, Receipt, ErrorCode
    <3>2. profile[1] \in Kind /\ profile[2] \in BOOLEAN
      BY Constants
    <3> QED
      BY <3>1, <3>2 DEF createPending, Row, RelayExecutionState
  <2>3. /\ r.id = e /\ r.oz = "null" /\ r.state = "pending" /\ r.error.code = "none"
    BY DEF createPending, AbsentRow, NullError
  <2>4. rows[e].state = "absent" /\ rows[e].oz = "null" /\ rows[e].hash = 0
    BY <1>2, <1>5 DEF Admit, HandOverRow
  <2> HIDE DEF r
  <2>5. rows'[e] = r
    BY <2>1, <2>2, <2>3, WriteRows DEF TypeInv, r
  <2>6. HandOverRow(e)'
    <3>1. ~clientCanceled(e)' /\ ~InFlight(e)'
      BY <1>2, <1>3, <2>3, <2>4, <2>5 DEF clientCanceled, HandOverRow
    <3> QED
      BY <1>1, <1>2, <2>3, <2>4, <2>5, <3>1 DEF HandOverRow
  <2>7. Kept(rows[e], r)
    BY <2>4 DEF Kept, isTerminal, TerminalState
  <2> QED
    BY <1>4, <2>1, <2>2, <2>3, <2>6, <2>7 DEF r
<1>6. CASE Cancel(e)
  <2> DEFINE r == tryClientCancel(rows[e])
  <2>1. /\ Write(r) /\ rows[e].oz = "null"
        /\ rows[e].state \in {"awaiting_authorization", "pending"}
    BY <1>6 DEF Cancel, tryClientCancelGuard
  <2>2. r \in Row /\ r.id = e /\ r.oz = "null" /\ r.state = "canceled" /\ r.hash = rows[e].hash
    BY <1>2, <2>1, WritesType DEF tryClientCancel, Row
  <2> HIDE DEF r
  <2>3. rows'[e] = r
    BY <2>1, <2>2, WriteRows DEF TypeInv
  <2>4. HandOverRow(e)'
    <3>1. ~InFlight(e)'
      BY <1>2, <1>3, <2>1 DEF HandOverRow
    <3> QED
      BY <1>1, <1>2, <2>1, <2>2, <2>3, <3>1 DEF HandOverRow
  <2>5. Kept(rows[e], r)
    BY <2>1, <2>2 DEF Kept, isTerminal, TerminalState
  <2> QED
    BY <1>4, <2>1, <2>2, <2>4, <2>5
<1>7. CASE Replay(e)
  <2> DEFINE p == projectRelayerState(relayerTransactions[e], rows[e].receipt, WaitConfirmed)
             r == transitionState(rows[e], p.state, ErrorOf(p.code))
  <2>1. Write(r) /\ canTransitionState(rows[e].state, p.state) /\ relayerTransactions[e] # NoView
    BY <1>7 DEF Replay
  <2>2. relayerTransactions[e] \in OzView /\ rows[e].receipt \in Receipt
    BY <1>2 DEF TypeInv, OutsideType, Row
  <2>3. p.state \in RelayExecutionState /\ p.code \in ErrorCode \ {"CANCELED_BY_CLIENT"}
    <3>1. p.code # "CANCELED_BY_CLIENT"
      BY DEF projectRelayerState
    <3> QED
      BY <2>2, <3>1, Constants, ProjectionType
  <2> HIDE DEF p
  <2>4. r \in Row /\ r.id = e /\ GoesOn(rows[e], r)
    BY <1>2, <2>1, <2>3, WritesType, TransitionGoesOn DEF transitionState, Row
  <2> HIDE DEF r
  <2>5. \A f \in Executions : GoesOn(rows[f], rows'[f])
    BY <1>2, <2>1, <2>4, WriteGoesOn
  <2>6. ~InFlight(e) /\ \A f \in Executions : f # e => rows'[f] = rows[f]
    BY <1>2, <2>1, <2>4, WriteRows DEF HandOverRow, TypeInv
  <2> QED
    BY <1>1, <2>5, <2>6, StepGoesOn
<1> QED
  BY <1>5, <1>6, <1>7 DEF Api

-----------------------------------------------------------------------------
(* The polling, and the rows of its batch.                                 *)

\* A poll lets the row of its transaction go on.
LEMMA ProjectTransactionSafe ==
    ASSUME TypeInv, Rows, batch # <<>>, pc # "submitting", current.oz = "id",
           NEW view \in OzView, NEW receipt \in Receipt, ProjectTransaction(view, receipt)
    PROVE  Rows' /\ RowsKept
<1>1. cur \in Executions /\ current.id = cur /\ current = rows[cur] /\ HandOverRow(cur)
  BY CurrentType DEF current, Rows
<1>2. current.state # "absent"
  BY <1>1 DEF HandOverRow
<1>3. ASSUME NEW i \in 1..5, Write(pollWrites(view, receipt)[i])
      PROVE  \A e \in Executions : GoesOn(rows[e], rows'[e])
  <2>1. /\ pollWrites(view, receipt)[i] \in Row
        /\ pollWrites(view, receipt)[i].id = cur
        /\ GoesOn(current, pollWrites(view, receipt)[i])
    BY <1>2, PollWritesType, PollWritesGoOn
  <2> QED
    BY <1>1, <1>3, <2>1, WriteGoesOn
<1>4. \A e \in Executions : GoesOn(rows[e], rows'[e])
  <2>1. UNCHANGED rows \/ \E i \in 1..5 : Write(pollWrites(view, receipt)[i])
    BY DEF ProjectTransaction, store
  <2> QED
    BY <1>3, <2>1, GoesOnReflexive
<1>5. /\ pc' # "submitting"
      /\ UNCHANGED <<learned, accepted, stray>>
      /\ relayerTransactions' \in {relayerTransactions, [relayerTransactions EXCEPT ![cur] = view]}
      /\ faults' = faults \/ Throws
      /\ crashes' = crashes \/ crashes' = crashes + 1
  BY DEF ProjectTransaction, Continue, Restart, store
<1>6. crashes + faults > 0 => (crashes + faults)' > 0
  BY <1>5, ThrowsType, Constants DEF TypeInv, HistoryType
<1>7. \A e \in Executions :
        relayerTransactions'[e] # NoView => relayerTransactions[e] # NoView \/ rows[e].oz = "id"
  BY <1>1, <1>5 DEF TypeInv, OutsideType
<1> QED
  BY <1>4, <1>5, <1>6, <1>7, StepGoesOn

PollBatch == pc \in Polling => \A i \in 1..Len(batch) : rows[batch[i].id].oz = "id"

\* The row being polled has its id.
LEMMA PolledRow ==
    ASSUME TypeInv, PollBatch, pc \in {"transaction", "receipt"}
    PROVE  batch # <<>> /\ current.oz = "id"
<1>1. batch # <<>> /\ batch \in Seq(Row)
  BY DEF TypeInv, TickType, Awaiting, Suspended
<1>2. 1 \in 1..Len(batch) /\ Head(batch) = batch[1]
  BY <1>1
<1> QED
  BY <1>1, <1>2 DEF PollBatch, Polling, current, cur, snapshot

\* The batch stays one of rows with an id, as long as the tick only goes through it.
LEMMA PollBatchKept ==
    ASSUME TypeInv, PollBatch, RowsKept,
           \/ pc' \notin Polling
           \/ pc \in Polling /\ batch' = batch
           \/ pc \in Polling /\ batch # <<>> /\ batch' = Tail(batch)
    PROVE  PollBatch'
<1>1. batch \in Seq(Row) /\ \A i \in 1..Len(batch) : batch[i] \in Row /\ batch[i].id \in Executions
  <2>1. batch \in Seq(Row)
    BY DEF TypeInv, TickType
  <2>2. \A i \in 1..Len(batch) : batch[i] \in Row
    BY <2>1
  <2> QED
    BY <2>1, <2>2 DEF Row
<1>2. \A e \in Executions : rows[e].oz = "id" => rows'[e].oz = "id"
  BY DEF RowsKept, Kept
<1>3. CASE pc' \notin Polling
  BY <1>3 DEF PollBatch
<1>4. CASE pc \in Polling /\ batch' = batch
  BY <1>1, <1>2, <1>4 DEF PollBatch
<1>5. CASE pc \in Polling /\ batch # <<>> /\ batch' = Tail(batch)
  <2>1. ASSUME NEW i \in 1..Len(Tail(batch))
        PROVE  i + 1 \in 1..Len(batch) /\ Tail(batch)[i] = batch[i + 1]
    BY <1>1, <1>5
  <2> QED
    BY <1>1, <1>2, <1>5, <2>1 DEF PollBatch
<1> QED
  BY <1>3, <1>4, <1>5

\* The polling lists rows that have the relayer's id.
LEMMA PollStartSafe ==
    ASSUME TypeInv, Rows, PollStart
    PROVE  Rows' /\ RowsKept /\ PollBatch'
<1>1. pc # "submitting" /\ pc' # "submitting" /\ UNCHANGED <<store, outside, history>>
  BY DEF PollStart
<1>2. CASE backoff
  <2>1. PollBatch'
    BY <1>2 DEF PollStart, PollBatch, Polling
  <2> QED
    BY <1>1, <2>1, MoveSafe
<1>3. CASE ~backoff
  <2> DEFINE S == {e \in Executions : isPollable(rows[e])}
  <2>1. PICK s \in FirstOf(S, updatedBefore, BatchSize) : batch' = Snapshots(s)
    BY <1>3 DEF PollStart
  <2>2. batch' \in Seq(Row) /\ \A i \in DOMAIN batch' : \E e \in S : batch'[i] = rows[e]
    <3>1. S \in SUBSET Executions /\ rows \in [Executions -> Row]
      BY DEF TypeInv, TableType
    <3> HIDE DEF S
    <3>2. /\ Snapshots(s) \in Seq(Row)
          /\ \A i \in DOMAIN Snapshots(s) : \E e \in S : Snapshots(s)[i] = rows[e]
      BY <2>1, <3>1, ListingType
    <3> QED
      BY <2>1, <3>2
  <2>3. \A e \in S : rows[e].oz = "id" /\ rows[e].id = e
    BY DEF isPollable, TypeInv, TableType
  <2>4. \A i \in 1..Len(batch') : rows'[batch'[i].id].oz = "id"
    <3>1. DOMAIN batch' = 1..Len(batch')
      BY <2>2
    <3> HIDE DEF S
    <3> QED
      BY <1>1, <2>2, <2>3, <3>1 DEF store
  <2>5. PollBatch'
    BY <2>4 DEF PollBatch
  <2> QED
    BY <1>1, <2>5, MoveSafe
<1> QED
  BY <1>2, <1>3

\* The polling keeps the hand-over of all rows, and its batch.
LEMMA PollPhaseSafe ==
    ASSUME TypeInv, Rows, PollBatch,
           \/ PollNext \/ ReceiptLoaded \/ ReceiptUnavailable
           \/ \E kind \in ErrorKinds : TransactionUnavailable(kind)
           \/ \E withReceipt \in BOOLEAN : TransactionLoaded(withReceipt)
    PROVE  Rows' /\ RowsKept /\ PollBatch'
<1>1. CASE PollNext
  <2>1. Rows' /\ RowsKept
    BY <1>1, MoveSafe DEF PollNext
  <2> QED
    BY <1>1, <2>1, PollBatchKept DEF PollNext, Polling
<1>2. ASSUME NEW kind \in ErrorKinds, TransactionUnavailable(kind)
      PROVE  Rows' /\ RowsKept /\ PollBatch'
  <2>1. batch # <<>>
    BY <1>2, PolledRow DEF TransactionUnavailable
  <2>2. Rows' /\ RowsKept
    BY <1>2, MoveSafe DEF TransactionUnavailable, Continue
  <2> QED
    BY <1>2, <2>1, <2>2, PollBatchKept DEF TransactionUnavailable, Continue, Polling
<1>3. ASSUME pc \in {"transaction", "receipt"}, NEW view \in OzView, NEW receipt \in Receipt,
             ProjectTransaction(view, receipt)
      PROVE  Rows' /\ RowsKept /\ PollBatch'
  <2>1. batch # <<>> /\ current.oz = "id"
    BY <1>3, PolledRow
  <2>2. Rows' /\ RowsKept
    BY <1>3, <2>1, ProjectTransactionSafe
  <2>3. pc' = "idle" \/ batch' = Tail(batch)
    BY <1>3 DEF ProjectTransaction, Continue, Restart
  <2> QED
    BY <1>3, <2>1, <2>2, <2>3, PollBatchKept DEF Polling
<1>4. CASE ReceiptLoaded \/ ReceiptUnavailable
  <2>1. reply.view \in OzView /\ reply.view.outcome \in Receipt /\ "none" \in Receipt
    BY DEF TypeInv, TickType, Reply, OzView, Receipt
  <2> QED
    BY <1>3, <1>4, <2>1 DEF ReceiptLoaded, ReceiptUnavailable
<1>5. ASSUME NEW withReceipt \in BOOLEAN, TransactionLoaded(withReceipt)
      PROVE  Rows' /\ RowsKept /\ PollBatch'
  <2>1. pc = "transaction" /\ cur \in Executions
    BY <1>5, PolledRow, CurrentType DEF TransactionLoaded
  <2>2. tx[cur] \in OzView /\ tx[cur].outcome \in Receipt /\ "none" \in Receipt
    BY <2>1 DEF TypeInv, OutsideType, OzView, Receipt
  <2>3. \/ pc' = "receipt" /\ UNCHANGED <<store, batch, outside, history>>
        \/ ProjectTransaction(tx[cur], IF withReceipt THEN tx[cur].outcome ELSE "none")
    BY <1>5 DEF TransactionLoaded
  <2>4. CASE pc' = "receipt" /\ UNCHANGED <<store, batch, outside, history>>
    <3>1. Rows' /\ RowsKept
      BY <2>1, <2>4, MoveSafe
    <3> QED
      BY <2>1, <2>4, <3>1, PollBatchKept DEF Polling
  <2> QED
    BY <1>3, <2>1, <2>2, <2>3, <2>4
<1> QED
  BY <1>1, <1>2, <1>4, <1>5

-----------------------------------------------------------------------------
(* The inductive invariant and the theorems.                               *)

\* So does the submission, up to its claims.
LEMMA SubmitPhaseSafe ==
    ASSUME TypeInv, Rows,
           \/ SubmitNext \/ RelayerLoaded \/ Permit2Loaded \/ Permit2Unavailable
           \/ PreflightOk \/ PreflightReverts \/ PreflightUnavailable
           \/ \E kind \in ErrorKinds : RelayerUnavailable(kind)
    PROVE  Rows' /\ RowsKept /\ pc' \notin Polling
<1>1. pc \in {"submit", "relayer", "permit2", "preflight", "witness"} /\ batch # <<>>
  <2>1. pc \in Awaiting => batch # <<>>
    BY DEF TypeInv, TickType
  <2> QED
    BY <2>1 DEF SubmitNext, RelayerLoaded, Permit2Loaded, Permit2Unavailable, PreflightOk,
         PreflightReverts, PreflightUnavailable, RelayerUnavailable, Awaiting, Suspended
<1>2. \/ Skip
      \/ ClaimAndSubmit
      \/ /\ pc' \in {"relayer", "permit2", "preflight", "witness"}
         /\ UNCHANGED <<store, batch, reply, backoff, outside, history>>
      \/ \E to \in {"failed", "rejected", "expired"},
            code \in {"CHAIN_NOT_ALLOWED", "INTERNAL_INVARIANT", "PREFLIGHT_REVERTED",
                      "CLEAR_MACRO_EXPIRED"} :
           Settle(current, to, code) /\ UNCHANGED outside
  BY DEF SubmitNext, RelayerLoaded, Permit2Loaded, Permit2Unavailable, PreflightOk,
         PreflightReverts, PreflightUnavailable, RelayerUnavailable, CheckExpiryAndSubmit
<1>3. pc' \notin Polling
  BY <1>2 DEF Skip, ClaimAndSubmit, Settle, Continue, AbortTick, Polling
<1>4. pc # "submitting"
  BY <1>1
<1>5. CASE Skip
  BY <1>3, <1>4, <1>5, MoveSafe DEF Skip, Continue
<1>6. CASE /\ pc' \in {"relayer", "permit2", "preflight", "witness"}
           /\ UNCHANGED <<store, batch, reply, backoff, outside, history>>
  BY <1>3, <1>4, <1>6, MoveSafe
<1>7. ASSUME NEW to \in {"failed", "rejected", "expired"},
             NEW code \in {"CHAIN_NOT_ALLOWED", "INTERNAL_INVARIANT", "PREFLIGHT_REVERTED",
                           "CLEAR_MACRO_EXPIRED"},
             Settle(current, to, code), UNCHANGED outside
      PROVE  Rows' /\ RowsKept
  <2>1. to \in RelayExecutionState /\ code \in ErrorCode \ {"CANCELED_BY_CLIENT"}
    BY DEF RelayExecutionState, ErrorCode
  <2> QED
    BY <1>1, <1>4, <1>7, <2>1, SettleSafe
<1> QED
  BY <1>1, <1>2, <1>3, <1>4, <1>5, <1>6, <1>7, ClaimAndSubmitSafe

\* A statement that throws before the claim hands nothing over.
LEMMA SubmitThrowsSafe ==
    ASSUME TypeInv, Rows, SubmitThrows
    PROVE  Rows' /\ RowsKept /\ pc' \notin Polling
<1>1. /\ pc \in {"submit", "relayer", "permit2", "preflight", "witness"} /\ batch # <<>>
      /\ canTransitionState(current.state, "failed")
      /\ Write(failItem(current)) /\ pc' = "submit"
      /\ UNCHANGED <<relayerTransactions, learned, accepted, stray, crashes>>
  BY DEF SubmitThrows, Continue, outside, TypeInv, TickType, Awaiting, Suspended
<1>2. current \in Row /\ current = rows[current.id]
  BY <1>1, CurrentType DEF current
<1>3. /\ failItem(current) \in Row /\ failItem(current).id = current.id
      /\ GoesOn(current, failItem(current))
  BY <1>1, <1>2, FailItemType, TransitionGoesOn DEF failItem, RelayExecutionState, ErrorCode
<1>4. \A e \in Executions : GoesOn(rows[e], rows'[e])
  BY <1>1, <1>2, <1>3, WriteGoesOn
<1>5. crashes + faults > 0 => (crashes + faults)' > 0
  BY <1>1, ThrowsType, Constants DEF SubmitThrows, TypeInv, HistoryType
<1> QED
  BY <1>1, <1>4, <1>5, StepGoesOn DEF Polling

\* Nor does an exception that leaves the tick.
LEMMA TickThrowsSafe ==
    ASSUME TypeInv, Rows, TickThrows
    PROVE  Rows' /\ RowsKept /\ pc' \notin Polling
<1>1. /\ pc # "submitting" /\ pc' = "idle"
      /\ UNCHANGED <<rows, relayerTransactions, learned, accepted, stray, crashes>>
  BY DEF TickThrows, AbortTick, store, outside, Running
<1>2. \A e \in Executions : GoesOn(rows[e], rows'[e])
  BY <1>1, GoesOnReflexive
<1>3. crashes + faults > 0 => (crashes + faults)' > 0
  BY <1>1, ThrowsType, Constants DEF TickThrows, TypeInv, HistoryType
<1> QED
  BY <1>1, <1>2, <1>3, StepGoesOn DEF Polling

\* No row is handed over when the worker starts on an empty table.
LEMMA HandOverInit == Init => HandOverInv
BY DEF Init, HandOverInv, HandOverRow, InFlight, clientCanceled, AbsentRow, NullError, NoView, Polling

\* The invariant is that of each row and that of the batch polled.
LEMMA HandOverParts == HandOverInv <=> Rows /\ PollBatch
BY DEF HandOverInv, Rows, PollBatch

\* One step of the specification, from a state that satisfies both invariants.
LEMMA HandOverStep ==
    ASSUME TypeInv, HandOverInv, [Next]_vars
    PROVE  HandOverInv' /\ RowsKept
<1>1. Rows /\ PollBatch
  BY HandOverParts
<1>2. SUFFICES Rows' /\ PollBatch' /\ RowsKept
  BY DEF HandOverInv, Rows, PollBatch
<1>3. CASE UNCHANGED vars
  <2>1. Rows' /\ RowsKept
    BY <1>1, <1>3 DEF vars, Rows, HandOverRow, InFlight, clientCanceled, cur, snapshot, RowsKept, Kept
  <2> QED
    BY <1>1, <1>3, <2>1 DEF vars, PollBatch
<1>4. CASE Worker
  <2>1. CASE TickStart
    <3>1. Rows' /\ RowsKept
      BY <1>1, <2>1, MoveSafe DEF TickStart
    <3> QED
      BY <1>1, <2>1, <3>1, PollBatchKept DEF TickStart, Polling
  <2>2. CASE \/ SubmitNext \/ RelayerLoaded \/ Permit2Loaded \/ Permit2Unavailable
             \/ PreflightOk \/ PreflightReverts \/ PreflightUnavailable
             \/ \E kind \in ErrorKinds : RelayerUnavailable(kind)
    BY <1>1, <2>2, SubmitPhaseSafe, PollBatchKept
  <2>3. CASE SubmitAccepted
    <3>1. pc' \notin Polling
      BY <2>3 DEF SubmitAccepted, Continue, Restart, Polling
    <3> QED
      BY <1>1, <2>3, <3>1, SubmitAcceptedSafe, PollBatchKept
  <2>4. CASE SubmitRefused \/ SubmitTimesOut
    <3>1. PICK kind \in ErrorKinds, left \in {0, 1} :
            SubmitFailed(kind, left) /\ (~LoseReplies => left = 0 /\ reply.kind = "none")
      BY <2>4 DEF SubmitRefused, SubmitTimesOut
    <3>2. pc' \notin Polling
      BY <3>1 DEF SubmitFailed, Continue, Restart, AbortTick, Polling
    <3> QED
      BY <1>1, <3>1, <3>2, SubmitFailedSafe, PollBatchKept
  <2>5. CASE SubmitThrows \/ TickThrows
    BY <1>1, <2>5, SubmitThrowsSafe, TickThrowsSafe, PollBatchKept
  <2> QED
    BY <1>1, <1>4, <2>1, <2>2, <2>3, <2>4, <2>5, PollStartSafe, PollPhaseSafe DEF Worker
<1>5. CASE Outside
  <2>1. Rows' /\ RowsKept
    BY <1>1, <1>5, OutsideSafe
  <2>2. pc' \notin Polling \/ UNCHANGED <<pc, batch>>
    BY <1>5 DEF Outside, OzAccepts, BackoffElapses, Crash, Restart, OzAcceptsStray, OzAdvances,
                Expire, Polling
  <2> QED
    BY <1>1, <2>1, <2>2, PollBatchKept
<1>6. CASE \E e \in Executions : Api(e)
  <2>1. Rows' /\ RowsKept
    BY <1>1, <1>6, ApiSafe
  <2>2. UNCHANGED <<pc, batch>>
    BY <1>6 DEF Api, Admit, Cancel, Replay
  <2> QED
    BY <1>1, <2>1, <2>2, PollBatchKept
<1> QED
  BY <1>3, <1>4, <1>5, <1>6 DEF Next

\* The inductive invariant holds in every reachable state.
THEOREM HandOverIsSafe == Spec => [](TypeInv /\ HandOverInv)
<1>1. Init => TypeInv /\ HandOverInv
  BY TypeInit, HandOverInit
<1>2. TypeInv /\ HandOverInv /\ [Next]_vars => TypeInv' /\ HandOverInv'
  BY TypeStep, HandOverStep
<1> QED
  BY <1>1, <1>2, PTL DEF Spec

\* An acceptance the worker was told of makes the row unsubmittable for good, through
\* any crashes, failed writes and lost answers.
THEOREM NeverResubmitted == Spec => []NoResubmission
<1>1. HandOverInv => NoResubmission
  BY DEF HandOverInv, HandOverRow, NoResubmission
<1> QED
  BY <1>1, HandOverIsSafe, PTL

\* The relayer has at most one intent of an execution, arrived or on its way, if it
\* answers no acceptance with an error.
THEOREM IntentIsUnique == Spec => []AtMostOneIntent
<1>1. HandOverInv => AtMostOneIntent
  BY DEF HandOverInv, HandOverRow, AtMostOneIntent
<1> QED
  BY <1>1, HandOverIsSafe, PTL

\* A successful DELETE stops the relaying.
THEOREM CancelIsFinal == Spec => []CancelStopsRelaying
<1>1. TypeInv /\ HandOverInv => CancelStopsRelaying
  <2> SUFFICES ASSUME TypeInv, HandOverInv, NEW e \in Executions, clientCanceled(e)
               PROVE  /\ rows[e].state = "canceled" /\ rows[e].oz = "null"
                      /\ ~InFlight(e) /\ learned[e] = 0
                      /\ ~LoseReplies => accepted[e] + stray[e] = 0
    BY DEF CancelStopsRelaying
  <2>1. HandOverRow(e) /\ learned[e] \in Nat
    BY DEF HandOverInv, TypeInv, HistoryType
  <2> QED
    BY <2>1 DEF HandOverRow
<1> QED
  BY <1>1, HandOverIsSafe, PTL

\* A claim without a running call comes from a crash or a failed write only.
THEOREM ClaimIsHeldInFlight == Spec => []ClaimIsInFlight
<1>1. HandOverInv => ClaimIsInFlight
  BY DEF HandOverInv, HandOverRow, ClaimIsInFlight
<1> QED
  BY <1>1, HandOverIsSafe, PTL

\* No step changes the state of a terminal row.
THEOREM TerminalStaysTerminal == Spec => TerminalIsFinal
<1>1. TypeInv /\ HandOverInv /\ [Next]_vars =>
        [\A e \in Executions : isTerminal(rows[e]) => rows'[e].state = rows[e].state]_vars
  BY HandOverStep DEF RowsKept, Kept
<1> QED
  BY <1>1, HandOverIsSafe, PTL DEF Spec, TerminalIsFinal

\* No step forgets the id of an accepted transaction, or its hash.
THEOREM LinkStays == Spec => LinkIsKept
<1>1. TypeInv /\ HandOverInv /\ [Next]_vars =>
        [\A e \in Executions :
            /\ rows[e].oz = "id" => rows'[e].oz = "id"
            /\ rows[e].hash # 0 => rows'[e].hash # 0]_vars
  BY HandOverStep DEF RowsKept, Kept
<1> QED
  BY <1>1, HandOverIsSafe, PTL DEF Spec, LinkIsKept

=============================================================================
