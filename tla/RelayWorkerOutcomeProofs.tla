----------------------- MODULE RelayWorkerOutcomeProofs -----------------------
(***************************************************************************)
(* What the states of the executions say is true: of the chain, of the     *)
(* relayer's transaction and of the checks before the submission; and a    *)
(* terminal row keeps the record of how it ended.                          *)
(***************************************************************************)
EXTENDS RelayWorkerTickProofs

-----------------------------------------------------------------------------
(* The inductive invariant.                                                *)

Final == { "failed", "canceled", "expired" }

\* The views a transaction goes through: it has a hash once it is submitted, an outcome
\* only on chain, and fails there only by reverting.
ViewOk(v) ==
    /\ v.status \in {"none", "pending", "submitted", "mined", "confirmed"} \cup Final
    /\ v.status \in {"submitted", "mined", "confirmed"} => v.hash # 0
    /\ v.status \in {"mined", "confirmed"} => v.outcome # "none"
    /\ v.outcome # "none" =>
         /\ v.hash # 0
         /\ \/ v.status \in {"mined", "confirmed"}
            \/ v.status = "failed" /\ v.reverts /\ v.outcome = "reverted"

\* v is a view of the transaction that is now at w.
Upto(v, w) ==
    /\ v.hash # 0 => w.hash # 0
    /\ v.outcome # "none" => w.outcome = v.outcome
    /\ v.status \in Final \cup {"confirmed"} => w = v
    /\ v.status = "mined" =>
         w.status \in {"mined", "confirmed"} \/ (w.status = "failed" /\ w.reverts)

\* A row r without the id of a transaction knows nothing of one; x says that its window has
\* passed, f that statements have thrown.
Early(r) ==
    /\ r.receipt = "none" /\ r.hash = 0
    /\ r.state \notin {"submitted", "succeeded", "reverted"}

EarlyEnd(r, x, f) ==
    /\ r.state = "canceled" => r.error.code = "CANCELED_BY_CLIENT"
    /\ r.state = "expired" => x
    /\ isTerminal(r) /\ r.oz = "claim" => f > 0

\* A row r whose state is true of its transaction w; c counts the Losses and the
\* statements that threw, f the latter alone.
Tells(r, w, x, c, f) ==
    /\ r.state = "submitted" => r.hash # 0 \/ c > 0
    /\ r.state = "succeeded" =>
         /\ r.hash # 0
         /\ w.outcome = "success" /\ r.receipt = "success"
         /\ WaitConfirmed => w.status = "confirmed"
    /\ r.state = "reverted" => w.outcome = "reverted" \/ (w.status = "failed" /\ w.reverts)
    /\ r.oz = "id" =>
         /\ r.state # "rejected"
         /\ r.state \in {"canceled", "expired"} => w.status = r.state
         /\ r.state = "failed" =>
              \/ w.status = "failed" /\ ~w.reverts /\ r.error.code = "RELAYER_FAILED"
              \/ f > 0
    /\ r.oz # "id" => EarlyEnd(r, x, f)

\* How a row r, its transaction w and the view v stored of it stand to each other. As long
\* as no crash and no failed write has torn a poll, the row has taken in what the view says.
Known(r, w, v, c) ==
    /\ ViewOk(w) /\ ViewOk(v) /\ Upto(v, w)
    /\ r.oz # "id" => Early(r)
    /\ r.receipt # "none" => w.outcome = r.receipt /\ r.hash # 0
    /\ c = 0 =>
         /\ v.hash # 0 => r.hash # 0
         /\ r.state = "pending" => r.hash = 0
         /\ r.state \in {"pending", "submitted"} =>
              /\ r.receipt # "reverted"
              /\ v.status \notin {"canceled", "expired"}
              /\ v.status = "failed" => v.reverts /\ r.state = "pending"

RowGrounded(e) ==
    /\ Known(rows[e], tx[e], relayerTransactions[e], Losses)
    /\ Tells(rows[e], tx[e], expired[e], Losses, faults)

\* What the tick holds of the relayer's answers while it is suspended.
Answers(statuses) ==
    reply.view.status \in statuses /\ ViewOk(reply.view) /\ Upto(reply.view, tx[cur])

ReplyKnown ==
    /\ pc = "receipt" => Answers({"mined", "confirmed"})
    /\ pc = "submitting" /\ reply.kind = "ok" => Answers({"pending", "submitted"})
    /\ pc \notin {"submitting", "receipt"} => reply.kind = "none"

\* The rows being polled have not lost their hash; the only ends a replay can have given
\* them meanwhile is success.
PollKnown ==
    /\ \A e \in Executions : <<e, e>> \notin updatedBefore
    /\ pc \in Polling =>
         /\ \A i, j \in 1..Len(batch) : batch[i].id = batch[j].id => i = j
         /\ \A i \in 1..Len(batch) :
              /\ batch[i].hash # 0 => rows[batch[i].id].hash # 0
              /\ Losses = 0 /\ isTerminal(rows[batch[i].id])
                   => rows[batch[i].id].state = "succeeded"

OutcomeInv == (\A e \in Executions : RowGrounded(e)) /\ ReplyKnown /\ PollKnown

\* TerminalRecordIsFinal, for one row and one step.
RecordStays(r, q, c) ==
    isTerminal(r) /\ c = 0 => q.error = r.error /\ q.receipt = r.receipt

RecordsStay == \A e \in Executions : RecordStays(rows[e], rows'[e], Losses)

-----------------------------------------------------------------------------
(* The views of a transaction.                                             *)

\* The relayer's news of a transaction keep to what was known of it.
LEMMA NextViewKnown ==
    ASSUME NEW w \in OzView, ViewOk(w), NEW next \in nextViews(w)
    PROVE  /\ ViewOk(next)
           /\ w.outcome # "none" => next.outcome = w.outcome
           /\ \A v \in OzView : Upto(v, w) => Upto(v, next)
<1>1. next \in OzView /\ w.status \in {"pending", "submitted", "mined"}
  BY ViewsType DEF nextViews
<1>2. w.status = "pending" =>
        /\ next.outcome = w.outcome
        /\ \/ next.status = "submitted" /\ next.hash = 1
           \/ next.status \in Final /\ next.hash = w.hash
  <2> SUFFICES ASSUME w.status = "pending"
               PROVE  /\ next.outcome = w.outcome
                      /\ \/ next.status = "submitted" /\ next.hash = 1
                         \/ next.status \in Final /\ next.hash = w.hash
    OBVIOUS
  <2>1. \/ next = [w EXCEPT !.status = "submitted", !.hash = 1]
        \/ \E s \in Final : next = [w EXCEPT !.status = s]
        \/ \E b \in {HashlessRevert} : next = [w EXCEPT !.status = "failed", !.reverts = b]
    BY DEF nextViews, Final
  <2> QED
    BY <2>1 DEF Final, OzView
<1>3. w.status = "submitted" =>
        /\ next.hash = w.hash \/ next.hash \in 1..MaxHash
        /\ \/ next.status \in {"submitted"} \cup Final /\ next.outcome = w.outcome
           \/ next.status = "mined" /\ next.outcome # "none"
  <2> SUFFICES ASSUME w.status = "submitted"
               PROVE  /\ next.hash = w.hash \/ next.hash \in 1..MaxHash
                      /\ \/ next.status \in {"submitted"} \cup Final /\ next.outcome = w.outcome
                         \/ next.status = "mined" /\ next.outcome # "none"
    OBVIOUS
  <2>1. \/ \E h \in {w.hash + 1} \cap 1..MaxHash : next = [w EXCEPT !.hash = h]
        \/ \E o \in {"success", "reverted"} : next = [w EXCEPT !.status = "mined", !.outcome = o]
        \/ \E b \in BOOLEAN : next = [w EXCEPT !.status = "failed", !.reverts = b]
        \/ \E s \in {"canceled", "expired"} : next = [w EXCEPT !.status = s]
    BY DEF nextViews
  <2>2. ASSUME NEW h \in 1..MaxHash, next = [w EXCEPT !.hash = h]
        PROVE  next.hash = h /\ next.status = w.status /\ next.outcome = w.outcome
    BY <2>2 DEF OzView
  <2> QED
    BY <2>1, <2>2 DEF Final, OzView
<1>4. w.status = "mined" =>
        /\ next.hash = w.hash /\ next.outcome = w.outcome
        /\ \/ next.status = "confirmed"
           \/ next.status = "failed" /\ next.reverts /\ w.outcome = "reverted"
  BY Constants DEF nextViews, Final, OzView
<1>5. \A h \in 1..MaxHash : h # 0
  BY Constants
<1>6. ViewOk(next) /\ (w.outcome # "none" => next.outcome = w.outcome)
  BY <1>1, <1>2, <1>3, <1>4, <1>5 DEF ViewOk, Final
<1>7. ASSUME NEW v \in OzView, Upto(v, w)
      PROVE  Upto(v, next)
  BY <1>1, <1>2, <1>3, <1>4, <1>5, <1>7 DEF Upto, ViewOk, Final
<1> QED
  BY <1>6, <1>7

\* What the projection reports of a view is true of the transaction.
LEMMA ProjectionIsTrue ==
    ASSUME NEW view \in OzView, NEW receipt \in Receipt, NEW w \in OzView,
           ViewOk(view), ViewOk(w), Upto(view, w),
           receipt # "none" => w.outcome = receipt
    PROVE  LET p == projectRelayerState(view, receipt, WaitConfirmed) IN
           /\ p.state \in {"pending", "submitted", "succeeded", "reverted"} \cup Final
           /\ p.state = "pending" => view.hash = 0
           /\ p.state = "submitted" => view.hash # 0
           /\ p.state = "succeeded" =>
                /\ receipt = "success" /\ w.outcome = "success" /\ p.code = "none"
                /\ WaitConfirmed => w.status = "confirmed"
           /\ p.state = "reverted" =>
                w.outcome = "reverted" \/ (w.status = "failed" /\ w.reverts)
           /\ p.state \in {"canceled", "expired"} => w.status = p.state
           /\ p.state = "failed" =>
                w.status = "failed" /\ ~w.reverts /\ p.code = "RELAYER_FAILED"
           /\ p.code \in {"ONCHAIN_REVERTED", "RELAYER_REPORTED_REVERT"} <=> p.state = "reverted"
           /\ p.code # "none" => p.state \in {"reverted", "failed"}
<1>1. CASE receipt = "reverted"
  BY <1>1 DEF projectRelayerState
<1>2. CASE receipt = "success"
  BY <1>2 DEF projectRelayerState, ByHash, Upto
<1>3. CASE receipt = "none"
  <2>1. view.status # "inmempool"
    BY DEF ViewOk, Final
  <2>2. CASE view.status \in Final
    BY <1>3, <2>1, <2>2 DEF projectRelayerState, Upto, Final
  <2>3. CASE view.status \notin Final
    BY <1>3, <2>1, <2>3 DEF projectRelayerState, ByHash, Final
  <2> QED
    BY <2>2, <2>3
<1> QED
  BY <1>1, <1>2, <1>3 DEF Receipt

\* The losses are counted.
LEMMA LossesNat == ASSUME TypeInv PROVE Losses \in Nat
<1>1. crashes \in Nat /\ faults \in Nat
  BY Constants DEF TypeInv, HistoryType
<1> QED
  BY <1>1 DEF Losses

-----------------------------------------------------------------------------
(* Rows no poll writes.                                                    *)

\* A step without a crash or a throwing statement.
LEMMA NoLoss ==
    ASSUME UNCHANGED <<crashes, faults>>
    PROVE  LossesGrow /\ Losses' = Losses
BY DEF LossesGrow, Losses

\* A row no step touches stays grounded: time only passes, Losses only happen.
LEMMA SameRow ==
    ASSUME NEW e \in Executions, RowGrounded(e),
           rows'[e] = rows[e], tx'[e] = tx[e],
           relayerTransactions'[e] = relayerTransactions[e],
           expired[e] => expired'[e],
           TypeInv, LossesGrow
    PROVE  RowGrounded(e)' /\ RecordStays(rows[e], rows'[e], Losses)
<1>1. Losses' = 0 => Losses = 0
  BY LossesType
<1>2. (Losses > 0 => Losses' > 0) /\ (faults > 0 => faults' > 0)
  BY LossesType
<1>3. Known(rows'[e], tx'[e], relayerTransactions'[e], Losses')
  BY <1>1 DEF RowGrounded, Known
<1>4. Tells(rows'[e], tx'[e], expired'[e], Losses', faults')
  BY <1>2 DEF RowGrounded, Tells, EarlyEnd
<1> QED
  BY <1>3, <1>4 DEF RowGrounded, RecordStays

\* A row without the id of a transaction stays grounded whatever becomes of the transaction.
LEMMA EarlyRow ==
    ASSUME TypeInv, NEW e \in Executions,
           ~isTerminal(rows[e]), relayerTransactions'[e] = NoView,
           rows'[e].oz # "id", Early(rows'[e]), EarlyEnd(rows'[e], expired'[e], faults'),
           ViewOk(tx'[e])
    PROVE  RowGrounded(e)' /\ RecordStays(rows[e], rows'[e], Losses)
<1>1. ViewOk(NoView) /\ Upto(NoView, tx'[e]) /\ NoView.hash = 0 /\ NoView.status = "none"
  BY DEF ViewOk, Upto, NoView, Final
<1>2. Known(rows'[e], tx'[e], relayerTransactions'[e], Losses')
  BY <1>1 DEF Known, Early
<1>3. Tells(rows'[e], tx'[e], expired'[e], Losses', faults')
  BY DEF Tells, Early, EarlyEnd
<1> QED
  BY <1>2, <1>3 DEF RowGrounded, RecordStays

\* A row whose transaction goes on stays grounded: it is not over.
LEMMA AdvancingRow ==
    ASSUME TypeInv, NEW e \in Executions, RowGrounded(e), ~isTerminal(rows[e]),
           rows'[e] = rows[e], tx'[e] \in nextViews(tx[e]), UNCHANGED <<Losses, faults>>,
           expired[e] => expired'[e],
           relayerTransactions'[e] = relayerTransactions[e]
    PROVE  RowGrounded(e)' /\ RecordStays(rows[e], rows'[e], Losses)
<1>1. tx[e] \in OzView /\ relayerTransactions[e] \in OzView
  BY DEF TypeInv, OutsideType, TableType
<1>2. /\ ViewOk(tx'[e]) /\ Upto(relayerTransactions[e], tx'[e])
      /\ tx[e].outcome # "none" => tx'[e].outcome = tx[e].outcome
  BY <1>1, NextViewKnown DEF RowGrounded, Known
<1>3. rows[e].receipt # "none" => tx[e].outcome # "none"
  BY DEF RowGrounded, Known
<1>4. Known(rows'[e], tx'[e], relayerTransactions'[e], Losses')
  BY <1>2, <1>3 DEF RowGrounded, Known
<1>5. Tells(rows'[e], tx'[e], expired'[e], Losses', faults')
  BY DEF RowGrounded, Tells, EarlyEnd, isTerminal, TerminalState
<1> QED
  BY <1>4, <1>5 DEF RowGrounded, RecordStays

-----------------------------------------------------------------------------
(* Rows the projection writes.                                             *)

\* A row with these columns.
Shape(r, oz, h, s, t, x) ==
    r.oz = oz /\ r.hash = h /\ r.state = s /\ r.receipt = t /\ r.error = x

\* What a poll writes: the hash, the state submitted with a first hash, the receipt and the
\* error, and at last the projected state.
LEMMA PollWritesShape ==
    ASSUME TypeInv, batch # <<>>, NEW view \in OzView, NEW receipt \in Receipt, NEW i \in 1..5
    PROVE  LET q == pollWrites(view, receipt)[i]
               p == projectRelayerState(view, receipt, WaitConfirmed)
               newHash == view.hash # 0 /\ view.hash # snapshot.hash
               m == IF newHash /\ current.state = "pending" THEN "submitted" ELSE current.state
               newReceipt == IF receipt = "none" THEN current.receipt ELSE receipt
               newError == IF p.code = "none" THEN current.error ELSE ErrorOf(p.code)
           IN  /\ q.oz = current.oz
               /\ i = 1 => q = current
               /\ i > 1 => q.hash = IF newHash THEN view.hash ELSE current.hash
               /\ q.receipt \in {current.receipt, newReceipt}
               /\ q.error \in {current.error, newError}
               /\ \/ q.state = current.state
                  \/ i > 2 /\ q.state = m
                  \/ i = 5 /\ q.state = p.state /\ canTransitionState(m, p.state)
               /\ i = 5 => /\ q.receipt = newReceipt /\ q.error = newError
                           /\ q.state = IF m # p.state /\ canTransitionState(m, p.state)
                                          THEN p.state ELSE m
<1> DEFINE newHash   == view.hash # 0 /\ view.hash # snapshot.hash
           hashed    == IF newHash THEN appendCurrentHashChange(current, view.hash) ELSE current
           submitted == IF newHash /\ hashed.state = "pending"
                          THEN transitionState(hashed, "submitted", NullError) ELSE hashed
           projected == projectRelayerState(view, receipt, WaitConfirmed)
           updated   == updateMetadata(submitted, receipt, ErrorOf(projected.code))
           final     == IF updated.state # projected.state
                            /\ canTransitionState(updated.state, projected.state)
                          THEN transitionState(updated, projected.state, NullError)
                          ELSE updated
           hash == IF newHash THEN view.hash ELSE current.hash
           m == IF newHash /\ current.state = "pending" THEN "submitted" ELSE current.state
           newReceipt == IF receipt = "none" THEN current.receipt ELSE receipt
           newError == IF projected.code = "none" THEN current.error ELSE ErrorOf(projected.code)
<1>1. current \in Row /\ hashed \in Row /\ submitted \in Row /\ updated \in Row
  <2>1. /\ current \in Row /\ view.hash \in 0..MaxHash /\ projected.code \in ErrorCode
        /\ NullError = ErrorOf("none") /\ "none" \in ErrorCode /\ "submitted" \in RelayExecutionState
    BY CurrentType, Constants, ProjectionType
       DEF OzView, NullError, ErrorOf, ErrorCode, RelayExecutionState
  <2>2. hashed \in Row
    BY <2>1, WritesType
  <2> HIDE DEF hashed, projected
  <2>3. submitted \in Row
    BY <2>1, <2>2, WritesType
  <2> HIDE DEF submitted
  <2>4. updated \in Row
    BY <2>1, <2>3, WritesType
  <2> QED
    BY <2>1, <2>2, <2>3, <2>4 DEF hashed, submitted
<1>2. Shape(hashed, current.oz, hash, current.state, current.receipt, current.error)
  BY <1>1 DEF appendCurrentHashChange, Row, Shape
<1>3. Shape(submitted, current.oz, hash, m, current.receipt, current.error)
  <2> HIDE DEF hashed
  <2> QED
    BY <1>1, <1>2 DEF transitionState, Coalesce, NullError, Row, Shape
<1>4. Shape(updated, current.oz, hash, m, newReceipt, newError)
  <2> HIDE DEF submitted, projected
  <2> QED
    BY <1>1, <1>3 DEF updateMetadata, Coalesce, ErrorOf, Row, Shape
<1>5. Shape(final, current.oz, hash,
            IF m # projected.state /\ canTransitionState(m, projected.state)
              THEN projected.state ELSE m,
            newReceipt, newError)
  <2> HIDE DEF updated, projected, m, newReceipt, newError, hash
  <2> QED
    BY <1>1, <1>4 DEF transitionState, Coalesce, NullError, Row, Shape
<1>6. pollWrites(view, receipt) = <<current, hashed, submitted, updated, final>>
  BY DEF pollWrites
<1> HIDE DEF hashed, submitted, updated, final, projected
<1>7. i \in {1, 2, 3, 4, 5}
  OBVIOUS
<1> DEFINE q == pollWrites(view, receipt)[i]
<1>8. /\ i = 1 => q = current
      /\ i = 1 => Shape(q, current.oz, current.hash, current.state, current.receipt, current.error)
      /\ i = 2 => Shape(q, current.oz, hash, current.state, current.receipt, current.error)
      /\ i = 3 => Shape(q, current.oz, hash, m, current.receipt, current.error)
      /\ i = 4 => Shape(q, current.oz, hash, m, newReceipt, newError)
      /\ i = 5 => Shape(q, current.oz, hash,
                        IF m # projected.state /\ canTransitionState(m, projected.state)
                          THEN projected.state ELSE m,
                        newReceipt, newError)
  <2>1. /\ i = 1 => q = current
        /\ i = 2 => q = hashed
        /\ i = 3 => q = submitted
        /\ i = 4 => q = updated
        /\ i = 5 => q = final
    BY <1>6
  <2>2. Shape(current, current.oz, current.hash, current.state, current.receipt, current.error)
    BY DEF Shape
  <2> HIDE DEF q, hash, m, newReceipt, newError
  <2> QED
    BY <1>2, <1>3, <1>4, <1>5, <2>1, <2>2
<1>9. /\ q.oz = current.oz
      /\ i = 1 => q = current
      /\ i > 1 => q.hash = hash
      /\ q.receipt \in {current.receipt, newReceipt}
      /\ q.error \in {current.error, newError}
      /\ \/ q.state = current.state
         \/ i > 2 /\ q.state = m
         \/ i = 5 /\ q.state = projected.state /\ canTransitionState(m, projected.state)
      /\ i = 5 => /\ q.receipt = newReceipt /\ q.error = newError
                  /\ q.state = IF m # projected.state /\ canTransitionState(m, projected.state)
                                 THEN projected.state ELSE m
  <2> HIDE DEF q, hash, m, newReceipt, newError
  <2> QED
    BY <1>7, <1>8 DEF Shape
<1> QED
  BY <1>9 DEF projected

\* The allowed transitions, as the projection meets them.
LEMMA ReportTransitions ==
    /\ allowedTransitions["pending"] =
         { "submitted", "rejected", "failed", "expired", "canceled" }
    /\ allowedTransitions["submitted"] =
         { "submitted", "succeeded", "reverted", "failed", "expired", "canceled" }
BY DEF allowedTransitions, RelayExecutionState, TerminalState

\* A poll's write leaves the row grounded in the view it stores, and c Losses later; it
\* takes in all the view says, unless a crash stops it before its last write.
LEMMA PollWriteGrounded ==
    ASSUME TypeInv, batch # <<>>, RowGrounded(cur), current.oz = "id",
           current.error.code # "CANCELED_BY_CLIENT",
           current.state \notin {"absent", "awaiting_authorization"},
           NEW view \in OzView, NEW receipt \in Receipt,
           ViewOk(view), Upto(view, tx[cur]), receipt \in {"none", view.outcome},
           snapshot.hash # 0 => current.hash # 0,
           Losses = 0 /\ isTerminal(current) => current.state = "succeeded",
           NEW i \in 1..5, NEW c \in Nat, c >= Losses, i = 5 \/ c > 0,
           NEW f, faults > 0 => f > 0
    PROVE  LET q == pollWrites(view, receipt)[i] IN
           /\ Known(q, tx[cur], view, c)
           /\ Tells(q, tx[cur], expired[cur], c, f)
           /\ RecordStays(current, q, Losses)
<1> DEFINE q == pollWrites(view, receipt)[i]
           p == projectRelayerState(view, receipt, WaitConfirmed)
           w == tx[cur]
           newHash == view.hash # 0 /\ view.hash # snapshot.hash
           m == IF newHash /\ current.state = "pending" THEN "submitted" ELSE current.state
           newReceipt == IF receipt = "none" THEN current.receipt ELSE receipt
           newError == IF p.code = "none" THEN current.error ELSE ErrorOf(p.code)
<1>1. /\ cur \in Executions /\ current \in Row /\ current = rows[cur]
      /\ w \in OzView /\ ViewOk(w)
      /\ current.state \in RelayExecutionState \ {"awaiting_authorization"}
  <2>1. cur \in Executions /\ current \in Row /\ current = rows[cur]
    BY CurrentType DEF current
  <2> QED
    BY <2>1 DEF TypeInv, OutsideType, HistoryType, RowGrounded, Known, Row
<1>2. receipt # "none" => w.outcome = receipt /\ view.hash # 0
  BY DEF Upto, ViewOk
<1>3. /\ p.state \in {"pending", "submitted", "succeeded", "reverted"} \cup Final
      /\ p.state = "pending" => view.hash = 0
      /\ p.state = "submitted" => view.hash # 0
      /\ p.state = "succeeded" =>
           /\ receipt = "success" /\ w.outcome = "success" /\ p.code = "none"
           /\ WaitConfirmed => w.status = "confirmed"
      /\ p.state = "reverted" => w.outcome = "reverted" \/ (w.status = "failed" /\ w.reverts)
      /\ p.state \in {"canceled", "expired"} => w.status = p.state
      /\ p.state = "failed" => w.status = "failed" /\ ~w.reverts /\ p.code = "RELAYER_FAILED"
      /\ p.code \in {"ONCHAIN_REVERTED", "RELAYER_REPORTED_REVERT"} <=> p.state = "reverted"
      /\ p.code # "none" => p.state \in {"reverted", "failed"}
  BY <1>1, <1>2, ProjectionIsTrue
<1>4. /\ q.oz = current.oz
      /\ i = 1 => q = current
      /\ i > 1 => q.hash = IF newHash THEN view.hash ELSE current.hash
      /\ q.receipt \in {current.receipt, newReceipt}
      /\ q.error \in {current.error, newError}
      /\ \/ q.state = current.state
         \/ i > 2 /\ q.state = m
         \/ i = 5 /\ q.state = p.state /\ canTransitionState(m, p.state)
      /\ i = 5 => /\ q.receipt = newReceipt /\ q.error = newError
                  /\ q.state = IF m # p.state /\ canTransitionState(m, p.state)
                                 THEN p.state ELSE m
  BY PollWritesShape
<1>5. /\ Known(current, w, relayerTransactions[cur], Losses)
      /\ Tells(current, w, expired[cur], Losses, faults)
  BY <1>1 DEF RowGrounded
<1> HIDE DEF q, p, w
<1>6. /\ c = 0 => Losses = 0
      /\ Losses > 0 => c > 0
      /\ c = 0 => i = 5
  <2>1. Losses \in Nat
    BY LossesNat
  <2> QED
    BY <2>1
<1>7. /\ current.hash # 0 => q.hash # 0
      /\ i > 1 /\ view.hash # 0 => q.hash # 0
      /\ newHash /\ i > 1 => q.hash # 0
  BY <1>4
<1>8. i = 1 \/ i > 1
  OBVIOUS
<1>9. Known(q, w, view, c)
  <2>1. q.receipt # "none" => w.outcome = q.receipt /\ q.hash # 0
    <3>1. CASE q.receipt = current.receipt
      BY <1>5, <1>7, <3>1 DEF Known
    <3>2. CASE q.receipt # current.receipt
      BY <1>2, <1>4, <1>7, <1>8, <3>2
    <3> QED
      BY <3>1, <3>2
  <2>2. ASSUME c = 0
        PROVE  /\ view.hash # 0 => q.hash # 0
               /\ q.state = "pending" => q.hash = 0
               /\ q.state \in {"pending", "submitted"} =>
                    /\ q.receipt # "reverted"
                    /\ view.status \notin {"canceled", "expired"}
                    /\ view.status = "failed" => view.reverts /\ q.state = "pending"
    <3>1. i = 5 /\ Losses = 0
      BY <1>6, <2>2
    <3>2. /\ current.state = "pending" => current.hash = 0 /\ snapshot.hash = 0
          /\ current.state \in {"pending", "submitted"} => current.receipt # "reverted"
      BY <1>5, <3>1 DEF Known
    <3>3. view.hash # 0 => q.hash # 0
      BY <1>7, <3>1
    <3>4. m = "pending" => current.state = "pending" /\ view.hash = 0
      BY <3>2
    <3>5. m \in {"pending", "submitted"} \/ m \in TerminalState
      BY <1>1 DEF RelayExecutionState, TerminalState
    <3>6. /\ m = "pending" => allowedTransitions[m] =
               { "submitted", "rejected", "failed", "expired", "canceled" }
          /\ m = "submitted" => allowedTransitions[m] =
               { "submitted", "succeeded", "reverted", "failed", "expired", "canceled" }
          /\ m \in TerminalState => allowedTransitions[m] = {}
      BY ReportTransitions, TerminalAllowsNothing
    <3>7. q.state = "pending" => m = "pending" /\ p.state \in {"pending", "succeeded", "reverted"}
      BY <1>3, <1>4, <3>1, <3>5, <3>6 DEF canTransitionState, Final, TerminalState
    <3>8. q.state = "submitted" =>
            p.state \in {"pending", "submitted"} /\ m \in {"pending", "submitted"}
      BY <1>3, <1>4, <3>1, <3>5, <3>6 DEF canTransitionState, Final, TerminalState
    <3> HIDE DEF m, newHash
    <3>9. q.state = "pending" => q.hash = 0
      BY <1>4, <3>1, <3>2, <3>4, <3>7 DEF newHash
    <3>10. p.state \in {"pending", "submitted", "succeeded"} =>
             /\ receipt # "reverted"
             /\ receipt = "none" => view.status \notin Final
      BY DEF p, projectRelayerState, ByHash, Final
    <3>11. view.status \in Final /\ view.outcome # "none" =>
             view.status = "failed" /\ view.reverts /\ view.outcome = "reverted"
      BY DEF ViewOk, Final
    <3>12. p.state \in {"pending", "submitted", "succeeded"} =>
             receipt # "reverted" /\ view.status \notin Final
      BY <3>10, <3>11
    <3>13. q.state = "pending" /\ p.state = "reverted" =>
             /\ receipt # "reverted"
             /\ view.status = "failed" /\ view.reverts
      <4>1. q.state = "pending" => receipt = "none"
        BY <1>2, <3>4, <3>7
      <4>2. receipt = "none" /\ p.state = "reverted" => view.status = "failed" /\ view.reverts
        BY DEF p, projectRelayerState, ByHash
      <4> QED
        BY <4>1, <4>2
    <3>14. q.state \in {"pending", "submitted"} =>
             current.state \in {"pending", "submitted"}
      BY <3>4, <3>7, <3>8 DEF m
    <3>15. q.receipt = "reverted" => current.receipt = "reverted" \/ receipt = "reverted"
      BY <1>4
    <3>16. q.state \in {"pending", "submitted"} =>
             /\ q.receipt # "reverted"
             /\ view.status \notin {"canceled", "expired"}
             /\ view.status = "failed" => view.reverts /\ q.state = "pending"
      BY <3>2, <3>7, <3>8, <3>12, <3>13, <3>14, <3>15 DEF Final
    <3> QED
      BY <3>3, <3>9, <3>16
  <2>3. q.oz = "id" /\ ViewOk(w) /\ Upto(view, w)
    BY <1>1, <1>4 DEF w
  <2> QED
    BY <2>1, <2>2, <2>3 DEF Known

<1>10. w.outcome = "success" \/ (w.status = "failed" /\ ~w.reverts) => p.state # "reverted"
  BY <1>1, <1>3 DEF ViewOk, w
<1>11. w.outcome = "success" => p.code = "none"
  BY <1>1, <1>3, <1>10 DEF ViewOk, w
<1>12. Tells(q, w, expired[cur], c, f)
  <2>1. CASE q.state = current.state
    <3>1. q.state = "submitted" => q.hash # 0 \/ c > 0
      BY <1>5, <1>6, <1>7, <2>1 DEF Tells
    <3>2. q.state = "succeeded" =>
            /\ q.hash # 0
            /\ w.outcome = "success" /\ q.receipt = "success"
            /\ WaitConfirmed => w.status = "confirmed"
      BY <1>2, <1>4, <1>5, <1>7, <2>1 DEF Tells
    <3>3. q.state = "failed" =>
            \/ w.status = "failed" /\ ~w.reverts /\ q.error.code = "RELAYER_FAILED"
            \/ f > 0
      <4>1. q.state = "failed" =>
              \/ w.status = "failed" /\ ~w.reverts /\ current.error.code = "RELAYER_FAILED"
              \/ f > 0
        BY <1>5, <2>1 DEF Tells
      <4>2. q.state = "failed" /\ p.code # "none" => p.code = "RELAYER_FAILED" \/ f > 0
        BY <1>3, <1>10, <4>1
      <4>3. p.code = "RELAYER_FAILED" => newError.code = "RELAYER_FAILED"
        BY DEF ErrorOf
      <4> QED
        BY <1>4, <4>1, <4>2, <4>3
    <3>4. /\ q.state = "reverted" => w.outcome = "reverted" \/ (w.status = "failed" /\ w.reverts)
          /\ q.state \in {"canceled", "expired"} => w.status = q.state
          /\ q.state # "rejected"
      BY <1>5, <2>1 DEF Tells
    <3> QED
      BY <1>4, <3>1, <3>2, <3>3, <3>4 DEF Tells
  <2>2. CASE i > 2 /\ q.state = m /\ q.state # current.state
    BY <1>4, <1>7, <2>2 DEF Tells
  <2>3. CASE i = 5 /\ q.state = p.state
    <3>1. q.state = "submitted" => q.hash # 0
      BY <1>3, <1>7, <2>3
    <3>2. q.state = "succeeded" =>
            /\ q.hash # 0
            /\ w.outcome = "success" /\ q.receipt = "success"
            /\ WaitConfirmed => w.status = "confirmed"
      BY <1>2, <1>3, <1>4, <1>7, <2>3
    <3>3. q.state = "failed" => w.status = "failed" /\ ~w.reverts /\ q.error.code = "RELAYER_FAILED"
      <4>1. q.error = newError
        BY <1>4, <2>3
      <4> QED
        BY <1>3, <2>3, <4>1 DEF ErrorOf
    <3>4. /\ q.state # "rejected"
          /\ q.state \in {"canceled", "expired"} => w.status = q.state
          /\ q.state = "reverted" => w.outcome = "reverted" \/ (w.status = "failed" /\ w.reverts)
      BY <1>3, <2>3 DEF Final
    <3> QED
      BY <1>4, <3>1, <3>2, <3>3, <3>4 DEF Tells
  <2> QED
    BY <1>4, <2>1, <2>2, <2>3
<1>13. RecordStays(current, q, Losses)
  <2> SUFFICES ASSUME isTerminal(current), Losses = 0
               PROVE  q.error = current.error /\ q.receipt = current.receipt
    BY DEF RecordStays
  <2>1. w.outcome = "success" /\ current.receipt = "success"
    BY <1>5 DEF Tells
  <2>2. newError = current.error /\ newReceipt = current.receipt
    BY <1>2, <1>11, <2>1
  <2> QED
    BY <1>4, <2>2
<1> QED
  BY <1>9, <1>12, <1>13 DEF q, w

\* A replay projects what is already stored: the row stays grounded. The row has taken in
\* what the view says, unless a crash tore its poll; so, no crash apart, all a replay can
\* add is the success a receipt tells of, when the row has the receipt.
LEMMA ReplayGrounded ==
    ASSUME TypeInv, Rows, Budget, NEW e \in Executions, RowGrounded(e), Replay(e)
    PROVE  /\ RowGrounded(e)' /\ RecordStays(rows[e], rows'[e], Losses)
           /\ rows'[e].hash = rows[e].hash
           /\ Losses = 0 => rows'[e].state = "succeeded"
           /\ ~isTerminal(rows[e])
           /\ \A f \in Executions : f # e => rows'[f] = rows[f]
<1> DEFINE r == rows[e]
           v == relayerTransactions[e]
           w == tx[e]
           p == projectRelayerState(v, r.receipt, WaitConfirmed)
           q == transitionState(r, p.state, ErrorOf(p.code))
<1>1. /\ r \in Row /\ r.id = e /\ r.receipt \in Receipt
      /\ v \in OzView /\ w \in OzView /\ ViewOk(v) /\ ViewOk(w) /\ Upto(v, w)
      /\ r.receipt # "none" => w.outcome = r.receipt
      /\ Known(r, w, v, Losses) /\ Tells(r, w, expired[e], Losses, faults)
  BY DEF TypeInv, TableType, OutsideType, Row, RowGrounded, Known
<1>2. /\ v # NoView /\ ~isTerminal(r) /\ p.state # r.state
      /\ canTransitionState(r.state, p.state) /\ Write(q)
      /\ UNCHANGED <<relayerTransactions, tx, expired, Losses, faults>>
  BY DEF Replay, outside, history, Losses
<1>3. r.oz = "id" /\ r.state \in {"pending", "submitted"}
  <2>1. r.oz = "id" /\ r.state # "absent" /\ r.state # "awaiting_authorization"
    BY <1>2 DEF Rows, HandOverRow, Budget, BudgetRow
  <2> QED
    BY <1>1, <1>2, <2>1 DEF isTerminal, Row, RelayExecutionState, TerminalState
<1>4. /\ p.state \in {"pending", "submitted", "succeeded", "reverted"} \cup Final
      /\ p.state = "pending" => v.hash = 0
      /\ p.state = "submitted" => v.hash # 0
      /\ p.state = "succeeded" =>
           /\ r.receipt = "success" /\ w.outcome = "success" /\ p.code = "none"
           /\ WaitConfirmed => w.status = "confirmed"
      /\ p.state = "reverted" => w.outcome = "reverted" \/ (w.status = "failed" /\ w.reverts)
      /\ p.state \in {"canceled", "expired"} => w.status = p.state
      /\ p.state = "failed" => w.status = "failed" /\ ~w.reverts /\ p.code = "RELAYER_FAILED"
  BY <1>1, ProjectionIsTrue
<1>5. /\ p.state = "reverted" => r.receipt = "reverted" \/ v.status = "failed"
      /\ p.state \in Final => v.status = p.state
  BY <1>1 DEF projectRelayerState, ByHash, Receipt, Final
<1>6. q \in Row /\ q.id = e /\ q.oz = "id" /\ q.hash = r.hash /\ q.receipt = r.receipt
      /\ q.state = p.state /\ q.error.code = (IF p.code = "none" THEN r.error.code ELSE p.code)
  <2>1. p.state \in RelayExecutionState /\ p.code \in ErrorCode
    BY <1>1, Constants, ProjectionType
  <2> HIDE DEF p, r
  <2>2. q \in Row
    BY <1>1, <2>1, WritesType
  <2> QED
    BY <1>1, <1>3, <2>2 DEF transitionState, Coalesce, ErrorOf, Row
<1>7. /\ r.state = "pending" =>
           p.state \in { "submitted", "rejected", "failed", "expired", "canceled" }
      /\ r.state = "submitted" =>
           p.state \in { "submitted", "succeeded", "reverted", "failed", "expired", "canceled" }
  BY <1>2, ReportTransitions DEF canTransitionState
<1> HIDE DEF p, q
<1>8. rows'[e] = q /\ \A f \in Executions : f # e => rows'[f] = rows[f]
  BY <1>2, <1>6, WriteRows DEF TypeInv
<1>9. Losses = 0 => q.state = "succeeded"
  <2> SUFFICES ASSUME Losses = 0 PROVE p.state = "succeeded"
    BY <1>6
  <2>1. /\ v.hash # 0 => r.hash # 0
        /\ r.state = "pending" => r.hash = 0
        /\ r.receipt # "reverted"
        /\ v.status \notin {"canceled", "expired"}
        /\ v.status = "failed" => v.reverts /\ r.state = "pending"
    BY <1>1, <1>3 DEF Known
  <2>2. p.state \notin {"canceled", "expired"}
    BY <1>5, <2>1 DEF Final
  <2>3. p.state # "failed"
    <3>1. v.status = "failed" => w = v
      BY <1>1 DEF Upto, Final
    <3> QED
      BY <1>4, <1>5, <2>1, <3>1 DEF Final
  <2>4. p.state # "submitted"
    BY <1>2, <1>3, <1>4, <2>1
  <2>5. p.state # "reverted"
    BY <1>3, <1>5, <1>7, <2>1
  <2> QED
    BY <1>3, <1>4, <1>7, <2>2, <2>3, <2>4, <2>5 DEF Final
<1>10. Known(q, w, v, Losses)
  <2>1. q.receipt # "none" => w.outcome = q.receipt /\ q.hash # 0
    BY <1>1, <1>6 DEF Known
  <2>2. Losses = 0 => (v.hash # 0 => q.hash # 0)
    BY <1>1, <1>6 DEF Known
  <2> QED
    BY <1>1, <1>6, <1>9, <2>1, <2>2 DEF Known
<1>11. Tells(q, w, expired[e], Losses, faults)
  <2>1. q.state = "submitted" => q.hash # 0 \/ Losses > 0
    <3>1. Losses \in Nat
      BY LossesNat
    <3> QED
      BY <1>9, <3>1
  <2>2. q.state = "succeeded" => q.hash # 0 /\ q.receipt = "success"
    BY <1>1, <1>4, <1>6 DEF Known
  <2>3. q.state # "rejected"
    BY <1>4, <1>6 DEF Final
  <2> QED
    BY <1>4, <1>6, <2>1, <2>2, <2>3 DEF Tells
<1>12. RecordStays(rows[e], rows'[e], Losses)
  BY <1>2 DEF RecordStays
<1> QED
  BY <1>2, <1>6, <1>8, <1>9, <1>10, <1>11, <1>12 DEF RowGrounded

-----------------------------------------------------------------------------
(* The parts of the invariant, step by step.                               *)

GroundedRows == \A e \in Executions : RowGrounded(e)

\* A step that concerns one row at most leaves the others grounded.
LEMMA OneRowGrounded ==
    ASSUME TypeInv, TypeInv', GroundedRows, NEW e \in Executions,
           RowGrounded(e)', RecordStays(rows[e], rows'[e], Losses),
           \A f \in Executions : f # e =>
              /\ rows'[f] = rows[f] /\ tx'[f] = tx[f]
              /\ relayerTransactions'[f] = relayerTransactions[f]
              /\ expired[f] => expired'[f],
           LossesGrow
    PROVE  GroundedRows' /\ RecordsStay
<1>2. ASSUME NEW f \in Executions
      PROVE  RowGrounded(f)' /\ RecordStays(rows[f], rows'[f], Losses)
  <2>1. CASE f = e
    BY <2>1
  <2>2. CASE f # e
    BY <2>2, SameRow DEF GroundedRows
  <2> QED
    BY <2>1, <2>2
<1>3. GroundedRows'
  BY <1>2 DEF GroundedRows
<1> QED
  BY <1>2, <1>3 DEF RecordsStay

\* A step that writes no row, and stores or learns nothing of a transaction.
LEMMA NoRowGrounded ==
    ASSUME TypeInv, TypeInv', GroundedRows,
           UNCHANGED <<rows, relayerTransactions, tx>>,
           \A f \in Executions : expired[f] => expired'[f],
           LossesGrow
    PROVE  GroundedRows' /\ RecordsStay
<1>2. ASSUME NEW f \in Executions
      PROVE  RowGrounded(f)' /\ RecordStays(rows[f], rows'[f], Losses)
  BY SameRow DEF GroundedRows
<1>3. GroundedRows'
  BY <1>2 DEF GroundedRows
<1> QED
  BY <1>2, <1>3 DEF RecordsStay

\* Writing a row keeps updated_at an order.
LEMMA WriteOrdered ==
    ASSUME NEW r, Write(r), \A e \in Executions : <<e, e>> \notin updatedBefore
    PROVE  \A e \in Executions : <<e, e>> \notin updatedBefore'
BY DEF Write, touched

\* What PollKnown asks outside the poll phase.
LEMMA NotPolling ==
    ASSUME PollKnown, pc' \notin Polling, UNCHANGED updatedBefore \/ \E r : Write(r)
    PROVE  PollKnown'
<1>1. \A e \in Executions : <<e, e>> \notin updatedBefore'
  BY WriteOrdered DEF PollKnown
<1> QED
  BY <1>1 DEF PollKnown

\* What ReplyKnown asks while no answer is awaited.
LEMMA NoReplyAwaited ==
    ASSUME ReplyKnown, pc' \notin {"submitting", "receipt"},
           reply' = NoReply \/ (UNCHANGED reply /\ pc \notin {"submitting", "receipt"})
    PROVE  ReplyKnown'
BY DEF ReplyKnown, NoReply

-----------------------------------------------------------------------------
(* The submit phase.                                                       *)

\* A row that waits to be submitted, or is canceled before, was given to no relayer.
LEMMA UnsentRow ==
    ASSUME TypeInv, Rows, GroundedRows, NEW e \in Executions, rows[e].oz # "id"
    PROVE  relayerTransactions[e] = NoView /\ Early(rows[e]) /\ ViewOk(tx[e])
BY DEF Rows, GroundedRows, HandOverRow, RowGrounded, Known

\* An ending before the claim is true: nothing was learned of the relayer, and the window
\* has passed when it says so.
LEMMA SettleOutcome ==
    ASSUME TypeInv, TypeInv', Rows, TickInv, OutcomeInv, batch # <<>>,
           pc \in SubmitPhase \ {"submitting"},
           NEW to \in {"failed", "rejected", "expired"}, NEW code \in ErrorCode,
           to = "expired" => expired[cur],
           Settle(current, to, code), UNCHANGED outside
    PROVE  OutcomeInv' /\ RecordsStay
<1>1. /\ isSubmittable(snapshot) /\ snapshot \in Row
      /\ cur \in Executions /\ current \in Row /\ current.id = cur /\ current = rows[cur]
      /\ current = snapshot \/ current = tryClientCancel(snapshot)
  BY CurrentAsListed, CurrentType DEF TickInv, current
<1>2. /\ UNCHANGED <<relayerTransactions, faults, tx, expired>>
      /\ LossesGrow
      /\ pc' \in {"submit", "idle"} /\ reply' = NoReply
      /\ UNCHANGED updatedBefore \/ \E r : Write(r)
  <2>1. UNCHANGED faults /\ LossesGrow
    BY NoLoss DEF Settle
  <2> QED
    BY <2>1 DEF Settle, Continue, AbortTick, outside
<1>3. ReplyKnown' /\ PollKnown'
  BY <1>2, NoReplyAwaited, NotPolling DEF OutcomeInv, Polling
<1>4. CASE current = snapshot
  <2> DEFINE q == transitionState(current, to, ErrorOf(code))
  <2>1. current.state = "pending" /\ current.oz = "null"
    BY <1>1, <1>4 DEF isSubmittable
  <2>2. Write(q)
    BY <2>1, ReportTransitions DEF Settle, canTransitionState
  <2>3. /\ q \in Row /\ q.id = cur /\ q.state = to /\ q.oz = "null"
        /\ q.receipt = current.receipt /\ q.hash = current.hash
    <3>1. to \in RelayExecutionState
      BY DEF RelayExecutionState
    <3>2. q \in Row
      BY <1>1, <3>1, WritesType
    <3> QED
      BY <1>1, <2>1, <3>2 DEF transitionState, Row
  <2> HIDE DEF q
  <2>4. rows'[cur] = q /\ \A f \in Executions : f # cur => rows'[f] = rows[f]
    BY <2>2, <2>3, WriteRows DEF TypeInv
  <2>5. /\ relayerTransactions[cur] = NoView /\ Early(current) /\ ViewOk(tx[cur])
    BY <1>1, <2>1, UnsentRow DEF OutcomeInv, GroundedRows
  <2>6. Early(q) /\ EarlyEnd(q, expired[cur], faults)
    BY <2>3, <2>5 DEF Early, EarlyEnd
  <2>7. PICK e \in Executions : e = cur
    BY <1>1
  <2>8. RowGrounded(e)' /\ RecordStays(rows[e], rows'[e], Losses)
    BY <1>1, <1>2, <2>1, <2>3, <2>4, <2>5, <2>6, <2>7, EarlyRow DEF isTerminal, TerminalState
  <2>9. GroundedRows' /\ RecordsStay
    BY <1>2, <2>4, <2>7, <2>8, OneRowGrounded DEF OutcomeInv, GroundedRows
  <2> QED
    BY <1>3, <2>9 DEF OutcomeInv, GroundedRows
<1>5. CASE current = tryClientCancel(snapshot)
  <2>1. current.state = "canceled"
    BY <1>1, <1>5 DEF tryClientCancel, Row
  <2>2. UNCHANGED rows
    BY <2>1, TerminalAllowsNothing DEF Settle, canTransitionState, TerminalState
  <2>3. GroundedRows' /\ RecordsStay
    BY <1>2, <2>2, NoRowGrounded DEF OutcomeInv, GroundedRows
  <2> QED
    BY <1>3, <2>3 DEF OutcomeInv, GroundedRows
<1> QED
  BY <1>1, <1>4, <1>5

\* A step of the tick that writes nothing and asks nothing of the relayer.
LEMMA MoveOutcome ==
    ASSUME TypeInv, TypeInv', OutcomeInv, UNCHANGED <<store, outside, history>>,
           pc' \notin {"submitting", "receipt"} \cup Polling,
           reply' = NoReply \/ (UNCHANGED reply /\ pc \notin {"submitting", "receipt"})
    PROVE  OutcomeInv' /\ RecordsStay
<1>1. UNCHANGED <<rows, updatedBefore, relayerTransactions, tx, expired>>
  BY DEF store, outside, history
<1>2. LossesGrow
  BY NoLoss DEF history
<1>3. GroundedRows' /\ RecordsStay
  BY <1>1, <1>2, NoRowGrounded DEF OutcomeInv, GroundedRows
<1>4. ReplyKnown' /\ PollKnown'
  BY <1>1, NoReplyAwaited, NotPolling DEF OutcomeInv
<1> QED
  BY <1>3, <1>4 DEF OutcomeInv, GroundedRows

\* The claim.
LEMMA ClaimAndSubmitOutcome ==
    ASSUME TypeInv, TypeInv', Rows, TickInv, OutcomeInv, batch # <<>>,
           pc \in SubmitPhase \ {"submitting"}, ClaimAndSubmit
    PROVE  OutcomeInv' /\ RecordsStay
<1>1. CASE ~claimGuard(current)
  BY <1>1, MoveOutcome DEF ClaimAndSubmit, Skip, Continue, Polling
<1>2. CASE claimGuard(current)
  <2> DEFINE q == claimForSubmission(current)
  <2>1. /\ cur \in Executions /\ current \in Row /\ current.id = cur /\ current = rows[cur]
        /\ current.state = "pending" /\ current.oz = "null"
    BY <1>2, CurrentType DEF current, claimGuard
  <2>2. /\ Write(q) /\ pc' = "submitting"
        /\ UNCHANGED <<relayerTransactions, reply, crashes, faults, outside>>
    BY <1>2 DEF ClaimAndSubmit
  <2>3. /\ q \in Row /\ q.id = cur /\ q.oz = "claim" /\ q.state = "pending"
        /\ q.receipt = current.receipt /\ q.hash = current.hash
    BY <2>1, WritesType DEF claimForSubmission, Row
  <2> HIDE DEF q
  <2>4. rows'[cur] = q /\ \A f \in Executions : f # cur => rows'[f] = rows[f]
    BY <2>2, <2>3, WriteRows DEF TypeInv
  <2>5. /\ relayerTransactions[cur] = NoView /\ Early(current) /\ ViewOk(tx[cur])
    BY <2>1, UnsentRow DEF OutcomeInv, GroundedRows
  <2>6. Early(q) /\ EarlyEnd(q, expired[cur], faults)
    BY <2>3, <2>5 DEF Early, EarlyEnd, isTerminal, TerminalState
  <2>7. UNCHANGED <<tx, expired>> /\ LossesGrow
    BY <2>2, NoLoss DEF outside
  <2>8. PICK e \in Executions : e = cur
    BY <2>1
  <2>9. RowGrounded(e)' /\ RecordStays(rows[e], rows'[e], Losses)
    BY <2>1, <2>2, <2>3, <2>4, <2>5, <2>6, <2>7, <2>8, EarlyRow DEF isTerminal, TerminalState
  <2>10. GroundedRows' /\ RecordsStay
    BY <2>2, <2>4, <2>7, <2>8, <2>9, OneRowGrounded DEF OutcomeInv, GroundedRows
  <2>11. ReplyKnown'
    <3>1. reply.kind = "none"
      BY DEF OutcomeInv, ReplyKnown, SubmitPhase
    <3> QED
      BY <2>2, <3>1 DEF ReplyKnown
  <2>12. PollKnown'
    BY <2>2, NotPolling DEF OutcomeInv, Polling
  <2> QED
    BY <2>10, <2>11, <2>12 DEF OutcomeInv, GroundedRows
<1> QED
  BY <1>1, <1>2

\* A statement that throws before the claim ends the row without an id.
LEMMA SubmitThrowsOutcome ==
    ASSUME TypeInv, TypeInv', Rows, TickInv, OutcomeInv, SubmitThrows
    PROVE  OutcomeInv' /\ RecordsStay
<1>1. /\ pc \in SubmitPhase \ {"submitting"} /\ batch # <<>>
      /\ canTransitionState(current.state, "failed")
      /\ Write(failItem(current)) /\ pc' = "submit" /\ reply' = NoReply /\ Throws
      /\ UNCHANGED <<relayerTransactions, tx, expired, crashes>>
  BY DEF SubmitThrows, Continue, outside, TypeInv, TickType, Awaiting, Suspended, SubmitPhase
<1>2. PICK e \in Executions : e = cur
  BY <1>1, CurrentType
<1>3. /\ current \in Row /\ current.id = e /\ current = rows[e]
      /\ isSubmittable(snapshot) /\ snapshot \in Row
      /\ current = snapshot \/ current = tryClientCancel(snapshot)
  BY <1>1, <1>2, CurrentAsListed, CurrentType DEF TickInv, current
<1>4. current.state = "pending" /\ current.oz = "null"
  <2>1. tryClientCancel(snapshot).state = "canceled"
    BY <1>3 DEF tryClientCancel, Row
  <2>2. current.state # "canceled"
    BY <1>1, TerminalAllowsNothing DEF canTransitionState, TerminalState
  <2> QED
    BY <1>3, <2>1, <2>2 DEF isSubmittable
<1>5. /\ failItem(current) \in Row /\ failItem(current).id = e
      /\ failItem(current).oz = "null" /\ failItem(current).state = "failed"
      /\ failItem(current).receipt = current.receipt /\ failItem(current).hash = current.hash
  BY <1>3, <1>4, FailItemType
<1>6. rows'[e] = failItem(current) /\ \A f \in Executions : f # e => rows'[f] = rows[f]
  BY <1>1, <1>5, WriteRows DEF TypeInv
<1>7. relayerTransactions[e] = NoView /\ Early(current) /\ ViewOk(tx[e])
  BY <1>3, <1>4, UnsentRow DEF OutcomeInv, GroundedRows
<1>8. Early(rows'[e]) /\ EarlyEnd(rows'[e], expired'[e], faults')
  BY <1>5, <1>6, <1>7 DEF Early, EarlyEnd
<1>9. RowGrounded(e)' /\ RecordStays(rows[e], rows'[e], Losses)
  BY <1>1, <1>3, <1>4, <1>5, <1>6, <1>7, <1>8, EarlyRow DEF isTerminal, TerminalState
<1>10. GroundedRows' /\ RecordsStay
  BY <1>1, <1>6, <1>9, ThrowsLoses, OneRowGrounded DEF OutcomeInv, GroundedRows
<1>11. ReplyKnown' /\ PollKnown'
  BY <1>1, NoReplyAwaited, NotPolling DEF OutcomeInv, Polling
<1> QED
  BY <1>10, <1>11 DEF OutcomeInv, GroundedRows

\* An exception that leaves the tick writes nothing.
LEMMA TickThrowsOutcome ==
    ASSUME TypeInv, TypeInv', OutcomeInv, TickThrows
    PROVE  OutcomeInv' /\ RecordsStay
<1>1. /\ UNCHANGED <<rows, updatedBefore, relayerTransactions, tx, expired>>
      /\ pc' = "idle" /\ reply' = NoReply /\ LossesGrow
  BY ThrowsLoses DEF TickThrows, AbortTick, store, outside
<1>2. GroundedRows' /\ RecordsStay
  BY <1>1, NoRowGrounded DEF OutcomeInv, GroundedRows
<1>3. ReplyKnown' /\ PollKnown'
  BY <1>1, NoReplyAwaited, NotPolling DEF OutcomeInv, Polling
<1> QED
  BY <1>2, <1>3 DEF OutcomeInv, GroundedRows

\* The steps of the submit phase up to the claim.
LEMMA SubmitPhaseOutcome ==
    ASSUME TypeInv, TypeInv', Rows, TickInv, OutcomeInv,
           \/ SubmitNext \/ RelayerLoaded \/ Permit2Loaded \/ Permit2Unavailable
           \/ PreflightOk \/ PreflightReverts \/ PreflightUnavailable
           \/ \E kind \in ErrorKinds : RelayerUnavailable(kind)
    PROVE  OutcomeInv' /\ RecordsStay
<1>1. pc \in SubmitPhase \ {"submitting"} /\ batch # <<>>
  <2>1. pc \in Awaiting => batch # <<>>
    BY DEF TypeInv, TickType
  <2> QED
    BY <2>1 DEF SubmitNext, RelayerLoaded, Permit2Loaded, Permit2Unavailable, PreflightOk,
         PreflightReverts, PreflightUnavailable, RelayerUnavailable, Awaiting, Suspended,
         SubmitPhase
<1> DEFINE Moves == /\ pc' \in {"relayer", "permit2", "preflight", "witness"}
                    /\ UNCHANGED <<store, batch, reply, backoff, outside, history>>
           Settles == \E to \in {"failed", "rejected", "expired"}, code \in ErrorCode :
                        /\ to = "expired" => expired[cur]
                        /\ Settle(current, to, code) /\ UNCHANGED outside
<1>2. /\ "CHAIN_NOT_ALLOWED" \in ErrorCode /\ "INTERNAL_INVARIANT" \in ErrorCode
      /\ "PREFLIGHT_REVERTED" \in ErrorCode /\ "CLEAR_MACRO_EXPIRED" \in ErrorCode
  BY DEF ErrorCode
<1>3. CheckExpiryAndSubmit => ClaimAndSubmit \/ Moves \/ Settles
  BY <1>2 DEF CheckExpiryAndSubmit
<1>4. Skip \/ ClaimAndSubmit \/ Moves \/ Settles
  <2>1. CASE SubmitNext
    BY <1>2, <2>1 DEF SubmitNext
  <2>2. CASE RelayerLoaded
    <3>1. CheckExpiryAndSubmit \/ Moves
      <4> HIDE DEF Settles
      <4> QED
        BY <2>2 DEF RelayerLoaded
    <3> QED
      BY <1>3, <3>1
  <2>3. CASE Permit2Loaded
    BY <2>3 DEF Permit2Loaded
  <2>4. CASE Permit2Unavailable \/ PreflightUnavailable
    BY <2>4 DEF Permit2Unavailable, PreflightUnavailable
  <2>5. CASE PreflightOk
    BY <1>3, <2>5 DEF PreflightOk
  <2>6. CASE PreflightReverts
    BY <1>2, <2>6 DEF PreflightReverts
  <2>7. ASSUME NEW kind \in ErrorKinds, RelayerUnavailable(kind)
        PROVE  Skip \/ Settles
    BY <1>2, <2>7 DEF RelayerUnavailable
  <2> HIDE DEF Moves, Settles
  <2> QED
    BY <2>1, <2>2, <2>3, <2>4, <2>5, <2>6, <2>7
<1>5. CASE Skip
  BY <1>5, MoveOutcome DEF Skip, Continue, Polling
<1>6. CASE Moves
  BY <1>1, <1>6, MoveOutcome DEF SubmitPhase, Polling
<1>7. CASE Settles
  BY <1>1, <1>7, SettleOutcome
<1> QED
  BY <1>1, <1>4, <1>5, <1>6, <1>7, ClaimAndSubmitOutcome

\* A failed submission leaves a row without an id that waits again, or has failed; a write
\* that throws may leave it claimed.
LEMMA SubmitFailedOutcome ==
    ASSUME TypeInv, TypeInv', Rows, TickInv, OutcomeInv, NEW kind, NEW left,
           SubmitFailed(kind, left)
    PROVE  OutcomeInv' /\ RecordsStay
<1> DEFINE released == releaseSubmissionClaim(current)
           failed == afterSubmitFailure(released, kind)
<1>1. batch # <<>> /\ pc = "submitting"
  BY DEF SubmitFailed, TypeInv, TickType, Awaiting, Suspended
<1>2. /\ cur \in Executions /\ current \in Row /\ snapshot \in Row
      /\ current.id = cur /\ current = rows[cur]
      /\ current.oz = "claim" /\ current.state = "pending"
      /\ snapshot.error = current.error /\ snapshot.error.attempts \in Nat
  <2>1. /\ cur \in Executions /\ current \in Row /\ snapshot \in Row
        /\ current.id = cur /\ current = rows[cur]
        /\ current = claimForSubmission(snapshot) /\ isSubmittable(snapshot)
    BY <1>1, CurrentType, HeadIsFirst DEF current, TickInv, BatchAsListed, SubmitPhase
  <2>2. snapshot.error.attempts \in Nat
    BY <2>1, Constants DEF Row
  <2> QED
    BY <2>1, <2>2 DEF claimForSubmission, isSubmittable, Row
<1>3. /\ released \in Row /\ released.id = cur /\ released.oz = "null" /\ released.state = "pending"
      /\ released.receipt = current.receipt /\ released.hash = current.hash
      /\ released.error = snapshot.error
  BY <1>2, WritesType DEF releaseSubmissionClaim, Row
<1>4. /\ failed \in Row /\ failed.id = cur /\ failed.oz = "null"
      /\ failed.state \in {"pending", "failed"}
      /\ failed.receipt = current.receipt /\ failed.hash = current.hash
  <2> HIDE DEF released
  <2>1. isSubmittable(snapshot)
    BY <1>1, HeadIsFirst DEF TickInv, BatchAsListed, SubmitPhase
  <2>2. failed \in Row
    BY <1>2, <1>3, <2>1, AfterSubmitFailureType
  <2> QED
    BY <1>3, <2>2 DEF afterSubmitFailure, updateLastError, transitionState, Row
<1>4a. \A r \in {current, released} :
         /\ failItem(r) \in Row /\ failItem(r).id = cur
         /\ failItem(r).oz \in {"claim", "null"} /\ failItem(r).state = "failed"
         /\ failItem(r).receipt = current.receipt /\ failItem(r).hash = current.hash
  BY <1>2, <1>3, FailItemType
<1>5. /\ UNCHANGED <<relayerTransactions, expired>>
      /\ tx' = [tx EXCEPT ![cur] = NoView]
      /\ \/ Write(failed) \/ Write(released)
         \/ /\ Throws
            /\ \/ Write(failItem(current)) \/ Write(failItem(released))
               \/ UNCHANGED <<rows, updatedBefore>>
      /\ UNCHANGED faults \/ Throws
      /\ crashes' \in {crashes, crashes + 1}
      /\ pc' \in {"submit", "idle"} /\ reply' = NoReply
  BY DEF SubmitFailed, Continue, Restart, AbortTick
<1> HIDE DEF released, failed
<1>6. /\ \/ rows'[cur] \in {failed, released, current}
         \/ rows'[cur] \in {failItem(current), failItem(released)} /\ faults' > 0
      /\ \A f \in Executions : f # cur => rows'[f] = rows[f]
  <2>1. \A r \in {failed, released, failItem(current), failItem(released)} :
          Write(r) => /\ rows'[cur] = r
                      /\ \A f \in Executions : f # cur => rows'[f] = rows[f]
    BY <1>3, <1>4, <1>4a, WriteRows DEF TypeInv
  <2>2. Throws => faults' > 0
    BY <1>5, ThrowsLoses
  <2> QED
    BY <1>2, <1>5, <2>1, <2>2
<1>7. LossesGrow
  BY <1>5, ThrowsLoses DEF LossesGrow
<1>8. /\ tx'[cur] = NoView /\ ViewOk(NoView)
      /\ \A f \in Executions : f # cur => tx'[f] = tx[f]
  <2>1. ViewOk(NoView)
    BY DEF ViewOk, NoView
  <2> QED
    BY <1>2, <1>5, <2>1 DEF TypeInv, OutsideType
<1>9. relayerTransactions[cur] = NoView /\ Early(current)
  BY <1>2, UnsentRow DEF OutcomeInv, GroundedRows
<1>10. PICK e \in Executions : e = cur
  BY <1>2
<1>11. Early(rows'[e]) /\ EarlyEnd(rows'[e], expired'[e], faults')
  BY <1>2, <1>3, <1>4, <1>4a, <1>6, <1>9, <1>10 DEF Early, EarlyEnd, isTerminal, TerminalState
<1>12. RowGrounded(e)' /\ RecordStays(rows[e], rows'[e], Losses)
  BY <1>2, <1>3, <1>4, <1>4a, <1>5, <1>6, <1>8, <1>9, <1>10, <1>11, EarlyRow
  DEF isTerminal, TerminalState
<1>13. GroundedRows' /\ RecordsStay
  BY <1>5, <1>6, <1>7, <1>8, <1>10, <1>12, OneRowGrounded DEF OutcomeInv, GroundedRows
<1>14. ReplyKnown' /\ PollKnown'
  <2>1. UNCHANGED updatedBefore \/ \E r : Write(r)
    BY <1>5
  <2> QED
    BY <1>5, <2>1, NoReplyAwaited, NotPolling DEF OutcomeInv, Polling
<1> QED
  BY <1>13, <1>14 DEF OutcomeInv, GroundedRows

\* The acknowledgement stores what the answer says, or a failed write loses it.
LEMMA SubmitAcceptedOutcome ==
    ASSUME TypeInv, TypeInv', Rows, TickInv, OutcomeInv, SubmitAccepted
    PROVE  OutcomeInv' /\ RecordsStay
<1> DEFINE q == applySubmitAcknowledgement(current, reply.view.hash)
<1>1. batch # <<>> /\ pc = "submitting" /\ reply.kind = "ok"
  BY DEF SubmitAccepted, TypeInv, TickType, Awaiting, Suspended
<1>2. PICK e \in Executions : e = cur
  BY <1>1, CurrentType
<1>3. /\ current \in Row /\ current.id = e /\ current = rows[e]
      /\ current.oz = "claim" /\ current.state = "pending"
      /\ relayerTransactions[e] = NoView /\ Early(current) /\ ViewOk(tx[e])
  <2>1. current \in Row /\ current.id = e /\ current = rows[e]
    BY <1>1, <1>2, CurrentType DEF current
  <2>2. current.oz = "claim" /\ current.state = "pending"
    BY <1>1, <1>2, <2>1 DEF Rows, HandOverRow, InFlight
  <2> QED
    BY <2>1, <2>2, UnsentRow DEF OutcomeInv, GroundedRows
<1>4. /\ reply.view \in OzView
      /\ reply.view.status \in {"pending", "submitted"}
      /\ ViewOk(reply.view) /\ Upto(reply.view, tx[e])
  BY <1>1, <1>2 DEF OutcomeInv, ReplyKnown, Answers, TypeInv, TickType, Reply
<1>5. /\ q \in Row /\ q.id = e /\ q.oz = "id"
      /\ q.receipt = "none" /\ q.hash = reply.view.hash
      /\ q.state = IF reply.view.hash = 0 THEN "pending" ELSE "submitted"
  <2>1. q \in Row
    BY <1>3, <1>4, WritesType DEF OzView
  <2> QED
    BY <1>3, <2>1 DEF applySubmitAcknowledgement, Early, Row
<1>5a. /\ \A r \in {current, q} :
             /\ failItem(r) \in Row /\ failItem(r).id = e /\ failItem(r).state = "failed"
             /\ failItem(r).receipt = "none" /\ failItem(r).hash = r.hash
       /\ failItem(current).oz = "claim" /\ failItem(q).oz = "id"
  BY <1>3, <1>5, FailItemType DEF Early
<1> HIDE DEF q
<1>6. /\ UNCHANGED <<tx, expired>>
      /\ UNCHANGED faults \/ Throws
      /\ crashes' \in {crashes, crashes + 1}
      /\ pc' \in {"submit", "idle"} /\ reply' = NoReply
      /\ \/ /\ Write(q) \/ (Write(failItem(q)) /\ Throws)
            /\ \/ relayerTransactions' = [relayerTransactions EXCEPT ![e] = reply.view]
               \/ UNCHANGED relayerTransactions
         \/ /\ UNCHANGED <<rows, updatedBefore>> \/ (Write(failItem(current)) /\ Throws)
            /\ UNCHANGED relayerTransactions
  BY <1>2 DEF SubmitAccepted, Continue, Restart, q
<1>7. LossesGrow /\ (Throws => faults' > 0)
  BY <1>6, ThrowsLoses DEF LossesGrow
<1>8. ASSUME NEW r \in {q, failItem(q)}, Write(r), r = q \/ Throws,
             \/ relayerTransactions' = [relayerTransactions EXCEPT ![e] = reply.view]
             \/ UNCHANGED relayerTransactions
      PROVE  GroundedRows' /\ RecordsStay
  <2>1. rows'[e] = r /\ \A f \in Executions : f # e => rows'[f] = rows[f]
    BY <1>5, <1>5a, <1>8, WriteRows DEF TypeInv
  <2>2. /\ relayerTransactions'[e] \in {NoView, reply.view}
        /\ \A f \in Executions : f # e => relayerTransactions'[f] = relayerTransactions[f]
    BY <1>3, <1>8 DEF TypeInv, OutsideType
  <2>3. ViewOk(NoView) /\ Upto(NoView, tx[e]) /\ NoView.hash = 0 /\ NoView.status = "none"
    BY DEF ViewOk, Upto, NoView, Final
  <2>4. Known(r, tx[e], relayerTransactions'[e], Losses')
    BY <1>3, <1>4, <1>5, <1>5a, <1>8, <2>2, <2>3 DEF Known
  <2>5. Tells(r, tx[e], expired'[e], Losses', faults')
    BY <1>5, <1>5a, <1>7, <1>8 DEF Tells
  <2>6. RowGrounded(e)' /\ RecordStays(rows[e], rows'[e], Losses)
    BY <1>3, <1>6, <2>1, <2>4, <2>5 DEF RowGrounded, RecordStays, isTerminal, TerminalState
  <2> QED
    BY <1>6, <1>7, <2>1, <2>2, <2>6, OneRowGrounded DEF OutcomeInv, GroundedRows
<1>9. ASSUME UNCHANGED relayerTransactions,
             UNCHANGED rows \/ (Write(failItem(current)) /\ Throws)
      PROVE  GroundedRows' /\ RecordsStay
  <2>0. /\ rows'[e] = current \/ (rows'[e] = failItem(current) /\ Throws)
        /\ \A f \in Executions : f # e => rows'[f] = rows[f]
    BY <1>3, <1>5a, <1>9, WriteRows DEF TypeInv
  <2>0a. rows'[e].oz # "id" /\ Early(rows'[e])
    BY <1>3, <1>5a, <2>0 DEF Early
  <2>1. EarlyEnd(rows'[e], expired'[e], faults')
    BY <1>3, <1>5a, <1>7, <1>9, <2>0 DEF EarlyEnd, isTerminal, TerminalState
  <2>2. RowGrounded(e)' /\ RecordStays(rows[e], rows'[e], Losses)
    BY <1>3, <1>6, <1>9, <2>0a, <2>1, EarlyRow DEF isTerminal, TerminalState
  <2> QED
    BY <1>6, <1>7, <1>9, <2>0, <2>2, OneRowGrounded DEF OutcomeInv, GroundedRows
<1>10. GroundedRows' /\ RecordsStay
  BY <1>6, <1>8, <1>9 DEF OutcomeInv, GroundedRows
<1>11. ReplyKnown' /\ PollKnown'
  <2>1. UNCHANGED updatedBefore \/ \E r : Write(r)
    BY <1>6
  <2> QED
    BY <1>6, <2>1, NoReplyAwaited, NotPolling DEF OutcomeInv, Polling
<1> QED
  BY <1>10, <1>11 DEF OutcomeInv, GroundedRows

-----------------------------------------------------------------------------
(* The API and the outside.                                                *)

\* The rows still to be polled stay as the poll needs them.
LEMMA PollKnownStays ==
    ASSUME TypeInv, TypeInv', PollBatch, PollKnown, RowsKept, LossesGrow,
           UNCHANGED updatedBefore \/ \E r : Write(r),
           pc' \in Polling =>
             /\ pc \in Polling
             /\ UNCHANGED batch \/ (batch # <<>> /\ batch' = Tail(batch)),
           \A e \in Executions : UNCHANGED batch \/ e # cur =>
              \/ rows'[e].state = rows[e].state \/ ~isTerminal(rows'[e])
              \/ rows'[e].state = "succeeded" \/ rows[e].oz # "id" \/ Losses' > 0
    PROVE  PollKnown'
<1>1. \A e \in Executions : <<e, e>> \notin updatedBefore'
  BY WriteOrdered DEF PollKnown
<1> SUFFICES ASSUME pc' \in Polling
             PROVE  /\ \A i, j \in 1..Len(batch') : batch'[i].id = batch'[j].id => i = j
                    /\ \A i \in 1..Len(batch') :
                         /\ batch'[i].hash # 0 => rows'[batch'[i].id].hash # 0
                         /\ Losses' = 0 /\ isTerminal(rows'[batch'[i].id])
                              => rows'[batch'[i].id].state = "succeeded"
  BY <1>1 DEF PollKnown
<1>2. /\ \A i, j \in 1..Len(batch) : batch[i].id = batch[j].id => i = j
      /\ \A i \in 1..Len(batch) :
           /\ batch[i].hash # 0 => rows[batch[i].id].hash # 0
           /\ Losses = 0 /\ isTerminal(rows[batch[i].id]) => rows[batch[i].id].state = "succeeded"
      /\ \A i \in 1..Len(batch) : rows[batch[i].id].oz = "id"
  BY DEF PollKnown, PollBatch
<1>3. \A i \in 1..Len(batch) : batch[i] \in Row /\ batch[i].id \in Executions
  <2>1. batch \in Seq(Row)
    BY DEF TypeInv, TickType
  <2>2. \A i \in 1..Len(batch) : batch[i] \in Row
    BY <2>1
  <2> QED
    BY <2>2 DEF Row
<1>4. ASSUME NEW i \in 1..Len(batch), UNCHANGED batch \/ batch[i].id # cur
      PROVE  /\ batch[i].hash # 0 => rows'[batch[i].id].hash # 0
             /\ Losses' = 0 /\ isTerminal(rows'[batch[i].id])
                  => rows'[batch[i].id].state = "succeeded"
  <2>1. PICK e \in Executions : e = batch[i].id
    BY <1>3
  <2>2. Kept(rows[e], rows'[e])
    BY DEF RowsKept
  <2>3. Losses' = 0 => Losses = 0
    BY LossesType
  <2>4. \/ rows'[e].state = rows[e].state \/ ~isTerminal(rows'[e])
        \/ rows'[e].state = "succeeded" \/ Losses' > 0
    BY <1>2, <1>4, <2>1
  <2>5. Losses' = 0 /\ isTerminal(rows'[e]) => rows'[e].state = "succeeded"
    BY <1>2, <2>1, <2>3, <2>4 DEF isTerminal
  <2> QED
    BY <1>2, <2>1, <2>2, <2>5 DEF Kept
<1>5. CASE UNCHANGED batch
  BY <1>2, <1>4, <1>5
<1>6. CASE batch # <<>> /\ batch' = Tail(batch)
  <2>1. \A i \in 1..Len(Tail(batch)) :
          /\ i + 1 \in 1..Len(batch) /\ Tail(batch)[i] = batch[i + 1]
          /\ batch[i + 1].id # cur
    BY <1>2, <1>6, HeadIsFirst DEF cur
  <2>2. \A i, j \in 1..Len(Tail(batch)) : i + 1 = j + 1 => i = j
    BY <1>6, HeadIsFirst
  <2>3. \A i, j \in 1..Len(Tail(batch)) : Tail(batch)[i].id = Tail(batch)[j].id => i = j
    BY <1>2, <2>1, <2>2
  <2>4. ASSUME NEW i \in 1..Len(Tail(batch))
        PROVE  /\ Tail(batch)[i].hash # 0 => rows'[Tail(batch)[i].id].hash # 0
               /\ Losses' = 0 /\ isTerminal(rows'[Tail(batch)[i].id])
                    => rows'[Tail(batch)[i].id].state = "succeeded"
    BY <1>4, <2>1
  <2> QED
    BY <1>6, <2>3, <2>4
<1> QED
  BY <1>5, <1>6

\* The handlers of the API: a new row, a cancel, a replay.
LEMMA ApiOutcome ==
    ASSUME TypeInv, TypeInv', Rows, PollBatch, TickInv, OutcomeInv, RowsKept,
           NEW e \in Executions, Api(e)
    PROVE  OutcomeInv' /\ RecordsStay
<1>1. /\ UNCHANGED <<relayerTransactions, pc, batch, reply, tx, expired, Losses, faults>>
      /\ UNCHANGED updatedBefore \/ \E r : Write(r)
      /\ LossesGrow
  <2>1. UNCHANGED <<crashes, faults>>
    BY DEF Api, Admit, Cancel, Replay, history
  <2> QED
    BY <2>1, NoLoss DEF Api, Admit, Cancel, Replay, outside
<1>2. rows[e] \in Row /\ rows[e].id = e /\ HandOverRow(e)
  BY DEF TypeInv, TableType, Rows
<1>3. ASSUME NEW q \in Row, Write(q), q.id = e, q.oz = "null", rows[e].oz = "null",
             ~isTerminal(rows[e]), q.receipt = "none", q.hash = 0,
             \/ q.state = "pending"
             \/ q.state = "canceled" /\ q.error.code = "CANCELED_BY_CLIENT"
      PROVE  RowGrounded(e)' /\ RecordStays(rows[e], rows'[e], Losses)
  <2>1. rows'[e] = q
    BY <1>3, WriteRows DEF TypeInv
  <2>2. relayerTransactions[e] = NoView /\ ViewOk(tx[e])
    BY <1>3, UnsentRow DEF OutcomeInv, GroundedRows
  <2>3. Early(q) /\ EarlyEnd(q, expired[e], faults)
    BY <1>3 DEF Early, EarlyEnd, isTerminal, TerminalState
  <2> QED
    BY <1>1, <1>3, <2>1, <2>2, <2>3, EarlyRow
<1>4. /\ RowGrounded(e)' /\ RecordStays(rows[e], rows'[e], Losses)
      /\ \A f \in Executions : f # e => rows'[f] = rows[f]
      /\ rows[e].oz # "id" \/ (Losses = 0 => rows'[e].state = "succeeded")
  <2>1. CASE Admit(e)
    <3>1. PICK profile \in Profiles : Write(createPending(e, profile[1], profile[2]))
      BY <2>1 DEF Admit
    <3> DEFINE q == createPending(e, profile[1], profile[2])
    <3>2. q \in Row
      <4>1. AbsentRow(e) \in Row
        BY Constants DEF AbsentRow, NullError, Row, Kind, Receipt, ErrorCode
      <4>2. profile[1] \in Kind /\ profile[2] \in BOOLEAN
        BY Constants
      <4> QED
        BY <4>1, <4>2 DEF createPending, Row, RelayExecutionState
    <3>3. q.id = e /\ q.oz = "null" /\ q.state = "pending" /\ q.receipt = "none" /\ q.hash = 0
      BY DEF createPending, AbsentRow, NullError
    <3>4. rows[e].state = "absent" /\ rows[e].oz = "null"
      BY <1>2, <2>1 DEF Admit, HandOverRow
    <3> HIDE DEF q
    <3>5. \A f \in Executions : f # e => rows'[f] = rows[f]
      BY <3>1, <3>2, <3>3, WriteRows DEF TypeInv, q
    <3>6. Write(q) /\ ~isTerminal(rows[e])
      BY <3>1, <3>4 DEF q, isTerminal, TerminalState
    <3>7. RowGrounded(e)' /\ RecordStays(rows[e], rows'[e], Losses)
      BY <1>3, <3>2, <3>3, <3>4, <3>6
    <3> QED
      BY <3>4, <3>5, <3>7
  <2>2. CASE Cancel(e)
    <3> DEFINE q == tryClientCancel(rows[e])
    <3>1. /\ Write(q) /\ rows[e].oz = "null"
          /\ rows[e].state \in {"awaiting_authorization", "pending"}
      BY <2>2 DEF Cancel, tryClientCancelGuard
    <3>2. Early(rows[e])
      BY <3>1, UnsentRow DEF OutcomeInv, GroundedRows
    <3>3. /\ q \in Row /\ q.id = e /\ q.oz = "null" /\ q.receipt = "none" /\ q.hash = 0
          /\ q.state = "canceled" /\ q.error.code = "CANCELED_BY_CLIENT"
      <4>1. q \in Row
        BY <1>2, WritesType
      <4>2. /\ q.id = rows[e].id /\ q.oz = rows[e].oz
            /\ q.receipt = rows[e].receipt /\ q.hash = rows[e].hash
            /\ q.state = "canceled" /\ q.error.code = "CANCELED_BY_CLIENT"
        BY <1>2 DEF tryClientCancel, ErrorOf, Row
      <4> QED
        BY <1>2, <3>1, <3>2, <4>1, <4>2 DEF Early
    <3> HIDE DEF q
    <3>4. \A f \in Executions : f # e => rows'[f] = rows[f]
      BY <3>1, <3>3, WriteRows DEF TypeInv
    <3>5. ~isTerminal(rows[e])
      BY <3>1 DEF isTerminal, TerminalState
    <3>6. RowGrounded(e)' /\ RecordStays(rows[e], rows'[e], Losses)
      BY <1>3, <3>1, <3>3, <3>5
    <3> QED
      BY <3>1, <3>4, <3>6
  <2>3. CASE Replay(e)
    BY <2>3, ReplayGrounded DEF OutcomeInv, TickInv
  <2> QED
    BY <2>1, <2>2, <2>3 DEF Api
<1>5. GroundedRows' /\ RecordsStay
  BY <1>1, <1>4, OneRowGrounded DEF OutcomeInv, GroundedRows
<1>6. ReplyKnown'
  BY <1>1 DEF OutcomeInv, ReplyKnown, Answers, cur, snapshot
<1>7. PollKnown'
  <2>1. Losses' > 0 \/ Losses = 0
    BY <1>1, LossesNat
  <2> QED
    BY <1>1, <1>4, <2>1, PollKnownStays DEF OutcomeInv
<1> QED
  BY <1>5, <1>6, <1>7 DEF OutcomeInv, GroundedRows

\* The start of a tick.
LEMMA TickStartOutcome ==
    ASSUME TypeInv, TypeInv', OutcomeInv, TickStart
    PROVE  OutcomeInv' /\ RecordsStay
BY MoveOutcome DEF TickStart, Polling

\* The relayer, the clock and the Losses.
LEMMA OutsideOutcome ==
    ASSUME TypeInv, TypeInv', Rows, PollBatch, TickInv, OutcomeInv, RowsKept, Outside
    PROVE  OutcomeInv' /\ RecordsStay
<1>1. /\ UNCHANGED <<rows, updatedBefore, relayerTransactions, faults>>
      /\ \A f \in Executions : expired[f] => expired'[f]
      /\ UNCHANGED <<pc, batch>> \/ pc' = "idle"
      /\ crashes' \in {crashes, crashes + 1}
  <2>1. UNCHANGED <<rows, updatedBefore, relayerTransactions, faults>>
    BY DEF Outside, OzAccepts, BackoffElapses, Crash, OzAcceptsStray, OzAdvances, Expire,
           store, history
  <2>2. /\ UNCHANGED <<pc, batch>> \/ pc' = "idle"
        /\ crashes' \in {crashes, crashes + 1}
    BY DEF Outside, OzAccepts, BackoffElapses, Crash, Restart, OzAcceptsStray, OzAdvances,
           Expire, history
  <2>3. UNCHANGED expired \/ \E e \in Executions : expired' = [expired EXCEPT ![e] = TRUE]
    BY DEF Outside, OzAccepts, BackoffElapses, Crash, OzAcceptsStray, OzAdvances, Expire, outside
  <2>4. \A f \in Executions : expired[f] => expired'[f]
    BY <2>3 DEF TypeInv, OutsideType
  <2> QED
    BY <2>1, <2>2, <2>4
<1>2. LossesGrow
  BY <1>1 DEF LossesGrow
<1>3. PollKnown'
  BY <1>1, <1>2, PollKnownStays DEF OutcomeInv, Polling
<1>4. pc = "submitting" =>
        /\ cur \in Executions /\ rows[cur].oz = "claim" /\ rows[cur].state = "pending"
        /\ relayerTransactions[cur] = NoView /\ Early(rows[cur])
        /\ EarlyEnd(rows[cur], expired'[cur], faults')
  <2> SUFFICES ASSUME pc = "submitting"
               PROVE  /\ cur \in Executions /\ rows[cur].oz = "claim" /\ rows[cur].state = "pending"
                      /\ relayerTransactions[cur] = NoView /\ Early(rows[cur])
                      /\ EarlyEnd(rows[cur], expired'[cur], faults')
    OBVIOUS
  <2>1. batch # <<>>
    BY DEF TypeInv, TickType, Awaiting, Suspended
  <2>2. cur \in Executions
    BY <2>1, CurrentType
  <2>3. rows[cur].oz = "claim" /\ rows[cur].state = "pending"
    BY <2>2 DEF Rows, HandOverRow, InFlight
  <2> QED
    BY <2>2, <2>3, UnsentRow
       DEF OutcomeInv, GroundedRows, EarlyEnd, isTerminal, TerminalState
\* The transaction of the row in flight may be any.
<1>5. ASSUME pc = "submitting", NEW view, ViewOk(view), tx' = [tx EXCEPT ![cur] = view]
      PROVE  GroundedRows' /\ RecordsStay
  <2>1. PICK e \in Executions : e = cur
    BY <1>4, <1>5
  <2>2. tx'[e] = view /\ \A f \in Executions : f # e => tx'[f] = tx[f]
    BY <1>5, <2>1 DEF TypeInv, OutsideType
  <2>3. /\ ~isTerminal(rows[e]) /\ rows'[e] = rows[e] /\ rows[e].oz # "id"
        /\ relayerTransactions'[e] = NoView /\ Early(rows[e])
        /\ EarlyEnd(rows[e], expired'[e], faults') /\ ViewOk(tx'[e])
    BY <1>1, <1>4, <1>5, <2>1, <2>2 DEF isTerminal, TerminalState
  <2>4. RowGrounded(e)' /\ RecordStays(rows[e], rows'[e], Losses)
    BY <2>3, EarlyRow
  <2> QED
    BY <1>1, <1>2, <2>2, <2>4, OneRowGrounded DEF OutcomeInv, GroundedRows
<1>6. UNCHANGED tx => GroundedRows' /\ RecordsStay
  BY <1>1, <1>2, NoRowGrounded DEF OutcomeInv, GroundedRows
<1>7. CASE OzAccepts
  <2>1. PICK view \in firstViews :
          reply' = [kind |-> "ok", view |-> view] /\ tx' = [tx EXCEPT ![cur] = view]
    BY <1>7 DEF OzAccepts
  <2>2. pc = "submitting" /\ UNCHANGED <<pc, batch>>
    BY <1>7 DEF OzAccepts
  <2>3. view.status \in {"pending", "submitted"} /\ ViewOk(view) /\ Upto(view, view)
    <3>1. /\ view.outcome = "none"
          /\ view.status = "pending" \/ (view.status = "submitted" /\ view.hash = 1)
      BY DEF firstViews, NoView
    <3> QED
      BY <3>1 DEF ViewOk, Upto, Final
  <2>4. GroundedRows' /\ RecordsStay
    BY <1>5, <2>1, <2>2, <2>3
  <2>5. cur' = cur /\ tx'[cur] = view /\ reply'.view = view
    BY <1>4, <2>1, <2>2 DEF TypeInv, OutsideType, cur, snapshot
  <2>6. ReplyKnown'
    BY <2>2, <2>3, <2>5 DEF ReplyKnown, Answers
  <2> QED
    BY <1>3, <2>4, <2>6 DEF OutcomeInv, GroundedRows
<1>8. CASE BackoffElapses \/ \E e \in Executions : OzAcceptsStray(e) \/ Expire(e)
  <2>1. UNCHANGED <<tx, reply, pc, batch>>
    BY <1>8 DEF BackoffElapses, OzAcceptsStray, Expire, outside
  <2>2. ReplyKnown'
    BY <2>1 DEF OutcomeInv, ReplyKnown, Answers, cur, snapshot
  <2> QED
    BY <1>3, <1>6, <2>1, <2>2 DEF OutcomeInv, GroundedRows
<1>9. CASE Crash
  <2>1. /\ UNCHANGED tx \/ (pc = "submitting" /\ tx' = [tx EXCEPT ![cur] = NoView])
        /\ pc' = "idle" /\ reply' = NoReply
    BY <1>9 DEF Crash, Restart
  <2>2. ViewOk(NoView)
    BY DEF ViewOk, NoView
  <2>3. ReplyKnown'
    BY <2>1, NoReplyAwaited DEF OutcomeInv
  <2> QED
    BY <1>3, <1>5, <1>6, <2>1, <2>2, <2>3 DEF OutcomeInv, GroundedRows
<1>10. ASSUME NEW e \in Executions, OzAdvances(e)
       PROVE  OutcomeInv' /\ RecordsStay
  <2>1. PICK view \in nextViews(tx[e]) : tx' = [tx EXCEPT ![e] = view]
    BY <1>10 DEF OzAdvances
  <2>2. /\ tx[e] \in OzView /\ ViewOk(tx[e])
        /\ tx'[e] = view /\ \A f \in Executions : f # e => tx'[f] = tx[f]
        /\ ~isTerminal(rows[e]) /\ UNCHANGED <<pc, batch, reply, Losses>>
    BY <1>10, <2>1 DEF TypeInv, OutsideType, OzAdvances, OutcomeInv, RowGrounded, Known,
         history, Losses
  <2>3. RowGrounded(e)' /\ RecordStays(rows[e], rows'[e], Losses)
    BY <1>1, <2>1, <2>2, AdvancingRow DEF OutcomeInv
  <2>4. GroundedRows' /\ RecordsStay
    BY <1>1, <1>2, <2>2, <2>3, OneRowGrounded DEF OutcomeInv, GroundedRows
  <2>5. ASSUME NEW v \in OzView, NEW f \in Executions, Upto(v, tx[f])
        PROVE  Upto(v, tx'[f])
    BY <2>1, <2>2, <2>5, NextViewKnown
  <2>6. pc \in {"submitting", "receipt"} => cur \in Executions
    BY CurrentType DEF TypeInv, TickType, Awaiting, Suspended
  <2>7. reply.view \in OzView /\ cur' = cur
    BY <2>2 DEF TypeInv, TickType, Reply, cur, snapshot
  <2>8. ReplyKnown'
    BY <2>2, <2>5, <2>6, <2>7 DEF OutcomeInv, ReplyKnown, Answers
  <2> QED
    BY <1>3, <2>4, <2>8 DEF OutcomeInv, GroundedRows
<1> QED
  BY <1>7, <1>8, <1>9, <1>10 DEF Outside

-----------------------------------------------------------------------------
(* The poll phase.                                                         *)

\* The news of a poll, all of them or as many as were written before a crash.
LEMMA ProjectTransactionOutcome ==
    ASSUME TypeInv, TypeInv', Rows, PollBatch, TickInv, OutcomeInv, RowsKept,
           pc \in {"transaction", "receipt"}, NEW view \in OzView, NEW receipt \in Receipt,
           ViewOk(view), Upto(view, tx[cur]), receipt \in {"none", view.outcome},
           ProjectTransaction(view, receipt)
    PROVE  OutcomeInv' /\ RecordsStay
<1>1. batch # <<>> /\ current.oz = "id"
  BY PolledRow
<1>2. PICK e \in Executions : e = cur
  BY <1>1, CurrentType
<1>3. /\ current \in Row /\ current.id = e /\ current = rows[e]
      /\ current.error.code # "CANCELED_BY_CLIENT"
      /\ current.state \notin {"absent", "awaiting_authorization"}
  <2>1. current \in Row /\ current.id = e /\ current = rows[e]
    BY <1>1, <1>2, CurrentType DEF current
  <2> QED
    BY <1>1, <2>1 DEF Rows, HandOverRow, clientCanceled, TickInv, Budget, BudgetRow
<1>4. /\ snapshot.hash # 0 => current.hash # 0
      /\ Losses = 0 /\ isTerminal(current) => current.state = "succeeded"
  <2>1. 1 \in 1..Len(batch) /\ snapshot = batch[1]
    BY <1>1, HeadIsFirst
  <2> QED
    BY <2>1 DEF OutcomeInv, PollKnown, Polling, current, cur
<1>5. /\ UNCHANGED <<tx, expired>>
      /\ UNCHANGED updatedBefore \/ \E r : Write(r)
      /\ reply' = NoReply
      /\ \/ pc' = "poll" /\ batch' = Tail(batch)
         \/ pc' = "idle"
      /\ UNCHANGED faults \/ Throws
      /\ crashes' \in {crashes, crashes + 1}
  BY <1>2 DEF ProjectTransaction, Continue, Restart, store
<1>6. ASSUME relayerTransactions' = [relayerTransactions EXCEPT ![e] = view]
      PROVE  /\ relayerTransactions'[e] = view
             /\ \A f \in Executions : f # e => relayerTransactions'[f] = relayerTransactions[f]
  BY <1>6 DEF TypeInv, OutsideType
<1>7. \/ /\ relayerTransactions' = [relayerTransactions EXCEPT ![e] = view]
         /\ \/ Write(pollWrites(view, receipt)[5])
            \/ /\ UNCHANGED rows \/ \E i \in 2..4 : Write(pollWrites(view, receipt)[i])
               /\ Throws \/ crashes' = crashes + 1
      \/ UNCHANGED <<rows, relayerTransactions>>
  BY <1>2 DEF ProjectTransaction, Restart, store
<1>8. /\ LossesGrow /\ Losses \in Nat /\ Losses' \in Nat /\ Losses' >= Losses
      /\ faults > 0 => faults' > 0
      /\ Throws \/ crashes' = crashes + 1 => Losses' > 0
  <2>1. LossesGrow
    BY <1>5, ThrowsLoses DEF LossesGrow
  <2>2. Throws => Losses' > 0
    BY <1>5, <2>1, ThrowsLoses, LossesType
  <2>3. ASSUME crashes' = crashes + 1  PROVE Losses' > 0
    <3>1. crashes \in Nat /\ faults' \in Nat
      BY Constants DEF TypeInv, HistoryType
    <3>2. ASSUME NEW a \in Nat, NEW b \in Nat, NEW g \in Nat, b = a + 1
          PROVE  b + g > 0
      BY <3>2
    <3>3. crashes' + faults' > 0
      <4> DEFINE b == crashes'
                 g == faults'
      <4>1. b \in Nat /\ g \in Nat /\ b = crashes + 1
        BY <2>3, <3>1
      <4> HIDE DEF b, g
      <4>2. b + g > 0
        BY <3>1, <3>2, <4>1
      <4> QED
        BY <4>2 DEF b, g
    <3> QED
      BY <3>3 DEF Losses
  <2> QED
    BY <2>1, <2>2, <2>3, LossesType
<1>9. ASSUME \/ Write(pollWrites(view, receipt)[5])
             \/ /\ UNCHANGED rows \/ \E i \in 2..4 : Write(pollWrites(view, receipt)[i])
                /\ Losses' > 0
      PROVE  \E i \in 1..5 :
               /\ rows'[e] = pollWrites(view, receipt)[i]
               /\ \A f \in Executions : f # e => rows'[f] = rows[f]
               /\ i = 5 \/ Losses' > 0
  <2>1. ASSUME NEW i \in 1..5, Write(pollWrites(view, receipt)[i])
        PROVE  /\ rows'[e] = pollWrites(view, receipt)[i]
               /\ \A f \in Executions : f # e => rows'[f] = rows[f]
    <3> DEFINE q == pollWrites(view, receipt)[i]
    <3>1. q \in Row /\ q.id = e
      BY <1>1, <1>2, PollWritesType
    <3> HIDE DEF q
    <3> QED
      BY <2>1, <3>1, WriteRows DEF TypeInv, q
  <2>2. CASE Write(pollWrites(view, receipt)[5])
    BY <2>1, <2>2
  <2>3. ASSUME NEW i \in 2..4, Write(pollWrites(view, receipt)[i]), Losses' > 0
        PROVE  \E j \in 1..5 :
                 /\ rows'[e] = pollWrites(view, receipt)[j]
                 /\ \A f \in Executions : f # e => rows'[f] = rows[f]
                 /\ j = 5 \/ Losses' > 0
    BY <2>1, <2>3
  <2>4. CASE UNCHANGED rows /\ Losses' > 0
    <3>1. pollWrites(view, receipt)[1] = current
      BY <1>1, PollWritesShape
    <3> QED
      BY <1>3, <2>4, <3>1
  <2> QED
    BY <1>9, <2>2, <2>3, <2>4
<1>10. ASSUME relayerTransactions' = [relayerTransactions EXCEPT ![e] = view],
              NEW i \in 1..5, rows'[e] = pollWrites(view, receipt)[i],
              \A f \in Executions : f # e => rows'[f] = rows[f],
              i = 5 \/ Losses' > 0
       PROVE  GroundedRows' /\ RecordsStay
  <2>1. RowGrounded(cur)
    BY <1>2 DEF OutcomeInv
  <2>2. LET q == pollWrites(view, receipt)[i] IN
        /\ Known(q, tx[cur], view, Losses')
        /\ Tells(q, tx[cur], expired[cur], Losses', faults')
        /\ RecordStays(current, q, Losses)
    BY <1>1, <1>3, <1>4, <1>8, <1>10, <2>1, PollWriteGrounded
  <2>3. /\ relayerTransactions'[e] = view
        /\ \A f \in Executions : f # e => relayerTransactions'[f] = relayerTransactions[f]
    BY <1>6, <1>10
  <2>4. RowGrounded(e)' /\ RecordStays(rows[e], rows'[e], Losses)
    BY <1>2, <1>3, <1>5, <1>10, <2>2, <2>3 DEF RowGrounded
  <2> QED
    BY <1>5, <1>8, <1>10, <2>3, <2>4, OneRowGrounded DEF OutcomeInv, GroundedRows
<1>11. ASSUME UNCHANGED <<rows, relayerTransactions>>
       PROVE  GroundedRows' /\ RecordsStay
  <2>1. UNCHANGED <<rows, relayerTransactions, tx>>
    BY <1>5, <1>11
  <2>2. \A f \in Executions : expired[f] => expired'[f]
    BY <1>5
  <2>3. GroundedRows /\ LossesGrow
    BY <1>8 DEF OutcomeInv, GroundedRows
  <2> QED
    BY <2>1, <2>2, <2>3, NoRowGrounded
<1>12. \A f \in Executions : f # e => rows'[f] = rows[f]
  BY <1>7, <1>8, <1>9
<1>13. GroundedRows' /\ RecordsStay
  <2>1. ASSUME /\ relayerTransactions' = [relayerTransactions EXCEPT ![e] = view]
               /\ \/ Write(pollWrites(view, receipt)[5])
                  \/ /\ UNCHANGED rows \/ \E i \in 2..4 : Write(pollWrites(view, receipt)[i])
                     /\ Throws \/ crashes' = crashes + 1
        PROVE  GroundedRows' /\ RecordsStay
    <3>1. PICK i \in 1..5 :
            /\ rows'[e] = pollWrites(view, receipt)[i]
            /\ \A f \in Executions : f # e => rows'[f] = rows[f]
            /\ i = 5 \/ Losses' > 0
      BY <1>8, <1>9, <2>1
    <3> QED
      BY <1>10, <2>1, <3>1
  <2> QED
    BY <1>7, <1>11, <2>1
<1>14. ReplyKnown'
  BY <1>5, NoReplyAwaited DEF OutcomeInv
<1>15. PollKnown'
  <2>1. pc' = "idle" => pc' \notin Polling
    BY DEF Polling
  <2>2. CASE pc' = "idle"
    BY <1>5, <2>1, <2>2, NotPolling DEF OutcomeInv
  <2>3. CASE pc' = "poll" /\ batch' = Tail(batch)
    <3>1. pc \in Polling
      BY DEF Polling
    <3>2. \A f \in Executions : UNCHANGED batch \/ f # cur => rows'[f].state = rows[f].state
      <4>1. batch' # batch
        <5>1. batch \in Seq(Row)
          BY DEF TypeInv, TickType
        <5>2. Len(Tail(batch)) = Len(batch) - 1 /\ Len(batch) \in Nat
          BY <1>1, <5>1
        <5>3. Len(batch') = Len(batch) - 1
          BY <2>3, <5>2
        <5>4. ASSUME NEW b, Len(b) = Len(batch) - 1  PROVE b # batch
          BY <5>2, <5>4
        <5> QED
          BY <5>3, <5>4
      <4> QED
        BY <1>2, <1>12, <4>1
    <3> QED
      BY <1>1, <1>5, <1>8, <2>3, <3>1, <3>2, PollKnownStays DEF OutcomeInv
  <2> QED
    BY <1>5, <2>2, <2>3
<1> QED
  BY <1>13, <1>14, <1>15 DEF OutcomeInv, GroundedRows

\* The listing of the rows to poll.
LEMMA PollStartOutcome ==
    ASSUME TypeInv, TypeInv', OutcomeInv, PollStart
    PROVE  OutcomeInv' /\ RecordsStay
<1>1. UNCHANGED <<store, outside, history, reply>> /\ pc = "submit"
  BY DEF PollStart
<1>2. CASE backoff
  BY <1>1, <1>2, MoveOutcome DEF PollStart, Polling
<1>3. CASE ~backoff
  <2> DEFINE S == {e \in Executions : isPollable(rows[e])}
  <2>1. PICK s \in FirstOf(S, updatedBefore, BatchSize) : batch' = Snapshots(s)
    BY <1>3 DEF PollStart
  <2>2. pc' = "poll" /\ UNCHANGED <<rows, updatedBefore, relayerTransactions, tx,
                                     expired, crashes, faults>>
    BY <1>1, <1>3 DEF PollStart, store, outside, history
  <2>3. S \in SUBSET Executions /\ TableType
    BY DEF TypeInv
  <2>4. \A e \in Executions : <<e, e>> \notin updatedBefore
    BY DEF OutcomeInv, PollKnown
  <2>5. \A e \in S : ~isTerminal(rows[e]) /\ rows[e].id = e
    BY DEF isPollable, isTerminal, TerminalState, TypeInv, TableType
  <2> HIDE DEF S
  <2>6. batch' \in Seq(Row) /\ \A i \in DOMAIN batch' : \E e \in S : batch'[i] = rows[e]
    <3>1. rows \in [Executions -> Row]
      BY <2>3 DEF TableType
    <3>2. Snapshots(s) \in Seq(Row)
      BY <2>1, <2>3, <3>1, ListingType, Zenon
    <3>3. \A i \in DOMAIN Snapshots(s) : \E e \in S : Snapshots(s)[i] = rows[e]
      BY <2>1, <2>3, <3>1, ListingType, SMT
    <3> QED
      BY <2>1, <3>2, <3>3
  <2>7. \A i, j \in 1..Len(batch') : batch'[i].id = batch'[j].id => i = j
    BY <2>1, <2>3, <2>4, ListingDistinct
  <2>8. \A i \in 1..Len(batch') :
          rows'[batch'[i].id] = batch'[i] /\ ~isTerminal(rows'[batch'[i].id])
    <3>1. DOMAIN batch' = 1..Len(batch')
      BY <2>6
    <3> QED
      BY <2>2, <2>5, <2>6, <3>1
  <2>9. PollKnown'
    BY <2>2, <2>4, <2>7, <2>8 DEF PollKnown
  <2>10. ReplyKnown'
    BY <1>1, <2>2, NoReplyAwaited DEF OutcomeInv
  <2>11. LossesGrow
    BY <2>2, NoLoss
  <2>12. GroundedRows' /\ RecordsStay
    BY <2>2, <2>11, NoRowGrounded DEF OutcomeInv, GroundedRows
  <2> QED
    BY <2>9, <2>10, <2>12 DEF OutcomeInv, GroundedRows
<1> QED
  BY <1>2, <1>3

\* The steps of the poll phase.
LEMMA PollPhaseOutcome ==
    ASSUME TypeInv, TypeInv', Rows, PollBatch, TickInv, OutcomeInv, RowsKept,
           \/ PollNext \/ ReceiptLoaded \/ ReceiptUnavailable
           \/ \E kind \in ErrorKinds : TransactionUnavailable(kind)
           \/ \E withReceipt \in BOOLEAN : TransactionLoaded(withReceipt)
    PROVE  OutcomeInv' /\ RecordsStay
<1>1. ASSUME UNCHANGED <<store, outside, history>>, pc \in Polling,
             UNCHANGED batch \/ (batch # <<>> /\ batch' = Tail(batch)) \/ pc' = "idle"
      PROVE  GroundedRows' /\ RecordsStay /\ PollKnown'
  <2>1. /\ UNCHANGED <<rows, updatedBefore, relayerTransactions, tx, expired>>
        /\ LossesGrow
    BY <1>1, NoLoss DEF store, outside, history
  <2>2. GroundedRows' /\ RecordsStay
    BY <2>1, NoRowGrounded DEF OutcomeInv, GroundedRows
  <2>3. pc' = "idle" => pc' \notin Polling
    BY DEF Polling
  <2>4. PollKnown'
    BY <1>1, <2>1, <2>3, PollKnownStays, NotPolling DEF OutcomeInv
  <2> QED
    BY <2>2, <2>4
<1>2. CASE PollNext
  <2>1. GroundedRows' /\ RecordsStay /\ PollKnown'
    BY <1>1, <1>2 DEF PollNext, Polling
  <2>2. ReplyKnown'
    BY <1>2, NoReplyAwaited DEF PollNext, OutcomeInv
  <2> QED
    BY <2>1, <2>2 DEF OutcomeInv, GroundedRows
<1>3. ASSUME NEW kind \in ErrorKinds, TransactionUnavailable(kind)
      PROVE  OutcomeInv' /\ RecordsStay
  <2>1. batch # <<>> /\ pc = "transaction"
    BY <1>3, PolledRow DEF TransactionUnavailable
  <2>2. GroundedRows' /\ RecordsStay /\ PollKnown'
    BY <1>1, <1>3, <2>1 DEF TransactionUnavailable, Continue, Polling
  <2>3. ReplyKnown'
    BY <1>3, <2>1, NoReplyAwaited DEF TransactionUnavailable, Continue, OutcomeInv
  <2> QED
    BY <2>2, <2>3 DEF OutcomeInv, GroundedRows
<1>4. CASE ReceiptLoaded \/ ReceiptUnavailable
  <2>1. pc = "receipt" /\ reply.view \in OzView /\ reply.view.outcome \in Receipt /\ "none" \in Receipt
    BY <1>4 DEF ReceiptLoaded, ReceiptUnavailable, TypeInv, TickType, Reply, OzView, Receipt
  <2>2. ViewOk(reply.view) /\ Upto(reply.view, tx[cur])
    BY <2>1 DEF OutcomeInv, ReplyKnown, Answers
  <2>3. \E receipt \in {"none", reply.view.outcome} : ProjectTransaction(reply.view, receipt)
    BY <1>4 DEF ReceiptLoaded, ReceiptUnavailable
  <2> QED
    BY <2>1, <2>2, <2>3, ProjectTransactionOutcome
<1>5. ASSUME NEW withReceipt \in BOOLEAN, TransactionLoaded(withReceipt)
      PROVE  OutcomeInv' /\ RecordsStay
  <2>1. pc = "transaction" /\ cur \in Executions /\ batch # <<>>
    BY <1>5, PolledRow, CurrentType DEF TransactionLoaded
  <2>2. /\ tx[cur] \in OzView /\ tx[cur].outcome \in Receipt /\ "none" \in Receipt
        /\ ViewOk(tx[cur]) /\ Upto(tx[cur], tx[cur])
    <3>1. ViewOk(tx[cur])
      BY <2>1 DEF OutcomeInv, RowGrounded, Known
    <3> QED
      BY <2>1, <3>1 DEF TypeInv, OutsideType, OzView, Receipt, Upto
  <2>3. CASE /\ pc' = "receipt" /\ reply' = [kind |-> "ok", view |-> tx[cur]]
             /\ tx[cur].status \in {"mined", "confirmed"}
             /\ UNCHANGED <<store, batch, outside, history>>
    <3>1. GroundedRows' /\ RecordsStay /\ PollKnown'
      BY <1>1, <2>1, <2>3 DEF Polling
    <3>2. ReplyKnown'
      <4>1. cur' = cur /\ tx' = tx /\ reply'.view = tx[cur]
        BY <2>3 DEF cur, snapshot, outside
      <4> QED
        BY <2>2, <2>3, <4>1 DEF ReplyKnown, Answers
    <3> QED
      BY <3>1, <3>2 DEF OutcomeInv, GroundedRows
  <2>4. CASE \E receipt \in {"none", tx[cur].outcome} : ProjectTransaction(tx[cur], receipt)
    BY <2>1, <2>2, <2>4, ProjectTransactionOutcome
  <2> QED
    BY <1>5, <2>3, <2>4 DEF TransactionLoaded
<1> QED
  BY <1>2, <1>3, <1>4, <1>5

-----------------------------------------------------------------------------
(* The invariant, and what follows from it.                                *)

\* Nothing is known of any transaction at the start.
LEMMA OutcomeInit == Init => OutcomeInv
<1> SUFFICES ASSUME Init PROVE OutcomeInv
  OBVIOUS
<1>1. ASSUME NEW e \in Executions PROVE RowGrounded(e)
  <2>1. /\ rows[e].state = "absent" /\ rows[e].hash = 0 /\ rows[e].receipt = "none"
        /\ tx[e] = NoView /\ relayerTransactions[e] = NoView
    BY DEF Init, AbsentRow
  <2>2. ViewOk(NoView) /\ Upto(NoView, NoView) /\ NoView.hash = 0 /\ NoView.status = "none"
    BY DEF ViewOk, Upto, NoView, Final
  <2> QED
    BY <2>1, <2>2 DEF RowGrounded, Known, Tells, Early, EarlyEnd, isTerminal,
         TerminalState
<1>2. ReplyKnown /\ PollKnown
  BY DEF Init, ReplyKnown, PollKnown, NoReply, Polling
<1> QED
  BY <1>1, <1>2 DEF OutcomeInv

\* A step that changes nothing.
LEMMA OutcomeStutters ==
    ASSUME TypeInv, TypeInv', OutcomeInv, UNCHANGED vars
    PROVE  OutcomeInv' /\ RecordsStay
<1>1. /\ UNCHANGED <<rows, updatedBefore, relayerTransactions, pc, batch, reply, tx, expired,
                     Losses, faults>>
      /\ LossesGrow
  BY NoLoss DEF vars
<1>2. GroundedRows' /\ RecordsStay
  BY <1>1, NoRowGrounded DEF OutcomeInv, GroundedRows
<1>3. ReplyKnown'
  <2>1. cur' = cur
    BY <1>1 DEF cur, snapshot
  <2> QED
    BY <1>1, <2>1 DEF OutcomeInv, ReplyKnown, Answers
<1>4. PollKnown'
  BY <1>1 DEF OutcomeInv, PollKnown
<1> QED
  BY <1>2, <1>3, <1>4 DEF OutcomeInv, GroundedRows

\* One step of the specification, from a state that satisfies the invariants.
LEMMA OutcomeStep ==
    ASSUME TypeInv, HandOverInv, TickInv, OutcomeInv, [Next]_vars
    PROVE  OutcomeInv' /\ RecordsStay
<1>1. Rows /\ PollBatch /\ TypeInv' /\ RowsKept
  BY HandOverParts, TypeStep, HandOverStep
<1>2. CASE UNCHANGED vars
  BY <1>1, <1>2, OutcomeStutters
<1>3. CASE Worker
  <2>1. CASE \/ SubmitNext \/ RelayerLoaded \/ Permit2Loaded \/ Permit2Unavailable
             \/ PreflightOk \/ PreflightReverts \/ PreflightUnavailable
             \/ \E kind \in ErrorKinds : RelayerUnavailable(kind)
    BY <1>1, <2>1, SubmitPhaseOutcome
  <2>2. CASE SubmitRefused \/ SubmitTimesOut
    <3>1. PICK kind \in ErrorKinds, left \in {0, 1} : SubmitFailed(kind, left)
      BY <2>2 DEF SubmitRefused, SubmitTimesOut
    <3> QED
      BY <1>1, <3>1, SubmitFailedOutcome
  <2>3. CASE TickStart \/ PollStart
    BY <1>1, <2>3, TickStartOutcome, PollStartOutcome
  <2>4. CASE SubmitAccepted
    BY <1>1, <2>4, SubmitAcceptedOutcome
  <2>5. CASE \/ PollNext \/ ReceiptLoaded \/ ReceiptUnavailable
             \/ \E kind \in ErrorKinds : TransactionUnavailable(kind)
             \/ \E withReceipt \in BOOLEAN : TransactionLoaded(withReceipt)
    BY <1>1, <2>5, PollPhaseOutcome
  <2>6. CASE SubmitThrows \/ TickThrows
    BY <1>1, <2>6, SubmitThrowsOutcome, TickThrowsOutcome
  <2> QED
    BY <1>3, <2>1, <2>2, <2>3, <2>4, <2>5, <2>6 DEF Worker
<1>4. CASE Outside
  BY <1>1, <1>4, OutsideOutcome
<1>5. CASE \E e \in Executions : Api(e)
  BY <1>1, <1>5, ApiOutcome
<1> QED
  BY <1>2, <1>3, <1>4, <1>5 DEF Next

\* The inductive invariant of the outcomes holds in every reachable state, with those it
\* rests on: the types, the hand-over of a row to the relayer and the tick.
THEOREM OutcomeIsExact == Spec => [](TypeInv /\ HandOverInv /\ TickInv /\ OutcomeInv)
<1>1. Init => TypeInv /\ HandOverInv /\ TickInv /\ OutcomeInv
  BY TypeInit, HandOverInit, TickInit, OutcomeInit
<1>2. TypeInv /\ HandOverInv /\ TickInv /\ OutcomeInv /\ [Next]_vars =>
        (TypeInv /\ HandOverInv /\ TickInv /\ OutcomeInv)'
  BY TypeStep, HandOverStep, TickStep, OutcomeStep
<1> QED
  BY <1>1, <1>2, PTL DEF Spec

\* What the API tells a client is so. Of a transaction whose id is stored: a success is a
\* successful one, of the wanted confirmation; a revert has reverted; a cancel or an expiry is
\* the relayer's own, and so is a failure, unless a write failed at the acceptance. Where no
\* id is stored, no transaction is claimed, no acceptance was learned of, and, if answers are
\* not lost, the relayer has no intent of the execution and will have none; but for a failed
\* write. A submitted row has a hash, unless a crash or a failed write tore a poll.
THEOREM StatesTellTheTruth == Spec => []OutcomeIsGrounded
<1>1. TypeInv /\ HandOverInv /\ OutcomeInv => OutcomeIsGrounded
  <2> SUFFICES ASSUME TypeInv, HandOverInv, OutcomeInv, NEW e \in Executions
               PROVE  /\ rows[e].state = "submitted" => rows[e].hash # 0 \/ crashes + faults > 0
                      /\ rows[e].state = "succeeded" => rows[e].hash # 0
                      /\ rows[e].state = "succeeded" =>
                           /\ tx[e].outcome = "success" /\ rows[e].receipt = "success"
                           /\ WaitConfirmed => tx[e].status = "confirmed"
                      /\ rows[e].state = "reverted" =>
                           \/ tx[e].outcome = "reverted"
                           \/ tx[e].status = "failed" /\ tx[e].reverts
                      /\ rows[e].state = "rejected" => rows[e].oz # "id"
                      /\ rows[e].state \in {"canceled", "expired"} /\ rows[e].oz = "id" =>
                           tx[e].status = rows[e].state
                      /\ rows[e].state = "failed" /\ rows[e].oz = "id" =>
                           \/ /\ tx[e].status = "failed" /\ ~tx[e].reverts
                              /\ rows[e].error.code = "RELAYER_FAILED"
                           \/ faults > 0
                      /\ isTerminal(rows[e]) /\ rows[e].oz # "id" =>
                           /\ rows[e].state \notin {"succeeded", "reverted"}
                           /\ rows[e].state = "canceled" => clientCanceled(e)
                           /\ rows[e].state = "expired" => expired[e]
                           /\ faults = 0 => learned[e] = 0
                           /\ faults = 0 /\ ~LoseReplies => accepted[e] + stray[e] = 0
    BY DEF OutcomeIsGrounded
  <2>1. /\ Known(rows[e], tx[e], relayerTransactions[e], Losses)
        /\ Tells(rows[e], tx[e], expired[e], Losses, faults)
    BY DEF OutcomeInv, RowGrounded
  <2>2. /\ rows[e].state = "submitted" => rows[e].hash # 0 \/ crashes + faults > 0
        /\ rows[e].state = "succeeded" =>
             /\ rows[e].hash # 0
             /\ tx[e].outcome = "success" /\ rows[e].receipt = "success"
             /\ WaitConfirmed => tx[e].status = "confirmed"
        /\ rows[e].state = "reverted" =>
             tx[e].outcome = "reverted" \/ (tx[e].status = "failed" /\ tx[e].reverts)
        /\ rows[e].state = "rejected" => rows[e].oz # "id"
        /\ rows[e].state \in {"canceled", "expired"} /\ rows[e].oz = "id" =>
             tx[e].status = rows[e].state
        /\ rows[e].state = "failed" /\ rows[e].oz = "id" =>
             \/ tx[e].status = "failed" /\ ~tx[e].reverts /\ rows[e].error.code = "RELAYER_FAILED"
             \/ faults > 0
    BY <2>1 DEF Tells, Losses
  <2>3. ASSUME isTerminal(rows[e]), rows[e].oz # "id"
        PROVE  /\ rows[e].state \notin {"succeeded", "reverted"}
               /\ rows[e].state = "canceled" => clientCanceled(e)
               /\ rows[e].state = "expired" => expired[e]
               /\ faults = 0 => learned[e] = 0
               /\ faults = 0 /\ ~LoseReplies => accepted[e] + stray[e] = 0
    <3>1. Early(rows[e]) /\ EarlyEnd(rows[e], expired[e], faults)
      BY <2>1, <2>3 DEF Known, Tells
    <3>2. faults = 0 => rows[e].oz = "null"
      <4>1. rows[e].oz \in {"null", "claim", "id"}
        BY DEF TypeInv, TableType, Row
      <4> QED
        BY <2>3, <3>1, <4>1 DEF EarlyEnd
    <3>3. rows[e].oz = "null" => learned[e] = 0
      BY HandOverParts DEF Rows, HandOverRow, TypeInv, HistoryType
    <3>4. rows[e].oz = "null" /\ ~LoseReplies => accepted[e] + stray[e] = 0
      BY HandOverParts DEF Rows, HandOverRow
    <3> QED
      BY <3>1, <3>2, <3>3, <3>4 DEF Early, EarlyEnd, clientCanceled
  <2> QED
    BY <2>2, <2>3
<1> QED
  BY <1>1, OutcomeIsExact, PTL

\* Without a crash and without a failed write, no poll and no replay rewrites the error or
\* the receipt of a terminal row, however the polls and the replays interleave.
THEOREM RecordsAreFinal == Spec => TerminalRecordIsFinal
<1>1. TypeInv /\ HandOverInv /\ TickInv /\ OutcomeInv /\ [Next]_vars =>
        [\A e \in Executions : isTerminal(rows[e]) /\ crashes + faults = 0 =>
            /\ rows'[e].error = rows[e].error
            /\ rows'[e].receipt = rows[e].receipt]_vars
  BY OutcomeStep DEF RecordsStay, RecordStays, Losses
<1> QED
  BY <1>1, OutcomeIsExact, PTL DEF Spec, TerminalRecordIsFinal

=============================================================================
