------------------------- MODULE RelayWorkerTickProofs -------------------------
(***************************************************************************)
(* What the tick does with the rows it has listed: the calls it makes for  *)
(* one stay within submitRetryCount, it claims none after its window, only *)
(* a client's DELETE makes it fail; and, from these, that the worker and   *)
(* the API keep the promise of ExecutionPromise.                           *)
(***************************************************************************)
EXTENDS RelayWorkerSafetyProofs

-----------------------------------------------------------------------------
(* The inductive invariant.                                                *)

SubmitPhase == { "submit", "relayer", "permit2", "preflight", "witness", "submitting" }

\* A row of the batch is the row as it was listed, but for a client that has canceled it
\* since, and for the claim of the row in flight.
BatchAsListed ==
    pc \in SubmitPhase =>
        /\ \A i, j \in 1..Len(batch) : batch[i].id = batch[j].id => i = j
        /\ \A i \in 1..Len(batch) :
             /\ isSubmittable(batch[i])
             /\ \/ rows[batch[i].id] = batch[i]
                \/ rows[batch[i].id] = tryClientCancel(batch[i])
                \/ /\ rows[batch[i].id] = claimForSubmission(batch[i])
                   /\ pc = "submitting" /\ i = 1
        /\ pc = "submitting" => rows[cur] = claimForSubmission(snapshot)
        /\ pc = "witness" => snapshot.kind = "clearMacroPermit2V1" /\ snapshot.force

\* What may have been lost to crashes and to statements that throw.
Losses == crashes + faults

LossesGrow == crashes' \in {crashes, crashes + 1} /\ faults' \in {faults, faults + 1}

\* The calls made for a row are those its error counts, the one in flight, and those of
\* which a crash or a failed write has lost the count.
BudgetRow(e) ==
    LET r == rows[e] IN
    /\ r.state # "awaiting_authorization"
    /\ calls[e] <= RetryCount + Losses
    /\ r.state = "absent" => calls[e] = 0
    /\ isSubmittable(r) => r.error.attempts < RetryCount /\ calls[e] <= r.error.attempts + Losses
    /\ InFlight(e) => r.error.attempts < RetryCount /\ calls[e] <= r.error.attempts + 1 + Losses

Budget == \A e \in Executions : BudgetRow(e)

TickInv == BatchAsListed /\ Budget /\ TickFailsOnlyOnCancel

-----------------------------------------------------------------------------
(* What a step does: it moves one row at most, as ExecutionPromise allows. *)

RowMoves(r, q) ==
    \/ q.state = r.state /\ q.oz = r.oz
    \/ r.state = "absent" /\ q.state = "pending" /\ q.oz = r.oz
    \/ /\ isSubmittable(r) /\ q.oz = r.oz
       /\ q.state \in {"canceled", "rejected", "failed", "expired"}
    \/ isSubmittable(r) /\ q.oz = "claim" /\ q.state = r.state
    \/ /\ r.state = "pending" /\ r.oz = "claim"
       /\ \/ q.oz = "null" /\ q.state \in {"pending", "failed"}
          \/ q.oz = "id" /\ q.state \in {"pending", "submitted"}
          \/ q.oz \in {"claim", "id"} /\ q.state = "failed"
    \/ /\ r.state \in {"pending", "submitted"} /\ r.oz = "id" /\ q.oz = "id"
       /\ q.state \in allowedTransitions[r.state] \cup allowedTransitions["submitted"]
       /\ q.state # "rejected"

StepMoves ==
    \E e \in Executions :
        /\ RowMoves(rows[e], rows'[e])
        /\ \A f \in Executions : f # e => rows'[f] = rows[f]

\* ClaimIsTimely, for one step.
Timely ==
    \A e \in Executions : rows[e].oz = "null" /\ rows'[e].oz = "claim" =>
        \/ ~expired[e]
        \/ rows[e].kind = "clearMacroPermit2V1" /\ rows[e].force

\* No loss is forgotten.
LEMMA LossesType ==
    ASSUME TypeInv, LossesGrow
    PROVE  /\ Losses \in Nat /\ Losses' \in Nat /\ Losses <= Losses'
           /\ faults > 0 => faults' > 0
<1>1. crashes \in Nat /\ faults \in Nat
  BY Constants DEF TypeInv, HistoryType
<1>2. /\ crashes' \in Nat /\ crashes <= crashes'
      /\ faults' \in Nat /\ faults <= faults'
  BY <1>1 DEF LossesGrow
<1>3. Losses = crashes + faults /\ Losses' = crashes' + faults'
  BY DEF Losses
<1>4. ASSUME NEW c \in Nat, NEW f \in Nat, NEW d \in Nat, NEW g \in Nat, c <= d, f <= g
      PROVE  c + f \in Nat /\ c + f <= d + g
  BY <1>4
<1>5. Losses \in Nat
  BY <1>1, <1>3
<1>6. Losses' \in Nat
  <2>1. crashes' \in Nat /\ faults' \in Nat
    BY <1>2
  <2>2. ASSUME NEW c \in Nat, NEW f \in Nat  PROVE c + f \in Nat
    OBVIOUS
  <2>3. crashes' + faults' \in Nat
    <3> DEFINE c == crashes'
               f == faults'
    <3>1. c \in Nat /\ f \in Nat
      BY <2>1
    <3> HIDE DEF c, f
    <3>2. c + f \in Nat
      BY <2>2, <3>1
    <3> QED
      BY <3>2 DEF c, f
  <2> QED
    BY <2>3 DEF Losses
<1>7. Losses <= Losses'
  BY <1>1, <1>2, <1>3, <1>4
<1>8. faults > 0 => faults' > 0
  BY <1>1, <1>2
<1> QED
  BY <1>5, <1>6, <1>7, <1>8

\* A statement that throws is a loss.
LEMMA ThrowsLoses ==
    ASSUME TypeInv, Throws, crashes' \in {crashes, crashes + 1}
    PROVE  /\ LossesGrow /\ Losses' >= Losses + 1
           /\ faults' > 0
BY ThrowsType, Constants DEF LossesGrow, Losses, TypeInv, HistoryType

-----------------------------------------------------------------------------
(* The batch.                                                              *)

\* The tick is at the first row of its batch, and the rest of the batch are the later ones.
LEMMA HeadIsFirst ==
    ASSUME TypeInv, batch # <<>>
    PROVE  /\ 1 \in 1..Len(batch) /\ snapshot = batch[1]
           /\ \A i \in 1..Len(Tail(batch)) :
                i + 1 \in 1..Len(batch) /\ i + 1 # 1 /\ Tail(batch)[i] = batch[i + 1]
           /\ \A i, j \in 1..Len(Tail(batch)) : i + 1 = j + 1 => i = j
           /\ \A i \in 1..Len(batch) : batch[i] \in Row /\ batch[i].id \in Executions
<1>1. batch \in Seq(Row)
  BY DEF TypeInv, TickType
<1>2. \A i \in 1..Len(batch) : batch[i] \in Row
  BY <1>1
<1>3. \A i \in 1..Len(Tail(batch)) :
        i + 1 \in 1..Len(batch) /\ i + 1 # 1 /\ Tail(batch)[i] = batch[i + 1]
  BY <1>1
<1>4. \A i, j \in 1..Len(Tail(batch)) : i + 1 = j + 1 => i = j
  BY <1>1
<1>5. \A i \in 1..Len(batch) : batch[i].id \in Executions
  BY <1>2 DEF Row
<1>6. 1 \in 1..Len(batch) /\ snapshot = batch[1]
  BY <1>1 DEF snapshot
<1> QED
  BY <1>2, <1>3, <1>4, <1>5, <1>6

\* The tick goes on to the next row.
LEMMA BatchGoesOn ==
    ASSUME TypeInv, BatchAsListed, pc \in SubmitPhase, batch # <<>>,
           batch' = Tail(batch), pc' = "submit",
           \A f \in Executions : f # cur => rows'[f] = rows[f]
    PROVE  BatchAsListed'
<1>1. ASSUME NEW i \in 1..Len(Tail(batch)), NEW j \in 1..Len(Tail(batch)),
             Tail(batch)[i].id = Tail(batch)[j].id
      PROVE  i = j
  BY <1>1, HeadIsFirst DEF BatchAsListed
<1>2. ASSUME NEW i \in 1..Len(Tail(batch))
      PROVE  LET b == Tail(batch)[i] IN
             /\ isSubmittable(b)
             /\ rows'[b.id] = b \/ rows'[b.id] = tryClientCancel(b)
  <2> DEFINE b == Tail(batch)[i]
  <2>1. b = batch[i + 1] /\ i + 1 \in 1..Len(batch) /\ i + 1 # 1
    BY HeadIsFirst
  <2>2. b.id # cur /\ b.id \in Executions
    BY <2>1, HeadIsFirst DEF BatchAsListed, cur
  <2>3. /\ isSubmittable(b)
        /\ rows[b.id] = b \/ rows[b.id] = tryClientCancel(b)
    BY <2>1 DEF BatchAsListed
  <2> HIDE DEF b
  <2>4. rows'[b.id] = rows[b.id]
    BY <2>2
  <2>5. isSubmittable(b) /\ (rows'[b.id] = b \/ rows'[b.id] = tryClientCancel(b))
    BY <2>3, <2>4
  <2> QED
    BY <2>5 DEF b
<1>3. /\ \A i, j \in 1..Len(batch') : batch'[i].id = batch'[j].id => i = j
      /\ \A i \in 1..Len(batch') :
           /\ isSubmittable(batch'[i])
           /\ rows'[batch'[i].id] = batch'[i] \/ rows'[batch'[i].id] = tryClientCancel(batch'[i])
  BY <1>1, <1>2
<1> QED
  BY <1>3 DEF BatchAsListed, isSubmittable, tryClientCancel

\* The tick stays at its row; what is written meanwhile is a cancel, or no row of the batch.
LEMMA BatchStays ==
    ASSUME TypeInv, BatchAsListed, UNCHANGED batch,
           pc' \in SubmitPhase => pc \in SubmitPhase,
           pc' = pc \/ (pc # "submitting" /\ pc' # "submitting"),
           pc' = "witness" => snapshot.kind = "clearMacroPermit2V1" /\ snapshot.force,
           \A e \in Executions :
              \/ rows'[e] = rows[e]
              \/ rows[e].state = "absent" \/ rows[e].oz = "id"
              \/ isSubmittable(rows[e]) /\ rows'[e] = tryClientCancel(rows[e])
    PROVE  BatchAsListed'
<1> SUFFICES ASSUME pc' \in SubmitPhase PROVE BatchAsListed'
  BY DEF BatchAsListed
<1>1. /\ pc \in SubmitPhase
      /\ \A i, j \in 1..Len(batch) : batch[i].id = batch[j].id => i = j
      /\ \A i \in 1..Len(batch) : isSubmittable(batch[i])
  BY DEF BatchAsListed
<1>2. pc' = "submitting" <=> pc = "submitting"
  OBVIOUS
<1>3. ASSUME NEW b \in Row, isSubmittable(b), b.id \in Executions
      PROVE  /\ rows[b.id] = claimForSubmission(b) => rows'[b.id] = claimForSubmission(b)
             /\ rows[b.id] = tryClientCancel(b) => rows'[b.id] = tryClientCancel(b)
             /\ rows[b.id] = b => rows'[b.id] = b \/ rows'[b.id] = tryClientCancel(b)
  <2>1. /\ claimForSubmission(b).state = "pending" /\ claimForSubmission(b).oz = "claim"
        /\ tryClientCancel(b).state = "canceled" /\ tryClientCancel(b).oz = "null"
        /\ b.state = "pending" /\ b.oz = "null"
    BY <1>3 DEF isSubmittable, claimForSubmission, tryClientCancel, Row
  <2> QED
    BY <1>3, <2>1 DEF isSubmittable
<1>4. ASSUME NEW i \in 1..Len(batch)
      PROVE  \/ rows'[batch[i].id] = batch[i]
             \/ rows'[batch[i].id] = tryClientCancel(batch[i])
             \/ /\ rows'[batch[i].id] = claimForSubmission(batch[i])
                /\ pc' = "submitting" /\ i = 1
  <2>1. batch[i] \in Row /\ batch[i].id \in Executions
    <3>1. batch \in Seq(Row)
      BY DEF TypeInv, TickType
    <3>2. batch[i] \in Row
      BY <3>1
    <3> QED
      BY <3>2 DEF Row
  <2>2. \/ rows[batch[i].id] = batch[i]
        \/ rows[batch[i].id] = tryClientCancel(batch[i])
        \/ /\ rows[batch[i].id] = claimForSubmission(batch[i])
           /\ pc = "submitting" /\ i = 1
    BY <1>1 DEF BatchAsListed
  <2> QED
    BY <1>1, <1>2, <1>3, <2>1, <2>2
<1>5. pc' = "submitting" => rows'[cur] = claimForSubmission(snapshot)
  <2> SUFFICES ASSUME pc' = "submitting" PROVE rows'[cur] = claimForSubmission(snapshot)
    OBVIOUS
  <2>1. rows[cur] = claimForSubmission(snapshot) /\ batch # <<>>
    BY <1>1, <1>2 DEF BatchAsListed, TypeInv, TickType, Awaiting, Suspended
  <2>2. snapshot \in Row /\ isSubmittable(snapshot) /\ cur \in Executions
    BY <1>1, <2>1, HeadIsFirst, CurrentType
  <2> QED
    BY <1>3, <2>1, <2>2 DEF cur
<1> QED
  BY <1>1, <1>4, <1>5 DEF BatchAsListed, cur, snapshot

-----------------------------------------------------------------------------
(* Steps that write one row at most, and make no call.                     *)

\* A step that writes one row, and leaves it out of reach of a submission or as it was,
\* keeps the invariant.
LEMMA OneRow ==
    ASSUME TypeInv, Rows, Budget, TickFailsOnlyOnCancel, NEW e \in Executions,
           \A f \in Executions : f # e => rows'[f] = rows[f],
           \/ rows'[e] = rows[e]
           \/ /\ ~isSubmittable(rows'[e])
              /\ rows'[e].state \notin {"absent", "awaiting_authorization"}
              /\ rows[e].oz = "id" \/ rows[e].state # "canceled",
           RowMoves(rows[e], rows'[e]),
           rows'[e].oz = "claim" => rows[e].oz = "claim",
           calls' = calls,
           LossesGrow,
           \/ tickFailed' = tickFailed \/ faults' > 0
           \/ \E f \in Executions : clientCanceled(f),
           \A f \in Executions : InFlight(f)' => InFlight(f) /\ rows'[f].error = rows[f].error
    PROVE  Budget' /\ TickFailsOnlyOnCancel' /\ StepMoves /\ Timely
<1>1. ASSUME NEW f \in Executions
      PROVE  BudgetRow(f)'
  <2>1. BudgetRow(f)
    BY DEF Budget
  <2>2. /\ calls[f] \in Nat /\ RetryCount \in Nat
        /\ rows[f].error.attempts \in Nat
        /\ Losses \in Nat /\ Losses' \in Nat /\ Losses <= Losses'
    BY Constants, LossesType DEF TypeInv, HistoryType, TableType, Row
  <2>3. \/ rows'[f] = rows[f]
        \/ /\ ~isSubmittable(rows'[f])
           /\ rows'[f].state \notin {"absent", "awaiting_authorization"}
    OBVIOUS
  <2>5. calls'[f] <= RetryCount + Losses'
    BY <2>1, <2>2 DEF BudgetRow
  <2>6. isSubmittable(rows'[f]) =>
          rows'[f].error.attempts < RetryCount /\ calls'[f] <= rows'[f].error.attempts + Losses'
    BY <2>1, <2>2, <2>3 DEF BudgetRow
  <2>7. InFlight(f)' =>
          rows'[f].error.attempts < RetryCount
          /\ calls'[f] <= rows'[f].error.attempts + 1 + Losses'
    BY <2>1, <2>2 DEF BudgetRow
  <2> QED
    BY <2>1, <2>3, <2>5, <2>6, <2>7 DEF BudgetRow
<1>2. \A f \in Executions : clientCanceled(f) => clientCanceled(f)'
  <2> SUFFICES ASSUME NEW f \in Executions, clientCanceled(f) PROVE clientCanceled(f)'
    OBVIOUS
  <2>1. rows[f].state = "canceled" /\ rows[f].oz = "null"
    BY DEF Rows, HandOverRow
  <2>2. rows'[f] = rows[f]
    BY <2>1
  <2> QED
    BY <2>2 DEF clientCanceled
<1>3. TickFailsOnlyOnCancel'
  BY <1>2, LossesType DEF TickFailsOnlyOnCancel, HistoryType, TypeInv
<1>4. StepMoves
  BY DEF StepMoves
<1>5. Timely
  BY DEF Timely
<1> QED
  BY <1>1, <1>3, <1>4, <1>5 DEF Budget

\* Steps that write no row.
LEMMA NoRow ==
    ASSUME TypeInv, Rows, Budget, TickFailsOnlyOnCancel, UNCHANGED rows,
           calls' = calls,
           LossesGrow,
           \/ tickFailed' = tickFailed \/ faults' > 0
           \/ \E f \in Executions : clientCanceled(f),
           \/ UNCHANGED <<pc, batch>>
           \/ pc' # "submitting"
    PROVE  Budget' /\ TickFailsOnlyOnCancel' /\ StepMoves /\ Timely
<1>1. 1 \in Executions
  BY NAssumption DEF Executions
<1>2. \A f \in Executions : InFlight(f)' => InFlight(f) /\ rows'[f].error = rows[f].error
  BY DEF InFlight, cur, snapshot
<1>3. RowMoves(rows[1], rows'[1])
  BY DEF RowMoves
<1> QED
  BY <1>1, <1>2, <1>3, OneRow

\* The row of the tick, before the claim: as listed, or canceled by its client.
LEMMA CurrentAsListed ==
    ASSUME TypeInv, BatchAsListed, batch # <<>>, pc \in SubmitPhase \ {"submitting"}
    PROVE  /\ isSubmittable(snapshot)
           /\ current = snapshot \/ current = tryClientCancel(snapshot)
BY HeadIsFirst DEF BatchAsListed, current, cur

\* An ending before the claim.
LEMMA SettleTick ==
    ASSUME TypeInv, Rows, TickInv, batch # <<>>, pc \in SubmitPhase \ {"submitting"},
           NEW to \in {"failed", "rejected", "expired"}, NEW code \in ErrorCode,
           Settle(current, to, code), UNCHANGED outside
    PROVE  TickInv' /\ StepMoves /\ Timely
<1>1. /\ isSubmittable(snapshot) /\ snapshot \in Row
      /\ cur \in Executions /\ current \in Row /\ current.id = cur /\ current = rows[cur]
      /\ current = snapshot \/ current = tryClientCancel(snapshot)
  BY CurrentAsListed, CurrentType DEF TickInv, current
<1>2. UNCHANGED calls /\ LossesGrow /\ pc' # "submitting"
  BY DEF Settle, Continue, AbortTick, LossesGrow
<1>3. \A f \in Executions : ~InFlight(f)'
  BY <1>2 DEF InFlight
<1>4. CASE current = snapshot
  <2> DEFINE q == transitionState(current, to, ErrorOf(code))
  <2>1. current.state = "pending" /\ current.oz = "null"
    BY <1>1, <1>4 DEF isSubmittable
  <2>2. canTransitionState(current.state, to)
    BY <2>1 DEF canTransitionState, allowedTransitions, RelayExecutionState, TerminalState
  <2>3. Write(q) /\ Continue("submit") /\ UNCHANGED tickFailed
    BY <2>2 DEF Settle
  <2>4. q \in Row /\ q.id = cur /\ q.state = to /\ q.oz = "null"
    <3>1. to \in RelayExecutionState
      BY DEF RelayExecutionState
    <3>2. q \in Row
      BY <1>1, <3>1, WritesType
    <3> QED
      BY <1>1, <2>1, <3>2 DEF transitionState, Row
  <2> HIDE DEF q
  <2>5. rows'[cur] = q /\ \A f \in Executions : f # cur => rows'[f] = rows[f]
    BY <2>3, <2>4, WriteRows DEF TypeInv
  <2>6. BatchAsListed'
    BY <2>3, <2>5, BatchGoesOn DEF TickInv, Continue
  <2>7. RowMoves(rows[cur], rows'[cur])
    BY <1>1, <2>1, <2>4, <2>5 DEF RowMoves, isSubmittable
  <2>8. ~isSubmittable(q) /\ q.state \notin {"absent", "awaiting_authorization"}
    BY <2>4 DEF isSubmittable
  <2>9. Budget' /\ TickFailsOnlyOnCancel' /\ StepMoves /\ Timely
    BY <1>1, <1>2, <1>3, <2>1, <2>3, <2>4, <2>5, <2>7, <2>8, OneRow DEF TickInv
  <2> QED
    BY <2>6, <2>9 DEF TickInv
<1>5. CASE current = tryClientCancel(snapshot)
  <2>1. current.state = "canceled" /\ current.error.code = "CANCELED_BY_CLIENT"
    BY <1>1, <1>5 DEF tryClientCancel, ErrorOf, Row
  <2>2. ~canTransitionState(current.state, to) /\ ~canTransitionState(current.state, "failed")
    BY <2>1, TerminalAllowsNothing DEF canTransitionState, TerminalState
  <2>3. AbortTick /\ UNCHANGED rows
    BY <2>2 DEF Settle
  <2>4. \E f \in Executions : clientCanceled(f)
    BY <1>1, <2>1 DEF clientCanceled
  <2>5. Budget' /\ TickFailsOnlyOnCancel' /\ StepMoves /\ Timely
    BY <1>2, <2>3, <2>4, NoRow DEF TickInv
  <2>6. BatchAsListed'
    BY <2>3 DEF AbortTick, BatchAsListed, SubmitPhase
  <2> QED
    BY <2>5, <2>6 DEF TickInv
<1> QED
  BY <1>1, <1>4, <1>5

\* A step of the tick that writes nothing: to the next row, or on with this one.
LEMMA MoveTick ==
    ASSUME TypeInv, Rows, TickInv, UNCHANGED <<store, outside, history>>, pc' # "submitting",
           \/ pc' \notin SubmitPhase
           \/ pc \in SubmitPhase /\ batch # <<>> /\ batch' = Tail(batch) /\ pc' = "submit"
           \/ /\ pc \in SubmitPhase \ {"submitting"} /\ UNCHANGED batch
              /\ pc' = "witness" => snapshot.kind = "clearMacroPermit2V1" /\ snapshot.force
    PROVE  TickInv' /\ StepMoves /\ Timely
<1>1. UNCHANGED <<rows, calls, tickFailed>> /\ LossesGrow
  BY DEF store, history, LossesGrow
<1>2. Budget' /\ TickFailsOnlyOnCancel' /\ StepMoves /\ Timely
  BY <1>1, NoRow DEF TickInv
<1>3. BatchAsListed'
  <2>1. CASE pc' \notin SubmitPhase
    BY <2>1 DEF BatchAsListed
  <2>2. CASE pc \in SubmitPhase /\ batch # <<>> /\ batch' = Tail(batch) /\ pc' = "submit"
    BY <1>1, <2>2, BatchGoesOn DEF TickInv
  <2>3. CASE /\ pc \in SubmitPhase \ {"submitting"} /\ UNCHANGED batch
             /\ pc' = "witness" => snapshot.kind = "clearMacroPermit2V1" /\ snapshot.force
    BY <1>1, <2>3, BatchStays DEF TickInv
  <2> QED
    BY <2>1, <2>2, <2>3
<1> QED
  BY <1>2, <1>3 DEF TickInv

-----------------------------------------------------------------------------
(* The claim, and what comes of the call.                                  *)

\* The claim is made for a row that is as it was listed, in time, with attempts left.
LEMMA ClaimAndSubmitTick ==
    ASSUME TypeInv, Rows, TickInv, batch # <<>>, pc \in SubmitPhase \ {"submitting"},
           ClaimAndSubmit,
           ~expired[cur] \/ (snapshot.kind = "clearMacroPermit2V1" /\ snapshot.force)
    PROVE  TickInv' /\ StepMoves /\ Timely
<1>1. CASE ~claimGuard(current)
  BY <1>1, MoveTick DEF ClaimAndSubmit, Skip, Continue
<1>2. CASE claimGuard(current)
  <2> DEFINE q == claimForSubmission(snapshot)
  <2>1. /\ isSubmittable(snapshot) /\ snapshot \in Row
        /\ cur \in Executions /\ current \in Row /\ current.id = cur /\ current = rows[cur]
        /\ current = snapshot \/ current = tryClientCancel(snapshot)
    BY CurrentAsListed, CurrentType DEF TickInv, current
  <2>2. current = snapshot
    <3>1. tryClientCancel(snapshot).state = "canceled"
      BY <2>1 DEF tryClientCancel, Row
    <3> QED
      BY <1>2, <2>1, <3>1 DEF claimGuard
  <2>3. /\ Write(q) /\ pc' = "submitting" /\ UNCHANGED batch
        /\ calls' = [calls EXCEPT ![cur] = @ + 1]
        /\ UNCHANGED <<Losses, faults, tickFailed>>
    BY <1>2, <2>2 DEF ClaimAndSubmit, Losses
  <2>4. /\ q \in Row /\ q.id = cur /\ q.oz = "claim" /\ q.state = "pending"
        /\ q.error = current.error
    BY <2>1, <2>2, WritesType DEF claimForSubmission, isSubmittable, Row
  <2>5. rows'[cur] = q /\ \A f \in Executions : f # cur => rows'[f] = rows[f]
    BY <2>3, <2>4, WriteRows DEF TypeInv
  <2>6. /\ calls'[cur] = calls[cur] + 1
        /\ \A f \in Executions : f # cur => calls'[f] = calls[f]
    BY <2>1, <2>3, CountType DEF TypeInv, HistoryType
  <2>7. \A f \in Executions : InFlight(f)' <=> f = cur
    BY <2>3 DEF InFlight, cur, snapshot
  <2>8. BatchAsListed'
    <3>1. \A i \in 1..Len(batch) : batch[i] \in Row /\ batch[i].id \in Executions
      BY HeadIsFirst
    <3>2. \A i \in 1..Len(batch) : i # 1 => batch[i].id # cur
      BY HeadIsFirst DEF TickInv, BatchAsListed, cur
    <3>3. batch[1].id = cur /\ batch[1] = snapshot
      BY HeadIsFirst DEF cur
    <3>4. UNCHANGED <<cur, snapshot>>
      BY <2>3 DEF cur, snapshot
    <3>5. ASSUME NEW i \in 1..Len(batch)
          PROVE  \/ rows'[batch[i].id] = batch[i]
                 \/ rows'[batch[i].id] = tryClientCancel(batch[i])
                 \/ rows'[batch[i].id] = claimForSubmission(batch[i]) /\ i = 1
      <4>1. CASE i = 1
        BY <2>5, <3>3, <4>1
      <4>2. CASE i # 1
        BY <2>5, <3>1, <3>2, <4>2 DEF TickInv, BatchAsListed
      <4> QED
        BY <4>1, <4>2
    <3>6. /\ \A i, j \in 1..Len(batch) : batch[i].id = batch[j].id => i = j
          /\ \A i \in 1..Len(batch) : isSubmittable(batch[i])
      BY DEF TickInv, BatchAsListed
    <3>7. rows'[cur'] = claimForSubmission(snapshot')
      BY <2>5, <3>4
    <3> HIDE DEF q
    <3> QED
      BY <2>3, <3>5, <3>6, <3>7 DEF BatchAsListed
  <2> HIDE DEF q
  <2>9. ASSUME NEW f \in Executions
        PROVE  BudgetRow(f)'
    <3>1. BudgetRow(f)
      BY DEF TickInv, Budget
    <3>2. /\ calls[f] \in Nat /\ Losses \in Nat /\ RetryCount \in Nat
          /\ rows[f].error.attempts \in Nat
      BY Constants DEF TypeInv, HistoryType, TableType, Row, Losses
    <3>3. CASE f = cur
      <4>1. /\ rows[f] = current /\ isSubmittable(current) /\ rows'[f] = q
            /\ rows'[f].error.attempts = rows[f].error.attempts
        BY <2>1, <2>2, <2>4, <2>5, <3>3
      <4>2. /\ rows[f].error.attempts < RetryCount
            /\ calls'[f] <= rows[f].error.attempts + 1 + Losses
        BY <2>6, <3>1, <3>2, <3>3, <4>1 DEF BudgetRow
      <4>3. calls'[f] <= RetryCount + Losses
        <5>1. calls'[f] = calls[f] + 1
          BY <2>6, <3>3
        <5> QED
          BY <3>2, <4>2, <5>1
      <4>4. ~isSubmittable(q) /\ q.state \notin {"absent", "awaiting_authorization"}
        BY <2>4 DEF isSubmittable
      <4> QED
        BY <2>3, <4>1, <4>2, <4>3, <4>4 DEF BudgetRow
    <3>4. CASE f # cur
      BY <2>3, <2>5, <2>6, <2>7, <3>1, <3>4 DEF BudgetRow
    <3> QED
      BY <3>3, <3>4
  <2>10. TickFailsOnlyOnCancel'
    <3>1. \A f \in Executions : clientCanceled(f) => clientCanceled(f)'
      BY <2>1, <2>2, <2>4, <2>5 DEF clientCanceled
    <3> QED
      BY <2>3, <3>1 DEF TickInv, TickFailsOnlyOnCancel
  <2>11. StepMoves
    <3>1. RowMoves(rows[cur], rows'[cur])
      BY <2>1, <2>2, <2>4, <2>5 DEF RowMoves, isSubmittable
    <3> QED
      BY <2>1, <2>5, <3>1 DEF StepMoves
  <2>12. Timely
    BY <2>1, <2>2, <2>5 DEF Timely
  <2> QED
    BY <2>8, <2>9, <2>10, <2>11, <2>12 DEF TickInv, Budget
<1> QED
  BY <1>1, <1>2

\* A call that failed is counted in the row's error before the row can be listed again.
LEMMA SubmitFailedTick ==
    ASSUME TypeInv, Rows, TickInv, NEW kind, NEW left, SubmitFailed(kind, left)
    PROVE  TickInv' /\ StepMoves /\ Timely
<1> DEFINE released == releaseSubmissionClaim(current)
           failed == afterSubmitFailure(released, kind)
<1>1. batch # <<>> /\ pc = "submitting"
  BY DEF SubmitFailed, TypeInv, TickType, Awaiting, Suspended
<1>2. /\ cur \in Executions /\ current \in Row /\ snapshot \in Row
      /\ current.id = cur /\ current = rows[cur]
      /\ current = claimForSubmission(snapshot) /\ isSubmittable(snapshot)
  BY <1>1, CurrentType, HeadIsFirst DEF current, TickInv, BatchAsListed, SubmitPhase
<1>3. /\ current.oz = "claim" /\ current.state = "pending" /\ current.error = snapshot.error
      /\ snapshot.error.attempts \in Nat
      /\ InFlight(cur) /\ ~clientCanceled(cur)
  <2>1. current.oz = "claim" /\ current.state = "pending" /\ current.error = snapshot.error
    BY <1>2 DEF claimForSubmission, isSubmittable, Row
  <2>2. snapshot.error.attempts \in Nat
    BY <1>2, Constants DEF Row
  <2>3. InFlight(cur) /\ ~clientCanceled(cur)
    BY <1>1, <1>2, <2>1 DEF InFlight, Rows, HandOverRow
  <2> QED
    BY <2>1, <2>2, <2>3
<1>4. /\ released \in Row /\ released.id = cur /\ released.oz = "null"
      /\ released.state = "pending" /\ released.error = snapshot.error
  BY <1>2, <1>3, WritesType DEF releaseSubmissionClaim, Row
<1>5. /\ failed \in Row /\ failed.id = cur /\ failed.oz = "null"
      /\ \/ failed.state = "failed"
         \/ /\ failed.state = "pending" /\ failed.error.attempts = snapshot.error.attempts + 1
            /\ snapshot.error.attempts + 1 < RetryCount
  <2> HIDE DEF released
  <2>1. failed \in Row
    BY <1>2, <1>4, AfterSubmitFailureType
  <2> QED
    BY <1>4, <2>1 DEF afterSubmitFailure, updateLastError, transitionState, Row
<1>5a. /\ \A r \in {current, released} :
             failItem(r) \in Row /\ failItem(r).id = cur /\ failItem(r).state = "failed"
       /\ failItem(current).oz = "claim" /\ failItem(released).oz = "null"
  BY <1>2, <1>3, <1>4, FailItemType
<1>6. /\ UNCHANGED calls /\ pc' # "submitting"
      /\ \/ Write(failed) /\ Continue("submit") /\ UNCHANGED <<crashes, faults, tickFailed>>
         \/ /\ Throws /\ UNCHANGED <<crashes, tickFailed>>
            /\ Write(failItem(current)) \/ Write(failItem(released))
            /\ Continue("submit")
         \/ /\ Throws /\ UNCHANGED crashes
            /\ UNCHANGED rows \/ Write(released)
            /\ pc' = "idle"
         \/ /\ Write(released) /\ pc' = "idle"
            /\ crashes' = crashes + 1 /\ UNCHANGED <<faults, tickFailed>>
  BY DEF SubmitFailed, Continue, Restart, AbortTick
<1> HIDE DEF released, failed
<1>6a. /\ LossesGrow
       /\ tickFailed' = tickFailed \/ faults' > 0
       /\ Losses \in Nat /\ Losses' \in Nat /\ Losses <= Losses'
  <2>1. LossesGrow /\ (tickFailed' = tickFailed \/ faults' > 0)
    BY <1>6, ThrowsLoses DEF LossesGrow
  <2> QED
    BY <2>1, LossesType
<1>6b. \/ Write(failed) /\ Losses' = Losses
       \/ /\ Losses' >= Losses + 1
          /\ \/ UNCHANGED rows
             \/ \E r \in {released, failItem(current), failItem(released)} : Write(r)
  <2>1. crashes \in Nat /\ faults \in Nat
    BY Constants DEF TypeInv, HistoryType
  <2> QED
    BY <1>6, <2>1, ThrowsLoses DEF Losses
<1>7. /\ \/ rows'[cur] = failed /\ Losses' = Losses
         \/ /\ Losses' >= Losses + 1
            /\ rows'[cur] \in {current, released, failItem(current), failItem(released)}
      /\ \A f \in Executions : f # cur => rows'[f] = rows[f]
  <2>1. \A r \in {failed, released, failItem(current), failItem(released)} :
          Write(r) => /\ rows'[cur] = r
                      /\ \A f \in Executions : f # cur => rows'[f] = rows[f]
    BY <1>4, <1>5, <1>5a, WriteRows DEF TypeInv
  <2> QED
    BY <1>2, <1>6b, <2>1
<1>8. \A f \in Executions : ~InFlight(f)'
  BY <1>6 DEF InFlight
<1>9. BatchAsListed'
  <2>1. pc' = "idle" => BatchAsListed'
    BY DEF BatchAsListed, SubmitPhase
  <2> QED
    BY <1>1, <1>6, <1>7, <2>1, BatchGoesOn DEF TickInv, Continue, SubmitPhase
<1>10. ASSUME NEW f \in Executions
       PROVE  BudgetRow(f)'
  <2>1. BudgetRow(f)
    BY DEF TickInv, Budget
  <2>2. /\ calls[f] \in Nat /\ RetryCount \in Nat
        /\ rows[f].error.attempts \in Nat
    BY Constants DEF TypeInv, HistoryType, TableType, Row
  <2>3. CASE f = cur
    <3>1. /\ snapshot.error.attempts < RetryCount
          /\ calls[f] <= snapshot.error.attempts + 1 + Losses
          /\ calls'[f] = calls[f] /\ calls[f] <= RetryCount + Losses
      BY <1>2, <1>3, <1>6, <2>1, <2>3 DEF BudgetRow
    <3>2. /\ calls'[f] <= RetryCount + Losses'
          /\ ~InFlight(f)'
      BY <1>6a, <1>8, <2>2, <3>1
    <3>3. CASE rows'[cur] = failed /\ Losses' = Losses
      <4>1. isSubmittable(failed) =>
              failed.error.attempts < RetryCount /\ calls'[f] <= failed.error.attempts + Losses
        BY <1>3, <1>5, <2>2, <3>1 DEF isSubmittable
      <4>2. failed.state \notin {"absent", "awaiting_authorization"}
        BY <1>5
      <4> QED
        BY <2>3, <3>2, <3>3, <4>1, <4>2 DEF BudgetRow
    <3>4. CASE Losses' >= Losses + 1 /\ rows'[cur] = released
      <4>1. /\ released.error.attempts < RetryCount
            /\ calls'[f] <= released.error.attempts + Losses'
        BY <1>3, <1>4, <1>6a, <2>2, <3>1, <3>4
      <4> QED
        BY <1>4, <2>3, <3>2, <3>4, <4>1 DEF BudgetRow
    <3>5. CASE rows'[cur] \in {current, failItem(current), failItem(released)}
      <4>1. /\ ~isSubmittable(rows'[cur])
            /\ rows'[cur].state \notin {"absent", "awaiting_authorization"}
        BY <1>3, <1>5a, <3>5 DEF isSubmittable
      <4> QED
        BY <2>3, <3>2, <4>1 DEF BudgetRow
    <3> QED
      BY <1>7, <3>3, <3>4, <3>5
  <2>4. CASE f # cur
    <3>1. rows'[f] = rows[f] /\ calls'[f] = calls[f]
      BY <1>6, <1>7, <2>4
    <3>2. /\ calls[f] <= RetryCount + Losses'
          /\ isSubmittable(rows[f]) => calls[f] <= rows[f].error.attempts + Losses'
      BY <1>6a, <2>1, <2>2 DEF BudgetRow
    <3> QED
      BY <1>8, <2>1, <3>1, <3>2 DEF BudgetRow
  <2> QED
    BY <2>3, <2>4
<1>11. TickFailsOnlyOnCancel'
  <2>1. \A f \in Executions : clientCanceled(f) => clientCanceled(f)'
    BY <1>2, <1>3, <1>7 DEF clientCanceled
  <2> QED
    BY <1>6a, <2>1, LossesType DEF TickInv, TickFailsOnlyOnCancel, TypeInv, HistoryType
<1>12. RowMoves(rows[cur], rows'[cur])
  BY <1>2, <1>3, <1>4, <1>5, <1>5a, <1>7 DEF RowMoves
<1>13. StepMoves
  BY <1>2, <1>7, <1>12 DEF StepMoves
<1>14. Timely
  BY <1>2, <1>3, <1>7 DEF Timely
<1> QED
  BY <1>9, <1>10, <1>11, <1>13, <1>14 DEF TickInv, Budget

\* A call that was answered takes the row out of reach of further submissions.
LEMMA SubmitAcceptedTick ==
    ASSUME TypeInv, Rows, TickInv, SubmitAccepted
    PROVE  TickInv' /\ StepMoves /\ Timely
<1> DEFINE q == applySubmitAcknowledgement(current, reply.view.hash)
<1>1. batch # <<>> /\ pc = "submitting"
  BY DEF SubmitAccepted, TypeInv, TickType, Awaiting, Suspended
<1>2. /\ cur \in Executions /\ current \in Row /\ current.id = cur /\ current = rows[cur]
      /\ current.oz = "claim" /\ current.state = "pending"
  <2>1. cur \in Executions /\ current \in Row /\ current.id = cur /\ current = rows[cur]
    BY <1>1, CurrentType DEF current
  <2> QED
    BY <1>1, <2>1 DEF Rows, HandOverRow, InFlight
<1>3. q \in Row /\ q.id = cur /\ q.oz = "id" /\ q.state \in {"pending", "submitted"}
  <2>1. reply.view.hash \in 0..MaxHash
    BY DEF TypeInv, TickType, Reply, OzView
  <2>2. q \in Row
    BY <1>2, <2>1, WritesType
  <2> QED
    BY <1>2, <2>2 DEF applySubmitAcknowledgement, Row
<1>3a. /\ \A r \in {current, q} :
             failItem(r) \in Row /\ failItem(r).id = cur /\ failItem(r).state = "failed"
       /\ failItem(current).oz = "claim" /\ failItem(q).oz = "id"
  BY <1>2, <1>3, FailItemType
<1>4. /\ UNCHANGED rows \/ \E r \in {q, failItem(current), failItem(q)} : Write(r)
      /\ UNCHANGED <<calls, tickFailed>>
      /\ crashes' \in {crashes, crashes + 1}
      /\ UNCHANGED faults \/ Throws
      /\ \/ Continue("submit")
         \/ pc' = "idle"
  BY DEF SubmitAccepted, Continue, Restart
<1>4a. LossesGrow
  BY <1>4, ThrowsLoses DEF LossesGrow
<1> HIDE DEF q
<1>5. /\ rows'[cur] \in {current, q, failItem(current), failItem(q)}
      /\ \A f \in Executions : f # cur => rows'[f] = rows[f]
  <2>1. \A r \in {q, failItem(current), failItem(q)} :
          Write(r) => /\ rows'[cur] = r
                      /\ \A f \in Executions : f # cur => rows'[f] = rows[f]
    BY <1>3, <1>3a, WriteRows DEF TypeInv
  <2> QED
    BY <1>2, <1>4, <2>1
<1>6. \A f \in Executions : ~InFlight(f)'
  BY <1>4 DEF InFlight, Continue
<1>7. BatchAsListed'
  <2>1. pc' = "idle" => BatchAsListed'
    BY DEF BatchAsListed, SubmitPhase
  <2> QED
    BY <1>1, <1>4, <1>5, <2>1, BatchGoesOn DEF TickInv, Continue, SubmitPhase
<1>8. RowMoves(rows[cur], rows'[cur])
  BY <1>2, <1>3, <1>3a, <1>5 DEF RowMoves
<1>9. \A r \in {q, failItem(current), failItem(q)} :
        ~isSubmittable(r) /\ r.state \notin {"absent", "awaiting_authorization"}
  BY <1>3, <1>3a DEF isSubmittable
<1>10. Budget' /\ TickFailsOnlyOnCancel' /\ StepMoves /\ Timely
  <2>1. rows'[cur].oz = "claim" => rows[cur].oz = "claim"
    BY <1>2
  <2> QED
    BY <1>2, <1>4, <1>4a, <1>5, <1>6, <1>8, <1>9, <2>1, OneRow DEF TickInv
<1> QED
  BY <1>7, <1>10 DEF TickInv

-----------------------------------------------------------------------------
(* The poll phase and the API.                                             *)

\* The relayer's news are never a rejection, nor a row that waits for its client.
LEMMA ProjectionReports ==
    ASSUME NEW view, NEW receipt \in Receipt, view.status \in OzStatus \cup {"none"}
    PROVE  projectRelayerState(view, receipt, WaitConfirmed).state
             \in {"pending", "submitted", "succeeded", "reverted", "failed", "canceled", "expired"}
BY DEF projectRelayerState, ByHash, Receipt

\* Each of the rows a poll may leave behind is a move that ExecutionPromise allows.
LEMMA PollWritesMove ==
    ASSUME TypeInv, batch # <<>>, current.oz = "id",
           NEW view \in OzView, NEW receipt \in Receipt, NEW i \in 1..5,
           current.state \notin {"absent", "awaiting_authorization"}
    PROVE  RowMoves(current, pollWrites(view, receipt)[i])
<1> DEFINE newHash   == view.hash # 0 /\ view.hash # snapshot.hash
           hashed    == IF newHash THEN appendCurrentHashChange(current, view.hash) ELSE current
           submitted == IF newHash /\ hashed.state = "pending"
                          THEN transitionState(hashed, "submitted", NullError) ELSE hashed
           projected == projectRelayerState(view, receipt, WaitConfirmed)
           updated   == updateMetadata(submitted, receipt, ErrorOf(projected.code))
           final     == IF updated.state # projected.state
                            /\ canTransitionState(updated.state, projected.state)
                          THEN transitionState(updated, projected.state, NullError)
                          ELSE updated
           reported  == allowedTransitions[current.state] \cup allowedTransitions["submitted"]
           Open(r)   == /\ r \in Row /\ r.oz = "id"
                        /\ \/ r.state = current.state
                           \/ current.state = "pending" /\ r.state = "submitted"
<1>1. Open(current)
  BY CurrentType
<1>2. Open(hashed)
  <2>1. appendCurrentHashChange(current, view.hash) \in Row
    <3>1. view.hash \in 0..MaxHash
      BY DEF OzView
    <3> QED
      BY <1>1, <3>1, WritesType
  <2> QED
    BY <1>1, <2>1 DEF appendCurrentHashChange, Row
<1>3. Open(submitted)
  <2>1. ASSUME NEW r \in Row, r.state = "pending", Open(r)
        PROVE  Open(transitionState(r, "submitted", NullError))
    <3>1. NullError = ErrorOf("none") /\ "none" \in ErrorCode /\ "submitted" \in RelayExecutionState
      BY DEF NullError, ErrorOf, ErrorCode, RelayExecutionState
    <3>2. transitionState(r, "submitted", NullError) \in Row
      BY <3>1, WritesType
    <3> QED
      BY <2>1, <3>2 DEF transitionState, Row
  <2> HIDE DEF hashed
  <2> QED
    BY <1>2, <2>1
<1>4. projected.state \in {"pending", "submitted", "succeeded", "reverted", "failed",
                           "canceled", "expired"}
  BY ProjectionReports DEF OzView
<1>5. projected.code \in ErrorCode
  BY Constants, ProjectionType
<1>6. Open(updated)
  <2> HIDE DEF submitted, projected
  <2>1. updated \in Row
    BY <1>3, <1>5, WritesType
  <2> QED
    BY <1>3, <2>1 DEF updateMetadata, Row
<1>7. ASSUME NEW r, Open(r)
      PROVE  RowMoves(current, r)
  <2>1. "submitted" \in allowedTransitions["submitted"]
    BY DEF allowedTransitions, RelayExecutionState, TerminalState
  <2> QED
    BY <1>7, <2>1 DEF RowMoves
<1>8. RowMoves(current, final)
  <2> HIDE DEF updated, projected
  <2>1. CASE /\ updated.state # projected.state
             /\ canTransitionState(updated.state, projected.state)
    <3>1. projected.state \in allowedTransitions[updated.state]
      BY <2>1 DEF canTransitionState
    <3>2. updated.state \notin TerminalState
      BY <3>1, TerminalAllowsNothing
    <3>3. /\ current.state \in {"pending", "submitted"}
          /\ updated.state = current.state \/ updated.state = "submitted"
      BY <1>1, <1>6, <3>2 DEF Row, RelayExecutionState, TerminalState
    <3>4. projected.state \in reported
      BY <3>1, <3>3
    <3>5. final.state = projected.state /\ final.oz = "id"
      BY <1>6, <2>1 DEF transitionState, Row
    <3> HIDE DEF final
    <3> QED
      BY <1>4, <3>3, <3>4, <3>5 DEF RowMoves
  <2>2. CASE ~(/\ updated.state # projected.state
               /\ canTransitionState(updated.state, projected.state))
    BY <1>6, <1>7, <2>2
  <2> QED
    BY <2>1, <2>2
<1>9. pollWrites(view, receipt) = <<current, hashed, submitted, updated, final>>
  BY DEF pollWrites
<1> HIDE DEF hashed, submitted, updated, final
<1> QED
  BY <1>1, <1>2, <1>3, <1>6, <1>7, <1>8, <1>9

\* A poll moves the row of its transaction and no other, and makes no call.
LEMMA ProjectTransactionTick ==
    ASSUME TypeInv, Rows, TickInv, batch # <<>>, pc # "submitting", current.oz = "id",
           NEW view \in OzView, NEW receipt \in Receipt, ProjectTransaction(view, receipt)
    PROVE  TickInv' /\ StepMoves /\ Timely
<1>1. /\ cur \in Executions /\ current \in Row /\ current.id = cur /\ current = rows[cur]
      /\ current.state \notin {"absent", "awaiting_authorization"}
  <2>1. cur \in Executions /\ current \in Row /\ current.id = cur /\ current = rows[cur]
    BY CurrentType DEF current
  <2> QED
    BY <2>1 DEF Rows, HandOverRow, TickInv, Budget, BudgetRow
<1>2. \/ UNCHANGED rows
      \/ \E i \in 1..5 : Write(pollWrites(view, receipt)[i])
  BY DEF ProjectTransaction, store
<1>3. ASSUME NEW i \in 1..5, Write(pollWrites(view, receipt)[i])
      PROVE  /\ RowMoves(rows[cur], rows'[cur])
             /\ rows'[cur].oz = "id"
             /\ rows'[cur].state \notin {"absent", "awaiting_authorization"}
             /\ \A f \in Executions : f # cur => rows'[f] = rows[f]
  <2> DEFINE q == pollWrites(view, receipt)[i]
  <2>1. q \in Row /\ q.id = cur /\ q.oz = "id" /\ RowMoves(current, q)
    BY <1>1, PollWritesType, PollWritesMove
  <2> HIDE DEF q
  <2>2. rows'[cur] = q /\ \A f \in Executions : f # cur => rows'[f] = rows[f]
    BY <1>3, <2>1, WriteRows DEF TypeInv, q
  <2>3. q.state \notin {"absent", "awaiting_authorization"}
    <3>1. /\ allowedTransitions[current.state] \subseteq RelayExecutionState \ {"awaiting_authorization"}
          /\ allowedTransitions["submitted"] \subseteq RelayExecutionState \ {"awaiting_authorization"}
      BY <1>1 DEF allowedTransitions, RelayExecutionState, TerminalState, Row
    <3>2. "absent" \notin RelayExecutionState
      BY DEF RelayExecutionState
    <3> QED
      BY <1>1, <2>1, <3>1, <3>2 DEF RowMoves
  <2> QED
    BY <1>1, <2>1, <2>2, <2>3
<1>4. /\ UNCHANGED <<calls, tickFailed>> /\ pc' \notin SubmitPhase
      /\ LossesGrow
  BY ThrowsLoses DEF ProjectTransaction, Continue, Restart, SubmitPhase, LossesGrow
<1>5. \A f \in Executions : ~InFlight(f)'
  BY <1>4 DEF InFlight, SubmitPhase
<1>6. BatchAsListed'
  BY <1>4 DEF BatchAsListed
<1>7. Budget' /\ TickFailsOnlyOnCancel' /\ StepMoves /\ Timely
  <2>1. CASE UNCHANGED rows
    BY <1>4, <2>1, NoRow DEF TickInv, SubmitPhase
  <2>2. CASE \E i \in 1..5 : Write(pollWrites(view, receipt)[i])
    BY <1>1, <1>3, <1>4, <1>5, <2>2, OneRow DEF TickInv, isSubmittable
  <2> QED
    BY <1>2, <2>1, <2>2
<1> QED
  BY <1>6, <1>7 DEF TickInv

\* The handlers of the API make no call; a DELETE is the one change of a listed row.
LEMMA ApiTick ==
    ASSUME TypeInv, Rows, TickInv, NEW e \in Executions, Api(e)
    PROVE  TickInv' /\ StepMoves /\ Timely
<1>1. UNCHANGED <<pc, batch, calls, Losses, faults, tickFailed>> /\ LossesGrow
  BY DEF Api, Admit, Cancel, Replay, outside, history, Losses, LossesGrow
<1>2. /\ rows[e] \in Row /\ rows[e].id = e /\ HandOverRow(e) /\ BudgetRow(e)
      /\ calls[e] \in Nat /\ Losses \in Nat
  BY Constants DEF Losses, TypeInv, TableType, HistoryType, Rows, TickInv, Budget
<1>3. \A f \in Executions : InFlight(f)' <=> InFlight(f)
  BY <1>1 DEF InFlight, cur, snapshot
<1>4. CASE Admit(e)
  <2>1. PICK profile \in Profiles : Write(createPending(e, profile[1], profile[2]))
    BY <1>4 DEF Admit
  <2> DEFINE q == createPending(e, profile[1], profile[2])
  <2>2. q \in Row
    <3>1. AbsentRow(e) \in Row
      BY Constants DEF AbsentRow, NullError, Row, Kind, Receipt, ErrorCode
    <3>2. profile[1] \in Kind /\ profile[2] \in BOOLEAN
      BY Constants
    <3> QED
      BY <3>1, <3>2 DEF createPending, Row, RelayExecutionState
  <2>3. q.id = e /\ q.oz = "null" /\ q.state = "pending" /\ q.error.attempts = 0
    BY DEF createPending, AbsentRow, NullError
  <2>4. rows[e].state = "absent" /\ rows[e].oz = "null"
    BY <1>2, <1>4 DEF Admit, HandOverRow
  <2> HIDE DEF q
  <2>5. rows'[e] = q /\ \A f \in Executions : f # e => rows'[f] = rows[f]
    BY <2>1, <2>2, <2>3, WriteRows DEF TypeInv, q
  <2>6. BatchAsListed'
    BY <1>1, <2>4, <2>5, BatchStays DEF TickInv, BatchAsListed
  <2>7. ASSUME NEW f \in Executions
        PROVE  BudgetRow(f)'
    <3>1. CASE f = e
      <4>1. ~InFlight(f)'
        BY <1>2, <1>3, <2>4, <3>1 DEF HandOverRow
      <4>2. calls'[f] = 0 /\ 0 <= Losses /\ 0 < RetryCount /\ RetryCount \in Nat
        BY <1>1, <1>2, <2>4, <3>1, Constants DEF BudgetRow
      <4>3. /\ calls'[f] <= RetryCount + Losses'
            /\ calls'[f] <= rows'[f].error.attempts + Losses'
            /\ rows'[f].error.attempts < RetryCount
        BY <1>1, <1>2, <2>3, <2>5, <3>1, <4>2
      <4>4. rows'[f].state = "pending"
        BY <2>3, <2>5, <3>1
      <4> QED
        BY <4>1, <4>3, <4>4 DEF BudgetRow
    <3>2. CASE f # e
      BY <1>1, <1>3, <2>5, <3>2 DEF TickInv, Budget, BudgetRow
    <3> QED
      BY <3>1, <3>2
  <2>8. TickFailsOnlyOnCancel'
    <3>1. ~clientCanceled(e)
      BY <1>2, <2>4 DEF HandOverRow
    <3>2. \A f \in Executions : clientCanceled(f) => clientCanceled(f)'
      BY <2>5, <3>1 DEF clientCanceled
    <3> QED
      BY <1>1, <3>2 DEF TickInv, TickFailsOnlyOnCancel
  <2>9. StepMoves
    BY <2>3, <2>4, <2>5 DEF StepMoves, RowMoves
  <2>10. Timely
    BY <2>3, <2>5 DEF Timely
  <2> QED
    BY <2>6, <2>7, <2>8, <2>9, <2>10 DEF TickInv, Budget
<1>5. CASE Cancel(e)
  <2> DEFINE q == tryClientCancel(rows[e])
  <2>1. Write(q) /\ isSubmittable(rows[e])
    BY <1>2, <1>5 DEF Cancel, tryClientCancelGuard, isSubmittable, BudgetRow
  <2>2. q \in Row /\ q.id = e /\ q.oz = "null" /\ q.state = "canceled"
    BY <1>2, <2>1, WritesType DEF tryClientCancel, Row, isSubmittable
  <2> HIDE DEF q
  <2>3. rows'[e] = q /\ \A f \in Executions : f # e => rows'[f] = rows[f]
    BY <2>1, <2>2, WriteRows DEF TypeInv
  <2>4. BatchAsListed'
    BY <1>1, <2>1, <2>3, BatchStays DEF TickInv, BatchAsListed, q
  <2>5. ~InFlight(e)
    BY <1>2, <2>1 DEF HandOverRow, isSubmittable
  <2>6. RowMoves(rows[e], rows'[e])
    BY <2>1, <2>2, <2>3 DEF RowMoves, isSubmittable
  <2>7. ~isSubmittable(q) /\ rows[e].state # "canceled"
    BY <2>1, <2>2 DEF isSubmittable
  <2>8. Budget' /\ TickFailsOnlyOnCancel' /\ StepMoves /\ Timely
    BY <1>1, <1>3, <2>2, <2>3, <2>5, <2>6, <2>7, OneRow DEF TickInv
  <2> QED
    BY <2>4, <2>8 DEF TickInv
<1>6. CASE Replay(e)
  <2> DEFINE p == projectRelayerState(relayerTransactions[e], rows[e].receipt, WaitConfirmed)
             q == transitionState(rows[e], p.state, ErrorOf(p.code))
  <2>1. /\ Write(q) /\ canTransitionState(rows[e].state, p.state)
        /\ rows[e].oz = "id" /\ ~isTerminal(rows[e])
    BY <1>2, <1>6 DEF Replay, HandOverRow
  <2>2. relayerTransactions[e] \in OzView /\ rows[e].receipt \in Receipt
    BY <1>2 DEF TypeInv, OutsideType, Row
  <2>3. /\ p.state \in {"pending", "submitted", "succeeded", "reverted", "failed",
                        "canceled", "expired"}
        /\ p.state \in RelayExecutionState /\ p.code \in ErrorCode
    BY <2>2, Constants, ProjectionType, ProjectionReports DEF OzView
  <2> HIDE DEF p
  <2>4. q \in Row /\ q.id = e /\ q.oz = "id" /\ q.state = p.state
    BY <1>2, <2>1, <2>3, WritesType DEF transitionState, Row
  <2> HIDE DEF q
  <2>5. rows'[e] = q /\ \A f \in Executions : f # e => rows'[f] = rows[f]
    BY <1>2, <2>1, <2>4, WriteRows DEF TypeInv
  <2>6. rows[e].state \in {"pending", "submitted"}
    <3>1. rows[e].state # "absent"
      BY <1>2, <2>1 DEF HandOverRow
    <3> QED
      BY <1>2, <2>1, <3>1 DEF BudgetRow, isTerminal, Row, RelayExecutionState, TerminalState
  <2>7. RowMoves(rows[e], rows'[e])
    BY <2>1, <2>3, <2>4, <2>5, <2>6 DEF RowMoves, canTransitionState
  <2>8. BatchAsListed'
    BY <1>1, <2>1, <2>5, BatchStays DEF TickInv, BatchAsListed
  <2>9. ~InFlight(e)
    BY <1>2, <2>1 DEF HandOverRow
  <2>10. ~isSubmittable(q) /\ q.state \notin {"absent", "awaiting_authorization"}
    BY <2>3, <2>4 DEF isSubmittable
  <2>11. Budget' /\ TickFailsOnlyOnCancel' /\ StepMoves /\ Timely
    BY <1>1, <1>3, <2>1, <2>4, <2>5, <2>7, <2>9, <2>10, OneRow DEF TickInv
  <2> QED
    BY <2>8, <2>11 DEF TickInv
<1> QED
  BY <1>4, <1>5, <1>6 DEF Api

-----------------------------------------------------------------------------
(* A step of the specification.                                            *)

\* A listing in a strict order names no execution twice.
LEMMA ListingDistinct ==
    ASSUME TableType, NEW S \in SUBSET Executions, NEW before, NEW limit,
           NEW s \in FirstOf(S, before, limit),
           \A e \in Executions : <<e, e>> \notin before
    PROVE  \A i, j \in 1..Len(Snapshots(s)) : Snapshots(s)[i].id = Snapshots(s)[j].id => i = j
<1> DEFINE chosen == { e \in S : Cardinality({ f \in S : <<f, e>> \in before }) < limit }
<1>1. Cardinality(chosen) \in Nat
  <2>1. IsFiniteSet(Executions)
    BY FS_Interval, Constants DEF Executions
  <2>2. IsFiniteSet(chosen)
    BY <2>1, FS_Subset
  <2> QED
    BY <2>2, FS_CardinalityType
<1>2. /\ s \in [1..Cardinality(chosen) -> chosen]
      /\ \A i, j \in 1..Cardinality(chosen) : i < j => <<s[i], s[j]>> \in before
  BY DEF FirstOf
<1>3. /\ DOMAIN Snapshots(s) = 1..Cardinality(chosen)
      /\ \A i \in 1..Cardinality(chosen) : Snapshots(s)[i] = rows[s[i]]
  BY <1>2 DEF Snapshots
<1>4. Snapshots(s) \in Seq(Row)
  BY ListingType DEF TableType
<1>5. Len(Snapshots(s)) = Cardinality(chosen)
  <2>1. ASSUME NEW n \in Nat, NEW t \in Seq(Row), DOMAIN t = 1..n  PROVE Len(t) = n
    BY <2>1
  <2> HIDE DEF chosen
  <2> QED
    BY <1>1, <1>3, <1>4, <2>1
<1>6. \A i \in 1..Cardinality(chosen) : s[i] \in Executions /\ Snapshots(s)[i].id = s[i]
  BY <1>2, <1>3 DEF TableType
<1>7. ASSUME NEW i \in 1..Cardinality(chosen), NEW j \in 1..Cardinality(chosen), s[i] = s[j]
      PROVE  i = j
  <2> HIDE DEF chosen
  <2>1. ~(i < j) /\ ~(j < i)
    BY <1>2, <1>6, <1>7
  <2> QED
    BY <1>1, <2>1
<1> HIDE DEF chosen
<1> QED
  BY <1>5, <1>6, <1>7

\* A tick lists each row once, and as it is in the table.
LEMMA TickStartTick ==
    ASSUME TypeInv, Rows, TickInv, TickStart
    PROVE  TickInv' /\ StepMoves /\ Timely
<1> DEFINE S == {e \in Executions : isSubmittable(rows[e])}
<1>1. PICK s \in FirstOf(S, createdBefore, BatchSize) : batch' = Snapshots(s)
  BY DEF TickStart
<1>2. UNCHANGED <<rows, calls, tickFailed>> /\ LossesGrow /\ pc' = "submit"
  BY DEF TickStart, store, history, LossesGrow
<1>3. S \in SUBSET Executions /\ TableType
  BY DEF TypeInv
<1>4. \A e \in Executions : <<e, e>> \notin createdBefore
  <2>1. \A e \in Executions : ~(e < e)
    BY Constants DEF Executions
  <2> QED
    BY <2>1 DEF createdBefore
<1>5. \A e \in S : isSubmittable(rows[e]) /\ rows[e].id = e
  BY DEF TypeInv, TableType
<1> HIDE DEF S
<1>6. /\ batch' \in Seq(Row)
      /\ \A i \in DOMAIN batch' : \E e \in S : batch'[i] = rows[e]
  BY <1>1, <1>3, ListingType DEF TableType
<1>7. \A i, j \in 1..Len(batch') : batch'[i].id = batch'[j].id => i = j
  BY <1>1, <1>3, <1>4, ListingDistinct
<1>8. \A i \in 1..Len(batch') : isSubmittable(batch'[i]) /\ rows'[batch'[i].id] = batch'[i]
  <2>1. DOMAIN batch' = 1..Len(batch')
    BY <1>6
  <2> QED
    BY <1>2, <1>5, <1>6, <2>1
<1>9. BatchAsListed'
  BY <1>2, <1>7, <1>8 DEF BatchAsListed
<1>10. Budget' /\ TickFailsOnlyOnCancel' /\ StepMoves /\ Timely
  BY <1>2, NoRow DEF TickInv
<1> QED
  BY <1>9, <1>10 DEF TickInv

\* A statement that throws before the claim fails the row, which is as it was listed.
LEMMA SubmitThrowsTick ==
    ASSUME TypeInv, Rows, TickInv, SubmitThrows
    PROVE  TickInv' /\ StepMoves /\ Timely
<1>1. pc \in SubmitPhase \ {"submitting"} /\ batch # <<>>
  <2>1. pc \in Awaiting => batch # <<>>
    BY DEF TypeInv, TickType
  <2> QED
    BY <2>1 DEF SubmitThrows, Awaiting, Suspended, SubmitPhase
<1>2. /\ isSubmittable(snapshot) /\ snapshot \in Row
      /\ cur \in Executions /\ current \in Row /\ current.id = cur /\ current = rows[cur]
      /\ current = snapshot \/ current = tryClientCancel(snapshot)
  BY <1>1, CurrentAsListed, CurrentType DEF TickInv, current
<1>3. isSubmittable(current)
  <2>1. tryClientCancel(snapshot).state = "canceled"
    BY <1>2 DEF tryClientCancel, Row
  <2>2. current.state # "canceled"
    BY TerminalAllowsNothing DEF SubmitThrows, canTransitionState, TerminalState
  <2> QED
    BY <1>2, <2>1, <2>2
<1>4. /\ failItem(current) \in Row /\ failItem(current).id = cur
      /\ failItem(current).state = "failed" /\ failItem(current).oz = "null"
  BY <1>2, <1>3, FailItemType DEF isSubmittable
<1>5. /\ Write(failItem(current)) /\ Continue("submit") /\ Throws
      /\ UNCHANGED <<calls, tickFailed, crashes>>
  BY DEF SubmitThrows
<1>6. rows'[cur] = failItem(current) /\ \A f \in Executions : f # cur => rows'[f] = rows[f]
  BY <1>4, <1>5, WriteRows DEF TypeInv
<1>7. LossesGrow
  BY <1>5, ThrowsLoses
<1>8. \A f \in Executions : ~InFlight(f)'
  BY <1>5 DEF InFlight, Continue
<1>9. BatchAsListed'
  BY <1>1, <1>5, <1>6, BatchGoesOn DEF TickInv, Continue
<1>10. RowMoves(rows[cur], rows'[cur])
  BY <1>2, <1>3, <1>4, <1>6 DEF RowMoves, isSubmittable
<1>11. /\ ~isSubmittable(rows'[cur]) /\ rows'[cur].oz = "null" /\ rows[cur].state = "pending"
       /\ rows'[cur].state \notin {"absent", "awaiting_authorization"}
  BY <1>2, <1>3, <1>4, <1>6 DEF isSubmittable
<1>12. Budget' /\ TickFailsOnlyOnCancel' /\ StepMoves /\ Timely
  BY <1>2, <1>5, <1>6, <1>7, <1>8, <1>10, <1>11, OneRow DEF TickInv
<1> QED
  BY <1>9, <1>12 DEF TickInv

\* An exception that leaves the tick leaves the rows as they are.
LEMMA TickThrowsTick ==
    ASSUME TypeInv, Rows, TickInv, TickThrows
    PROVE  TickInv' /\ StepMoves /\ Timely
<1>1. /\ UNCHANGED <<rows, calls>> /\ pc' = "idle"
      /\ LossesGrow /\ faults' > 0
  BY ThrowsLoses DEF TickThrows, AbortTick, store
<1>2. BatchAsListed'
  BY <1>1 DEF BatchAsListed, SubmitPhase
<1>3. Budget' /\ TickFailsOnlyOnCancel' /\ StepMoves /\ Timely
  BY <1>1, NoRow DEF TickInv
<1> QED
  BY <1>2, <1>3 DEF TickInv

\* The steps of the submission keep the batch as it was listed, and the budget.
LEMMA SubmitPhaseTick ==
    ASSUME TypeInv, Rows, TickInv,
           \/ SubmitNext \/ RelayerLoaded \/ Permit2Loaded \/ Permit2Unavailable
           \/ PreflightOk \/ PreflightReverts \/ PreflightUnavailable
           \/ \E kind \in ErrorKinds : RelayerUnavailable(kind)
    PROVE  TickInv' /\ StepMoves /\ Timely
<1>1. pc \in SubmitPhase \ {"submitting"} /\ batch # <<>>
  <2>1. pc \in Awaiting => batch # <<>>
    BY DEF TypeInv, TickType
  <2> QED
    BY <2>1 DEF SubmitNext, RelayerLoaded, Permit2Loaded, Permit2Unavailable, PreflightOk,
         PreflightReverts, PreflightUnavailable, RelayerUnavailable, Awaiting, Suspended,
         SubmitPhase
<1>2. pc = "witness" => snapshot.kind = "clearMacroPermit2V1" /\ snapshot.force
  BY <1>1 DEF TickInv, BatchAsListed
<1> DEFINE Claims ==
             /\ ClaimAndSubmit
             /\ ~expired[cur] \/ (snapshot.kind = "clearMacroPermit2V1" /\ snapshot.force)
           Moves ==
             /\ pc' \in {"relayer", "permit2", "preflight", "witness"}
             /\ pc' = "witness" => snapshot.kind = "clearMacroPermit2V1" /\ snapshot.force
             /\ UNCHANGED <<store, batch, reply, backoff, outside, history>>
           Settles ==
             \E to \in {"failed", "rejected", "expired"},
                code \in {"CHAIN_NOT_ALLOWED", "INTERNAL_INVARIANT", "PREFLIGHT_REVERTED",
                          "CLEAR_MACRO_EXPIRED"} :
               Settle(current, to, code) /\ UNCHANGED outside
<1>3. CheckExpiryAndSubmit => Claims \/ Moves \/ Settles
  BY DEF CheckExpiryAndSubmit
<1>4. Skip \/ Claims \/ Moves \/ Settles
  <2>1. CASE SubmitNext
    BY <2>1 DEF SubmitNext
  <2>2. CASE RelayerLoaded
    <3>1. CheckExpiryAndSubmit \/ Moves
      <4> HIDE DEF Claims, Settles
      <4> QED
        BY <2>2 DEF RelayerLoaded
    <3> QED
      BY <1>3, <3>1
  <2>3. CASE Permit2Loaded
    BY <1>2, <2>3 DEF Permit2Loaded
  <2>4. CASE Permit2Unavailable \/ PreflightUnavailable
    BY <2>4 DEF Permit2Unavailable, PreflightUnavailable
  <2>5. CASE PreflightOk
    BY <1>3, <2>5 DEF PreflightOk
  <2>6. CASE PreflightReverts
    BY <2>6 DEF PreflightReverts
  <2>7. ASSUME NEW kind \in ErrorKinds, RelayerUnavailable(kind)
        PROVE  Skip \/ Settles
    BY <2>7 DEF RelayerUnavailable
  <2> HIDE DEF Claims, Moves, Settles
  <2> QED
    BY <2>1, <2>2, <2>3, <2>4, <2>5, <2>6, <2>7
<1>5. CASE Skip
  BY <1>1, <1>5, MoveTick DEF Skip, Continue
<1>6. CASE Claims
  BY <1>1, <1>6, ClaimAndSubmitTick
<1>7. CASE Moves
  BY <1>1, <1>7, MoveTick
<1>8. CASE Settles
  <2>1. PICK to \in {"failed", "rejected", "expired"},
             code \in {"CHAIN_NOT_ALLOWED", "INTERNAL_INVARIANT", "PREFLIGHT_REVERTED",
                       "CLEAR_MACRO_EXPIRED"} :
          Settle(current, to, code) /\ UNCHANGED outside
    BY <1>8
  <2>2. code \in ErrorCode
    BY DEF ErrorCode
  <2> QED
    BY <1>1, <2>1, <2>2, SettleTick
<1> QED
  BY <1>4, <1>5, <1>6, <1>7, <1>8

\* The relayer, the clock and a crash change no row; a crash may lose the count of one call.
LEMMA OutsideTick ==
    ASSUME TypeInv, Rows, TickInv, Outside
    PROVE  TickInv' /\ StepMoves /\ Timely
<1>1. UNCHANGED <<rows, calls, tickFailed>>
  BY DEF Outside, OzAccepts, BackoffElapses, Crash, OzAcceptsStray, OzAdvances, Expire,
         store, history
<1>2. /\ UNCHANGED <<pc, batch>> \/ pc' = "idle"
      /\ LossesGrow
  BY DEF LossesGrow, Outside, OzAccepts, BackoffElapses, Crash, Restart, OzAcceptsStray, OzAdvances,
         Expire, history
<1>3. Budget' /\ TickFailsOnlyOnCancel' /\ StepMoves /\ Timely
  BY <1>1, <1>2, NoRow DEF TickInv
<1>4. BatchAsListed'
  <2>1. CASE UNCHANGED <<pc, batch>>
    BY <1>1, <2>1, BatchStays DEF TickInv, BatchAsListed
  <2>2. CASE pc' = "idle"
    BY <2>2 DEF BatchAsListed, SubmitPhase
  <2> QED
    BY <1>2, <2>1, <2>2
<1> QED
  BY <1>3, <1>4 DEF TickInv

\* The polling makes no call.
LEMMA PollPhaseTick ==
    ASSUME TypeInv, Rows, PollBatch, TickInv,
           \/ PollStart \/ PollNext \/ ReceiptLoaded \/ ReceiptUnavailable
           \/ \E kind \in ErrorKinds : TransactionUnavailable(kind)
           \/ \E withReceipt \in BOOLEAN : TransactionLoaded(withReceipt)
    PROVE  TickInv' /\ StepMoves /\ Timely
<1>1. ASSUME pc' \notin SubmitPhase, UNCHANGED <<store, outside, history>>
      PROVE  TickInv' /\ StepMoves /\ Timely
  BY <1>1, MoveTick DEF SubmitPhase
<1>2. ASSUME pc \in {"transaction", "receipt"}, NEW view \in OzView, NEW receipt \in Receipt,
             ProjectTransaction(view, receipt)
      PROVE  TickInv' /\ StepMoves /\ Timely
  <2>1. batch # <<>> /\ current.oz = "id"
    BY <1>2, PolledRow
  <2> QED
    BY <1>2, <2>1, ProjectTransactionTick
<1>3. CASE PollStart \/ PollNext
  BY <1>1, <1>3 DEF PollStart, PollNext, SubmitPhase
<1>4. ASSUME NEW kind \in ErrorKinds, TransactionUnavailable(kind)
      PROVE  TickInv' /\ StepMoves /\ Timely
  BY <1>1, <1>4 DEF TransactionUnavailable, Continue, SubmitPhase
<1>5. CASE ReceiptLoaded \/ ReceiptUnavailable
  <2>1. reply.view \in OzView /\ reply.view.outcome \in Receipt /\ "none" \in Receipt
    BY DEF TypeInv, TickType, Reply, OzView, Receipt
  <2> QED
    BY <1>2, <1>5, <2>1 DEF ReceiptLoaded, ReceiptUnavailable
<1>6. ASSUME NEW withReceipt \in BOOLEAN, TransactionLoaded(withReceipt)
      PROVE  TickInv' /\ StepMoves /\ Timely
  <2>1. pc = "transaction" /\ cur \in Executions
    BY <1>6, PolledRow, CurrentType DEF TransactionLoaded
  <2>2. tx[cur] \in OzView /\ tx[cur].outcome \in Receipt /\ "none" \in Receipt
    BY <2>1 DEF TypeInv, OutsideType, OzView, Receipt
  <2>3. \/ pc' = "receipt" /\ UNCHANGED <<store, outside, history>>
        \/ ProjectTransaction(tx[cur], IF withReceipt THEN tx[cur].outcome ELSE "none")
    BY <1>6 DEF TransactionLoaded
  <2> QED
    BY <1>1, <1>2, <2>1, <2>2, <2>3 DEF SubmitPhase
<1> QED
  BY <1>3, <1>4, <1>5, <1>6

\* An empty table has seen no call.
LEMMA TickInit == Init => TickInv
<1> SUFFICES ASSUME Init PROVE TickInv
  OBVIOUS
<1>1. BatchAsListed
  BY DEF Init, BatchAsListed, SubmitPhase
<1>2. Budget
  <2>1. RetryCount \in Nat
    BY Constants
  <2> QED
    BY <2>1 DEF Init, Budget, BudgetRow, Losses, isSubmittable, InFlight, AbsentRow
<1>3. TickFailsOnlyOnCancel
  BY DEF Init, TickFailsOnlyOnCancel
<1> QED
  BY <1>1, <1>2, <1>3 DEF TickInv

\* Every step keeps the invariant, moves at most one row, and claims in time.
LEMMA TickStep ==
    ASSUME TypeInv, HandOverInv, TickInv, [Next]_vars
    PROVE  TickInv' /\ StepMoves /\ Timely
<1>1. Rows /\ PollBatch
  BY HandOverParts
<1>2. CASE UNCHANGED vars
  <2>1. UNCHANGED <<rows, calls, tickFailed, pc, batch>> /\ LossesGrow
    BY <1>2 DEF vars, LossesGrow
  <2>2. Budget' /\ TickFailsOnlyOnCancel' /\ StepMoves /\ Timely
    BY <1>1, <2>1, NoRow DEF TickInv
  <2>3. BatchAsListed'
    BY <2>1, BatchStays DEF TickInv, BatchAsListed
  <2> QED
    BY <2>2, <2>3 DEF TickInv
<1>3. CASE Worker
  <2>1. CASE \/ SubmitNext \/ RelayerLoaded \/ Permit2Loaded \/ Permit2Unavailable
             \/ PreflightOk \/ PreflightReverts \/ PreflightUnavailable
             \/ \E kind \in ErrorKinds : RelayerUnavailable(kind)
    BY <1>1, <2>1, SubmitPhaseTick
  <2>2. CASE SubmitRefused \/ SubmitTimesOut
    <3>1. PICK kind \in ErrorKinds, left \in {0, 1} : SubmitFailed(kind, left)
      BY <2>2 DEF SubmitRefused, SubmitTimesOut
    <3> QED
      BY <1>1, <3>1, SubmitFailedTick
  <2> QED
    BY <1>1, <1>3, <2>1, <2>2, TickStartTick, SubmitAcceptedTick, PollPhaseTick,
       SubmitThrowsTick, TickThrowsTick DEF Worker
<1>4. CASE Outside
  BY <1>1, <1>4, OutsideTick
<1>5. CASE \E e \in Executions : Api(e)
  BY <1>1, <1>5, ApiTick
<1> QED
  BY <1>2, <1>3, <1>4, <1>5 DEF Next

\* The inductive invariant of the tick holds in every reachable state.
THEOREM TickIsExact == Spec => [](TypeInv /\ HandOverInv /\ TickInv)
<1>1. Init => TypeInv /\ HandOverInv /\ TickInv
  BY TypeInit, HandOverInit, TickInit
<1>2. TypeInv /\ HandOverInv /\ TickInv /\ [Next]_vars => (TypeInv /\ HandOverInv /\ TickInv)'
  BY TypeStep, HandOverStep, TickStep
<1> QED
  BY <1>1, <1>2, PTL DEF Spec

\* However the ticks, the failures and the crashes fall, the worker calls submitTransaction
\* for an execution at most submitRetryCount times, and once more for each crash and for each
\* statement that throws.
THEOREM CallsAreBounded == Spec => []SubmitBudget
<1>1. TypeInv /\ TickInv => SubmitBudget
  <2>1. TypeInv => crashes \in Nat /\ faults \in Nat /\ RetryCount \in Nat
    BY Constants DEF TypeInv, HistoryType
  <2>2. TypeInv => RetryCount + crashes + faults = RetryCount + Losses
    BY <2>1 DEF Losses
  <2> QED
    BY <2>2 DEF TickInv, Budget, BudgetRow, SubmitBudget
<1> QED
  BY <1>1, TickIsExact, PTL

\* But for a statement that throws, no exception ends a tick other than that of a row its
\* client has canceled.
THEOREM TickSurvivesFailures == Spec => []TickFailsOnlyOnCancel
<1>1. TickInv => TickFailsOnlyOnCancel
  BY DEF TickInv
<1> QED
  BY <1>1, TickIsExact, PTL

\* No row is claimed after its window, forced Permit2 rows apart.
THEOREM ClaimsAreTimely == Spec => ClaimIsTimely
<1>1. TypeInv /\ HandOverInv /\ TickInv /\ [Next]_vars =>
        [\A e \in Executions : rows[e].oz = "null" /\ rows'[e].oz = "claim" =>
            \/ ~expired[e]
            \/ rows[e].kind = "clearMacroPermit2V1" /\ rows[e].force]_vars
  BY TickStep DEF Timely
<1> QED
  BY <1>1, TickIsExact, PTL DEF Spec, ClaimIsTimely

-----------------------------------------------------------------------------
(* The refinement of ExecutionPromise.                                     *)

handOf(r) ==
    CASE r.oz = "null"  -> "kept"
      [] r.oz = "claim" -> "offered"
      [] OTHER          -> "accepted"

statusNow == [e \in Executions |-> rows[e].state]
handNow == [e \in Executions |-> handOf(rows[e])]

\* A step that writes one row changes its status and its hand-over in the promise, and
\* no other row's.
LEMMA PromiseVariables ==
    ASSUME TypeInv, TypeInv', NEW e \in Executions,
           \A f \in Executions : f # e => rows'[f] = rows[f]
    PROVE  /\ statusNow' = [statusNow EXCEPT ![e] = rows'[e].state]
           /\ handNow' = [handNow EXCEPT ![e] = handOf(rows'[e])]
           /\ statusNow[e] = rows[e].state /\ handNow[e] = handOf(rows[e])
           /\ rows'[e].state = rows[e].state => statusNow' = statusNow
           /\ rows'[e].oz = rows[e].oz => handNow' = handNow
<1>1. statusNow' = [f \in Executions |-> rows'[f].state]
  BY DEF statusNow
<1>2. handNow' = [f \in Executions |-> handOf(rows'[f])]
  BY DEF handNow, handOf
<1>3. rows'[e].oz = rows[e].oz => handOf(rows'[e]) = handOf(rows[e])
  BY DEF handOf
<1>4. /\ statusNow' = [statusNow EXCEPT ![e] = rows'[e].state]
      /\ rows'[e].state = rows[e].state => statusNow' = statusNow
  BY <1>1 DEF statusNow
<1>5. /\ handNow' = [handNow EXCEPT ![e] = handOf(rows'[e])]
      /\ rows'[e].oz = rows[e].oz => handNow' = handNow
  BY <1>2, <1>3 DEF handNow
<1>6. statusNow[e] = rows[e].state /\ handNow[e] = handOf(rows[e])
  BY DEF statusNow, handNow
<1> QED
  BY <1>4, <1>5, <1>6

\* The actions of ExecutionPromise, spelled out for the status and hand-over of the rows.
LEMMA PromiseOfVariables ==
    ASSUME NEW e \in Executions
    PROVE  /\ Promise!Create(e) <=>
                /\ statusNow[e] = "absent"
                /\ statusNow' = [statusNow EXCEPT ![e] = "pending"]
                /\ handNow' = handNow
           /\ Promise!GiveUp(e) <=>
                /\ statusNow[e] = "pending" /\ handNow[e] = "kept"
                /\ \E end \in {"canceled", "rejected", "failed", "expired"} :
                     statusNow' = [statusNow EXCEPT ![e] = end]
                /\ handNow' = handNow
           /\ Promise!Offer(e) <=>
                /\ statusNow[e] = "pending" /\ handNow[e] = "kept"
                /\ handNow' = [handNow EXCEPT ![e] = "offered"]
                /\ statusNow' = statusNow
           /\ Promise!TakeBack(e) <=>
                /\ statusNow[e] = "pending" /\ handNow[e] = "offered"
                /\ handNow' = [handNow EXCEPT ![e] = "kept"]
                /\ \E s \in {"pending", "failed"} : statusNow' = [statusNow EXCEPT ![e] = s]
           /\ Promise!BreakOff(e) <=>
                /\ statusNow[e] = "pending" /\ handNow[e] = "offered"
                /\ statusNow' = [statusNow EXCEPT ![e] = "failed"]
                /\ \E h \in {"offered", "accepted"} : handNow' = [handNow EXCEPT ![e] = h]
           /\ Promise!HandOver(e) <=>
                /\ statusNow[e] = "pending" /\ handNow[e] = "offered"
                /\ handNow' = [handNow EXCEPT ![e] = "accepted"]
                /\ \E s \in {"pending", "submitted"} : statusNow' = [statusNow EXCEPT ![e] = s]
           /\ Promise!Report(e) <=>
                /\ statusNow[e] \in {"pending", "submitted"} /\ handNow[e] = "accepted"
                /\ \E s \in allowedTransitions[statusNow[e]] \cup allowedTransitions["submitted"] :
                     s # "rejected" /\ statusNow' = [statusNow EXCEPT ![e] = s]
                /\ handNow' = handNow
           /\ Promise!promiseVars = <<statusNow, handNow>>
<1> USE DEF statusNow, handNow, handOf
<1>1. Promise!allowedTransitions = allowedTransitions
  BY DEF allowedTransitions, Promise!allowedTransitions, RelayExecutionState,
         Promise!RelayExecutionState, TerminalState, Promise!TerminalState
<1>2. Promise!promiseVars = <<statusNow, handNow>>
  BY DEF Promise!promiseVars
<1>3. Promise!Create(e) <=>
        /\ statusNow[e] = "absent"
        /\ statusNow' = [statusNow EXCEPT ![e] = "pending"]
        /\ handNow' = handNow
  BY DEF Promise!Create
<1>4. Promise!GiveUp(e) <=>
        /\ statusNow[e] = "pending" /\ handNow[e] = "kept"
        /\ \E end \in {"canceled", "rejected", "failed", "expired"} :
             statusNow' = [statusNow EXCEPT ![e] = end]
        /\ handNow' = handNow
  BY DEF Promise!GiveUp
<1>5. Promise!Offer(e) <=>
        /\ statusNow[e] = "pending" /\ handNow[e] = "kept"
        /\ handNow' = [handNow EXCEPT ![e] = "offered"]
        /\ statusNow' = statusNow
  BY DEF Promise!Offer
<1>6. Promise!TakeBack(e) <=>
        /\ statusNow[e] = "pending" /\ handNow[e] = "offered"
        /\ handNow' = [handNow EXCEPT ![e] = "kept"]
        /\ \E s \in {"pending", "failed"} : statusNow' = [statusNow EXCEPT ![e] = s]
  BY DEF Promise!TakeBack
<1>6a. Promise!BreakOff(e) <=>
        /\ statusNow[e] = "pending" /\ handNow[e] = "offered"
        /\ statusNow' = [statusNow EXCEPT ![e] = "failed"]
        /\ \E h \in {"offered", "accepted"} : handNow' = [handNow EXCEPT ![e] = h]
  BY DEF Promise!BreakOff
<1>7. Promise!HandOver(e) <=>
        /\ statusNow[e] = "pending" /\ handNow[e] = "offered"
        /\ handNow' = [handNow EXCEPT ![e] = "accepted"]
        /\ \E s \in {"pending", "submitted"} : statusNow' = [statusNow EXCEPT ![e] = s]
  BY DEF Promise!HandOver
<1>8. Promise!Report(e) <=>
        /\ statusNow[e] \in {"pending", "submitted"} /\ handNow[e] = "accepted"
        /\ \E s \in allowedTransitions[statusNow[e]] \cup allowedTransitions["submitted"] :
             s # "rejected" /\ statusNow' = [statusNow EXCEPT ![e] = s]
        /\ handNow' = handNow
  BY <1>1 DEF Promise!Report
<1> QED
  BY <1>2, <1>3, <1>4, <1>5, <1>6, <1>6a, <1>7, <1>8

\* A step of the worker or the API is a step of the promise, or does not concern it.
LEMMA PromiseStep ==
    ASSUME TypeInv, TypeInv', StepMoves
    PROVE  [Promise!PromiseNext]_(Promise!promiseVars)
<1>1. PICK e \in Executions : /\ RowMoves(rows[e], rows'[e])
                              /\ \A f \in Executions : f # e => rows'[f] = rows[f]
  BY DEF StepMoves
<1>2. /\ statusNow' = [statusNow EXCEPT ![e] = rows'[e].state]
      /\ handNow' = [handNow EXCEPT ![e] = handOf(rows'[e])]
      /\ statusNow[e] = rows[e].state /\ handNow[e] = handOf(rows[e])
      /\ rows'[e].state = rows[e].state => statusNow' = statusNow
      /\ rows'[e].oz = rows[e].oz => handNow' = handNow
  BY <1>1, PromiseVariables
<1>3. /\ handOf(rows[e]) = "kept" <=> rows[e].oz = "null"
      /\ handOf(rows[e]) = "offered" <=> rows[e].oz = "claim"
      /\ rows[e].oz = "id" => handOf(rows[e]) = "accepted"
      /\ rows'[e].oz = "null" => handOf(rows'[e]) = "kept"
      /\ rows'[e].oz = "claim" => handOf(rows'[e]) = "offered"
      /\ rows'[e].oz = "id" => handOf(rows'[e]) = "accepted"
  BY DEF handOf
<1>4. ASSUME \/ Promise!Create(e) \/ Promise!GiveUp(e) \/ Promise!Offer(e)
             \/ Promise!TakeBack(e) \/ Promise!BreakOff(e) \/ Promise!HandOver(e)
             \/ Promise!Report(e)
      PROVE  Promise!PromiseNext
  BY <1>4 DEF Promise!PromiseNext
<1>5. CASE rows'[e].state = rows[e].state /\ rows'[e].oz = rows[e].oz
  <2>1. statusNow' = statusNow /\ handNow' = handNow
    BY <1>2, <1>5
  <2>2. UNCHANGED Promise!promiseVars
    BY <2>1 DEF Promise!promiseVars, statusNow, handNow, handOf
  <2> QED
    BY <2>2
<1>6. CASE rows[e].state = "absent" /\ rows'[e].state = "pending" /\ rows'[e].oz = rows[e].oz
  <2>1. Promise!Create(e)
    BY <1>2, <1>6, PromiseOfVariables
  <2> QED
    BY <1>4, <2>1
<1>7. CASE /\ isSubmittable(rows[e]) /\ rows'[e].oz = rows[e].oz
           /\ rows'[e].state \in {"canceled", "rejected", "failed", "expired"}
  <2>1. Promise!GiveUp(e)
    BY <1>2, <1>3, <1>7, PromiseOfVariables DEF isSubmittable
  <2> QED
    BY <1>4, <2>1
<1>8. CASE isSubmittable(rows[e]) /\ rows'[e].oz = "claim" /\ rows'[e].state = rows[e].state
  <2>1. Promise!Offer(e)
    BY <1>2, <1>3, <1>8, PromiseOfVariables DEF isSubmittable
  <2> QED
    BY <1>4, <2>1
<1>9. CASE /\ rows[e].state = "pending" /\ rows[e].oz = "claim"
           /\ rows'[e].oz = "null" /\ rows'[e].state \in {"pending", "failed"}
  <2>1. Promise!TakeBack(e)
    BY <1>2, <1>3, <1>9, PromiseOfVariables
  <2> QED
    BY <1>4, <2>1
<1>10. CASE /\ rows[e].state = "pending" /\ rows[e].oz = "claim"
            /\ rows'[e].oz = "id" /\ rows'[e].state \in {"pending", "submitted"}
  <2>1. Promise!HandOver(e)
    BY <1>2, <1>3, <1>10, PromiseOfVariables
  <2> QED
    BY <1>4, <2>1
<1>10a. CASE /\ rows[e].state = "pending" /\ rows[e].oz = "claim"
             /\ rows'[e].oz \in {"claim", "id"} /\ rows'[e].state = "failed"
  <2>1. handOf(rows'[e]) \in {"offered", "accepted"}
    BY <1>3, <1>10a
  <2>2. Promise!BreakOff(e)
    BY <1>2, <1>3, <1>10a, <2>1, PromiseOfVariables
  <2> QED
    BY <1>4, <2>2
<1>11. CASE /\ rows[e].state \in {"pending", "submitted"}
            /\ rows[e].oz = "id" /\ rows'[e].oz = "id"
            /\ rows'[e].state \in allowedTransitions[rows[e].state]
                                   \cup allowedTransitions["submitted"]
            /\ rows'[e].state # "rejected"
  <2>1. Promise!Report(e)
    BY <1>2, <1>3, <1>11, PromiseOfVariables
  <2> QED
    BY <1>4, <2>1
<1> QED
  BY <1>1, <1>5, <1>6, <1>7, <1>8, <1>9, <1>10, <1>10a, <1>11
  DEF RowMoves

\* The worker, the API, the relayer, the crashes and the failed writes together do to the
\* executions what ExecutionPromise allows, and nothing else.
THEOREM PromiseIsKept == Spec => KeepsPromise
<1>1. Init => Promise!PromiseInit
  BY DEF Init, Promise!PromiseInit, AbsentRow
<1>2. TypeInv /\ HandOverInv /\ TickInv /\ [Next]_vars
        => [Promise!PromiseNext]_(Promise!promiseVars)
  <2> SUFFICES ASSUME TypeInv, HandOverInv, TickInv, [Next]_vars
               PROVE  [Promise!PromiseNext]_(Promise!promiseVars)
    OBVIOUS
  <2>1. TypeInv' /\ StepMoves
    BY TypeStep, TickStep
  <2> QED
    BY <2>1, PromiseStep
<1> QED
  BY <1>1, <1>2, TickIsExact, PTL DEF Spec, KeepsPromise, Promise!PromiseSpec

=============================================================================
