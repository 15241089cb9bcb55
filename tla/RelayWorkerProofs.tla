--------------------------- MODULE RelayWorkerProofs ---------------------------
(***************************************************************************)
(* Theorems of RelayWorker, for every number of executions, batch size,    *)
(* retry count, number of crashes and of failed writes.                    *)
(***************************************************************************)
EXTENDS RelayWorker, FiniteSetTheorems, TLAPS

-----------------------------------------------------------------------------
(* Lemmas about the operators the actions are built from.                  *)

\* The constants, as the proofs use them.
LEMMA Constants ==
    /\ N \in Nat /\ RetryCount \in Nat \ {0} /\ MaxHash \in Nat \ {0} /\ BatchSize \in Nat
    /\ MaxCrashes \in Nat /\ MaxFaults \in Nat
    /\ Profiles \subseteq Kind \X BOOLEAN /\ ErrorKinds \subseteq ErrorKind
    /\ HashlessRevert \in BOOLEAN /\ WaitConfirmed \in BOOLEAN /\ LoseReplies \in BOOLEAN
BY NAssumption, RetryCountAssumption, MaxHashAssumption, BatchSizeAssumption,
   BoundAssumption, ProfilesAssumption, ErrorKindsAssumption, SwitchAssumption

\* A listing is a sequence of rows of the table.
LEMMA ListingType ==
    ASSUME rows \in [Executions -> Row],
           NEW S \in SUBSET Executions, NEW before, NEW limit,
           NEW s \in FirstOf(S, before, limit)
    PROVE  /\ Snapshots(s) \in Seq(Row)
           /\ \A i \in DOMAIN Snapshots(s) : \E e \in S : Snapshots(s)[i] = rows[e]
<1> DEFINE chosen == { e \in S : Cardinality({ f \in S : <<f, e>> \in before }) < limit }
<1>1. IsFiniteSet(Executions)
  BY FS_Interval, Constants DEF Executions
<1>2. IsFiniteSet(chosen)
  BY <1>1, FS_Subset
<1>3. Cardinality(chosen) \in Nat
  BY <1>2, FS_CardinalityType
<1>4. s \in [1..Cardinality(chosen) -> chosen]
  BY DEF FirstOf
<1>5. DOMAIN Snapshots(s) = 1..Cardinality(chosen)
  BY <1>4 DEF Snapshots
<1>6. \A i \in 1..Cardinality(chosen) :
        Snapshots(s)[i] = rows[s[i]] /\ s[i] \in S /\ rows[s[i]] \in Row
  BY <1>4 DEF Snapshots
<1>7. Snapshots(s) \in [1..Cardinality(chosen) -> Row]
  BY <1>4, <1>6 DEF Snapshots
<1>8. Snapshots(s) \in Seq(Row)
  <2>1. ASSUME NEW n \in Nat, NEW f \in [1..n -> Row]  PROVE  f \in Seq(Row)
    OBVIOUS
  <2> HIDE DEF chosen
  <2> QED
    BY <2>1, <1>3, <1>7
<1>9. ASSUME NEW i \in DOMAIN Snapshots(s)
      PROVE  \E e \in S : Snapshots(s)[i] = rows[e]
  <2>1. s[i] \in S /\ Snapshots(s)[i] = rows[s[i]]
    BY <1>5, <1>6
  <2> QED
    BY <2>1
<1> QED
  BY <1>8, <1>9

\* What the statements write is a row, of the same execution.
LEMMA WritesType ==
    ASSUME NEW r \in Row
    PROVE  /\ tryClientCancel(r) \in Row
           /\ claimForSubmission(r) \in Row
           /\ releaseSubmissionClaim(r) \in Row
           /\ \A to \in RelayExecutionState, code \in ErrorCode :
                transitionState(r, to, ErrorOf(code)) \in Row
           /\ \A receipt \in Receipt, code \in ErrorCode :
                updateMetadata(r, receipt, ErrorOf(code)) \in Row
           /\ \A hash \in 0..MaxHash :
                appendCurrentHashChange(r, hash) \in Row /\ applySubmitAcknowledgement(r, hash) \in Row
<1> USE RetryCountAssumption
<1>1. \A code \in ErrorCode : Coalesce(ErrorOf(code), r.error) \in [code : ErrorCode, attempts : 0..RetryCount]
  BY DEF Coalesce, ErrorOf, Row
<1>2. tryClientCancel(r) \in Row
  <2>1. "canceled" \in RelayExecutionState
    BY DEF RelayExecutionState
  <2>2. ErrorOf("CANCELED_BY_CLIENT") \in [code : ErrorCode, attempts : 0..RetryCount]
    BY DEF ErrorOf, ErrorCode
  <2> QED
    BY <2>1, <2>2 DEF tryClientCancel, Row
<1>3. claimForSubmission(r) \in Row
  BY DEF claimForSubmission, Row
<1>4. releaseSubmissionClaim(r) \in Row
  BY DEF releaseSubmissionClaim, Row
<1>5. \A to \in RelayExecutionState, code \in ErrorCode :
        transitionState(r, to, ErrorOf(code)) \in Row
  BY <1>1 DEF transitionState, Row
<1>6. \A receipt \in Receipt, code \in ErrorCode :
        updateMetadata(r, receipt, ErrorOf(code)) \in Row
  BY <1>1 DEF updateMetadata, Row
<1>7. \A hash \in 0..MaxHash :
        appendCurrentHashChange(r, hash) \in Row /\ applySubmitAcknowledgement(r, hash) \in Row
  BY DEF appendCurrentHashChange, applySubmitAcknowledgement, Row, RelayExecutionState
<1> QED
  BY <1>2, <1>3, <1>4, <1>5, <1>6, <1>7

\* Every view projects to a state and an error code.
LEMMA ProjectionType ==
    ASSUME NEW view \in OzView, NEW receipt \in Receipt, NEW wait \in BOOLEAN
    PROVE  /\ projectRelayerState(view, receipt, wait).state \in RelayExecutionState
           /\ projectRelayerState(view, receipt, wait).code \in ErrorCode
BY DEF projectRelayerState, ByHash, OzView, OzStatus, Receipt, RelayExecutionState, ErrorCode

\* Counting keeps a history variable a count.
LEMMA CountType ==
    ASSUME NEW f \in [Executions -> Nat], NEW e \in Executions
    PROVE  /\ [f EXCEPT ![e] = @ + 1] \in [Executions -> Nat]
           /\ [f EXCEPT ![e] = @ + 1][e] = f[e] + 1
           /\ \A g \in Executions \ {e} : [f EXCEPT ![e] = @ + 1][g] = f[g]
OBVIOUS

\* No view at all is one of the answers a listing may hold.
LEMMA NoViewType == NoView \in OzView
BY Constants DEF NoView, OzView, Receipt

\* The relayer's answers are views.
LEMMA ViewsType ==
    /\ firstViews \subseteq OzView
    /\ \A view \in OzView : nextViews(view) \subseteq OzView
<1> USE MaxHashAssumption
<1>1. firstViews \subseteq OzView
  <2>1. 0 \in 0..MaxHash /\ 1 \in 0..MaxHash
    OBVIOUS
  <2> QED
    BY <2>1 DEF firstViews, NoView, OzView, OzStatus, Receipt
<1>2. ASSUME NEW view \in OzView, NEW next \in nextViews(view)
      PROVE  next \in OzView
  <2>1. HashlessRevert \in BOOLEAN /\ 1 \in 0..MaxHash
    BY SwitchAssumption
  <2>2. /\ \A s \in OzStatus : [view EXCEPT !.status = s] \in OzView
        /\ \A s \in OzStatus, b \in BOOLEAN : [view EXCEPT !.status = s, !.reverts = b] \in OzView
        /\ \A s \in OzStatus, h \in 0..MaxHash : [view EXCEPT !.status = s, !.hash = h] \in OzView
        /\ \A s \in OzStatus, o \in Receipt : [view EXCEPT !.status = s, !.outcome = o] \in OzView
        /\ \A h \in 0..MaxHash : [view EXCEPT !.hash = h] \in OzView
    BY DEF OzView
  <2>3. CASE view.status = "pending"
    <3>1. \/ next = [view EXCEPT !.status = "submitted", !.hash = 1]
          \/ next \in { [view EXCEPT !.status = s] : s \in {"failed", "canceled", "expired"} }
          \/ next \in { [view EXCEPT !.status = "failed", !.reverts = b] : b \in {HashlessRevert} }
      BY <2>3 DEF nextViews
    <3>2. [view EXCEPT !.status = "submitted", !.hash = 1] \in OzView
      BY <2>1, <2>2 DEF OzStatus
    <3>3. CASE next \in { [view EXCEPT !.status = s] : s \in {"failed", "canceled", "expired"} }
      BY <3>3, <2>2 DEF OzStatus
    <3>4. CASE next \in { [view EXCEPT !.status = "failed", !.reverts = b] : b \in {HashlessRevert} }
      BY <3>4, <2>1, <2>2 DEF OzStatus
    <3> QED
      BY <3>1, <3>2, <3>3, <3>4
  <2>4. CASE view.status = "submitted"
    <3>1. \/ next \in { [view EXCEPT !.hash = h] : h \in {view.hash + 1} \cap 1..MaxHash }
          \/ next \in { [view EXCEPT !.status = "mined", !.outcome = o] : o \in {"success", "reverted"} }
          \/ next \in { [view EXCEPT !.status = "failed", !.reverts = b] : b \in BOOLEAN }
          \/ next \in { [view EXCEPT !.status = s] : s \in {"canceled", "expired"} }
      BY <2>4 DEF nextViews
    <3>2. CASE next \in { [view EXCEPT !.hash = h] : h \in {view.hash + 1} \cap 1..MaxHash }
      <4>1. PICK h \in {view.hash + 1} \cap 1..MaxHash : next = [view EXCEPT !.hash = h]
        BY <3>2
      <4>2. h \in 0..MaxHash
        OBVIOUS
      <4> QED
        BY <4>1, <4>2, <2>2
    <3>3. CASE next \in { [view EXCEPT !.status = "mined", !.outcome = o] : o \in {"success", "reverted"} }
      BY <3>3, <2>2 DEF OzStatus, Receipt
    <3>4. CASE next \in { [view EXCEPT !.status = "failed", !.reverts = b] : b \in BOOLEAN }
      BY <3>4, <2>2 DEF OzStatus
    <3>5. CASE next \in { [view EXCEPT !.status = s] : s \in {"canceled", "expired"} }
      BY <3>5, <2>2 DEF OzStatus
    <3> QED
      BY <3>1, <3>2, <3>3, <3>4, <3>5
  <2>5. CASE view.status = "mined"
    BY <2>5 DEF nextViews, OzView, OzStatus, Receipt
  <2>6. CASE view.status \notin {"pending", "submitted", "mined"}
    BY <2>6 DEF nextViews
  <2> QED
    BY <2>3, <2>4, <2>5, <2>6
<1> QED
  BY <1>1, <1>2

-----------------------------------------------------------------------------
(* Type correctness.  An action reads the head of the batch wherever the   *)
(* tick awaits an answer, so what is inductive says that there is one.     *)

Awaiting == Suspended \ {"idle"}

TableType ==
    /\ rows \in [Executions -> Row]
    /\ \A e \in Executions : rows[e].id = e
    /\ updatedBefore \subseteq Executions \X Executions

TickType ==
    /\ pc \in Suspended \cup Running
    /\ batch \in Seq(Row)
    /\ pc \in Awaiting => batch # <<>>
    /\ reply \in Reply
    /\ backoff \in BOOLEAN

OutsideType ==
    /\ relayerTransactions \in [Executions -> OzView]
    /\ tx \in [Executions -> OzView]
    /\ stray \in [Executions -> Nat]
    /\ expired \in [Executions -> BOOLEAN]
    /\ chainOk \in [Executions -> BOOLEAN]

HistoryType ==
    /\ calls \in [Executions -> Nat]
    /\ accepted \in [Executions -> Nat]
    /\ learned \in [Executions -> Nat]
    /\ tickFailed \in BOOLEAN
    /\ crashes \in 0..MaxCrashes
    /\ faults \in 0..MaxFaults

TypeInv == TableType /\ TickType /\ OutsideType /\ HistoryType

\* The grouped types imply those that the runs check.
LEMMA TypeInvIsStronger == TypeInv => TypeOK
BY DEF TypeInv, TableType, TickType, OutsideType, HistoryType, TypeOK

\* The row the tick is at.
LEMMA CurrentType ==
    ASSUME TypeInv, batch # <<>>
    PROVE  /\ snapshot \in Row /\ cur \in Executions
           /\ current \in Row /\ current.id = cur
           /\ Tail(batch) \in Seq(Row)
<1>1. Head(batch) \in Row /\ Tail(batch) \in Seq(Row)
  BY DEF TypeInv, TickType
<1>2. cur \in Executions
  BY <1>1 DEF cur, snapshot, Row
<1> QED
  BY <1>1, <1>2 DEF TypeInv, TableType, snapshot, current

\* What a write leaves in the table.
LEMMA WriteRows ==
    ASSUME TableType, NEW r \in Row, Write(r)
    PROVE  /\ TableType'
           /\ rows'[r.id] = r
           /\ \A e \in Executions : e # r.id => rows'[e] = rows[e]
<1>1. r.id \in Executions
  BY DEF Row
<1>2. rows' = [rows EXCEPT ![r.id] = r] /\ updatedBefore' = touched(r.id)
  BY DEF Write
<1>3. updatedBefore' \subseteq Executions \X Executions
  BY <1>1, <1>2 DEF touched, TableType
<1> QED
  BY <1>1, <1>2, <1>3 DEF TableType

\* Going on with the loop, or leaving the tick, for an item that is done.
LEMMA ContinueType ==
    ASSUME TypeInv, batch # <<>>, NEW loop \in Running, Continue(loop), UNCHANGED backoff
    PROVE  TickType'
<1>1. Tail(batch) \in Seq(Row)
  BY CurrentType
<1>2. NoReply \in Reply
  BY NoViewType DEF NoReply, Reply
<1> QED
  BY <1>1, <1>2 DEF TypeInv, TickType, Continue, Running, Awaiting, Suspended

\* A tick that ends leaves no batch and no answer behind.
LEMMA IdleType ==
    ASSUME TypeInv, pc' = "idle", batch' = <<>>, reply' = NoReply, backoff' \in BOOLEAN
    PROVE  TickType'
<1>1. NoReply \in Reply
  BY NoViewType DEF NoReply, Reply
<1> QED
  BY <1>1 DEF TypeInv, TickType, Awaiting, Suspended

\* A process that restarts has lost its tick, and counts the crash.
LEMMA RestartType ==
    ASSUME TypeInv, Restart
    PROVE  TickType' /\ chainOk' \in [Executions -> BOOLEAN] /\ crashes' \in 0..MaxCrashes
<1>1. TickType'
  BY IdleType DEF Restart
<1>2. chainOk' \in [Executions -> BOOLEAN]
  BY DEF Restart, TypeInv, OutsideType
<1>3. crashes' \in 0..MaxCrashes
  BY Constants DEF Restart, TypeInv, HistoryType
<1> QED
  BY <1>1, <1>2, <1>3

\* A statement that throws counts as a fault.
LEMMA ThrowsType ==
    ASSUME TypeInv, Throws
    PROVE  faults' \in 0..MaxFaults /\ faults' = faults + 1 /\ faults \in Nat
BY Constants DEF Throws, TypeInv, HistoryType

\* The row as the catch around the submit loop's body ends it.
LEMMA FailItemType ==
    ASSUME NEW r \in Row
    PROVE  /\ failItem(r) \in Row
           /\ failItem(r).id = r.id
           /\ failItem(r).oz = r.oz
           /\ failItem(r).hash = r.hash
           /\ failItem(r).state = "failed"
           /\ failItem(r).error = ErrorOf("INTERNAL_INVARIANT")
           /\ failItem(r).receipt = r.receipt
           /\ failItem(r).kind = r.kind /\ failItem(r).force = r.force
<1>1. failItem(r) \in Row
  BY WritesType DEF failItem, RelayExecutionState, ErrorCode
<1>2. Coalesce(ErrorOf("INTERNAL_INVARIANT"), r.error) = ErrorOf("INTERNAL_INVARIANT")
  BY DEF Coalesce, ErrorOf
<1> QED
  BY <1>1, <1>2 DEF failItem, transitionState, Row

\* A statement before the claim that throws ends the item.
LEMMA SubmitThrowsType ==
    ASSUME TypeInv, SubmitThrows, batch # <<>>
    PROVE  TypeInv'
<1>1. TableType'
  BY CurrentType, FailItemType, WriteRows DEF SubmitThrows, TypeInv
<1>2. TickType'
  BY ContinueType DEF SubmitThrows, Running
<1>3. OutsideType'
  BY DEF SubmitThrows, outside, TypeInv, OutsideType
<1>4. HistoryType'
  BY ThrowsType DEF SubmitThrows, TypeInv, HistoryType
<1> QED
  BY <1>1, <1>2, <1>3, <1>4 DEF TypeInv

\* An exception that leaves the tick writes nothing.
LEMMA TickThrowsType ==
    ASSUME TypeInv, TickThrows
    PROVE  TypeInv'
<1>1. TableType'
  BY DEF TickThrows, store, TypeInv, TableType
<1>2. TickType'
  BY IdleType DEF TickThrows, AbortTick, TypeInv, TickType
<1>3. OutsideType'
  BY DEF TickThrows, store, outside, TypeInv, OutsideType
<1>4. HistoryType'
  BY ThrowsType DEF TickThrows, AbortTick, TypeInv, HistoryType
<1> QED
  BY <1>1, <1>2, <1>3, <1>4 DEF TypeInv

\* Ending an item keeps the types, whatever the state and the code.
LEMMA SettleType ==
    ASSUME TypeInv, batch # <<>>, NEW to \in RelayExecutionState, NEW code \in ErrorCode,
           Settle(current, to, code), UNCHANGED outside
    PROVE  TypeInv'
<1>1. current \in Row
  BY CurrentType
<1>2. /\ transitionState(current, to, ErrorOf(code)) \in Row
      /\ transitionState(current, "failed", ErrorOf("INTERNAL_INVARIANT")) \in Row
  BY <1>1, WritesType DEF RelayExecutionState, ErrorCode
<1>3. TableType'
  BY <1>2, WriteRows DEF Settle, TypeInv, TableType
<1>4. TickType'
  BY ContinueType, IdleType DEF Settle, AbortTick, Running, TypeInv, TickType
<1>5. OutsideType'
  BY DEF Settle, outside, TypeInv, OutsideType
<1>6. HistoryType'
  BY DEF Settle, AbortTick, TypeInv, HistoryType
<1> QED
  BY <1>3, <1>4, <1>5, <1>6 DEF TypeInv

\* An item that is skipped changes no row.
LEMMA SkipType ==
    ASSUME TypeInv, batch # <<>>, Skip
    PROVE  TypeInv'
<1>1. TickType'
  BY ContinueType DEF Skip, Running
<1> QED
  BY <1>1 DEF Skip, store, outside, history, TypeInv, TableType, OutsideType, HistoryType

\* claimForSubmission writes a row and sends the call, or finds the row changed.
LEMMA ClaimAndSubmitType ==
    ASSUME TypeInv, batch # <<>>, ClaimAndSubmit
    PROVE  TypeInv'
<1>1. CASE claimGuard(current)
  <2>1. Write(claimForSubmission(current))
    BY <1>1 DEF ClaimAndSubmit
  <2>2. TableType'
    BY <2>1, CurrentType, WritesType, WriteRows DEF TypeInv
  <2>3. pc' = "submitting" /\ UNCHANGED <<batch, reply, backoff>>
    BY <1>1 DEF ClaimAndSubmit
  <2>4. TickType'
    BY <2>3 DEF TypeInv, TickType, Suspended
  <2>5. OutsideType'
    BY <1>1 DEF ClaimAndSubmit, outside, TypeInv, OutsideType
  <2>6. HistoryType'
    BY <1>1 DEF ClaimAndSubmit, TypeInv, HistoryType
  <2> QED
    BY <2>2, <2>4, <2>5, <2>6 DEF TypeInv
<1>2. CASE ~claimGuard(current)
  BY <1>2, SkipType DEF ClaimAndSubmit
<1> QED
  BY <1>1, <1>2

\* After the preflight: the row expires, is claimed, or its witness is read first.
LEMMA CheckExpiryAndSubmitType ==
    ASSUME TypeInv, batch # <<>>, CheckExpiryAndSubmit
    PROVE  TypeInv'
<1>1. CASE Settle(current, "expired", "CLEAR_MACRO_EXPIRED") /\ UNCHANGED outside
  BY <1>1, SettleType DEF RelayExecutionState, ErrorCode
<1>2. CASE pc' = "witness" /\ UNCHANGED <<store, batch, reply, backoff, outside, history>>
  BY <1>2 DEF store, outside, history, Suspended,
              TypeInv, TableType, TickType, OutsideType, HistoryType
<1>3. CASE ClaimAndSubmit
  BY <1>3, ClaimAndSubmitType
<1> QED
  BY <1>1, <1>2, <1>3 DEF CheckExpiryAndSubmit

\* The row after a failed submission counts no attempt beyond the budget.
LEMMA AfterSubmitFailureType ==
    ASSUME NEW r \in Row, snapshot \in Row, NEW kind
    PROVE  afterSubmitFailure(r, kind) \in Row
<1>1. snapshot.error.attempts \in 0..RetryCount
  BY DEF Row
<1>2. CASE isTransientSubmitError(kind) /\ snapshot.error.attempts + 1 < RetryCount
  <2>1. [code |-> "RELAYER_SUBMIT_ERROR", attempts |-> snapshot.error.attempts + 1]
          \in [code : ErrorCode, attempts : 0..RetryCount]
    BY <1>1, <1>2, Constants DEF ErrorCode
  <2> QED
    BY <1>2, <2>1 DEF afterSubmitFailure, updateLastError, Row
<1>3. CASE ~(isTransientSubmitError(kind) /\ snapshot.error.attempts + 1 < RetryCount)
  <2>1. transitionState(r, "failed", ErrorOf("RELAYER_SUBMIT_FAILED")) \in Row
    BY WritesType DEF RelayExecutionState, ErrorCode
  <2> QED
    BY <1>3, <2>1 DEF afterSubmitFailure
<1> QED
  BY <1>2, <1>3

\* A submission that failed releases the claim and counts the attempt.
LEMMA SubmitFailedType ==
    ASSUME TypeInv, batch # <<>>, NEW kind, NEW left \in Nat, SubmitFailed(kind, left)
    PROVE  TypeInv'
<1> DEFINE released == releaseSubmissionClaim(current)
<1>1. released \in Row /\ afterSubmitFailure(released, kind) \in Row
  BY CurrentType, WritesType, AfterSubmitFailureType
<1>2. TableType'
  <2>1. \/ Write(afterSubmitFailure(released, kind)) \/ Write(released)
        \/ Write(failItem(current)) \/ Write(failItem(released))
        \/ UNCHANGED <<rows, updatedBefore>>
    BY DEF SubmitFailed
  <2>2. failItem(current) \in Row /\ failItem(released) \in Row
    BY <1>1, CurrentType, FailItemType
  <2> QED
    BY <1>1, <2>1, <2>2, WriteRows DEF TypeInv, TableType
<1>3. TickType' /\ chainOk' \in [Executions -> BOOLEAN] /\ crashes' \in 0..MaxCrashes
  <2>1. \/ Continue("submit") /\ UNCHANGED <<backoff, chainOk, crashes>>
        \/ AbortTick /\ UNCHANGED <<backoff, chainOk, crashes>>
        \/ Restart
    BY DEF SubmitFailed
  <2>2. ASSUME AbortTick, UNCHANGED backoff
        PROVE  TickType'
    BY <2>2, IdleType DEF AbortTick, TypeInv, TickType
  <2> QED
    BY <2>1, <2>2, ContinueType, RestartType DEF Running, TypeInv, OutsideType, HistoryType
<1>4. OutsideType'
  <2>1. tx' \in [Executions -> OzView] /\ stray' \in [Executions -> Nat]
    BY NoViewType, CurrentType DEF SubmitFailed, TypeInv, OutsideType
  <2> QED
    BY <1>3, <2>1 DEF SubmitFailed, TypeInv, OutsideType
<1>5. HistoryType'
  <2>1. tickFailed' \in BOOLEAN /\ faults' \in 0..MaxFaults
    BY ThrowsType DEF SubmitFailed, AbortTick, TypeInv, HistoryType
  <2> QED
    BY <1>3, <2>1 DEF SubmitFailed, TypeInv, HistoryType
<1> QED
  BY <1>2, <1>3, <1>4, <1>5 DEF TypeInv

\* A submission that was answered stores the id and the relayer's transaction.
LEMMA SubmitAcceptedType ==
    ASSUME TypeInv, SubmitAccepted
    PROVE  TypeInv'
<1> DEFINE acknowledged == applySubmitAcknowledgement(current, reply.view.hash)
           stored == [relayerTransactions EXCEPT ![cur] = reply.view]
<1>1. batch # <<>>
  BY DEF SubmitAccepted, TypeInv, TickType, Awaiting, Suspended
<1>2. reply.view \in OzView /\ reply.view.hash \in 0..MaxHash
  BY DEF TypeInv, TickType, Reply, OzView
<1>3. acknowledged \in Row
  BY <1>1, <1>2, CurrentType, WritesType
<1>4. /\ stored \in [Executions -> OzView]
      /\ learned' \in [Executions -> Nat]
      /\ UNCHANGED <<tx, stray, expired, calls, accepted, tickFailed>>
  <2>1. stored \in [Executions -> OzView]
    BY <1>2 DEF TypeInv, OutsideType
  <2>2. learned \in [Executions -> Nat] /\ learned' = [learned EXCEPT ![cur] = @ + 1]
    BY DEF SubmitAccepted, TypeInv, HistoryType
  <2>3. learned' \in [Executions -> Nat]
    BY <1>1, <2>2, CurrentType, CountType
  <2> QED
    BY <2>1, <2>3 DEF SubmitAccepted
<1>5. CASE /\ Write(acknowledged)
           /\ relayerTransactions' = stored
           /\ Continue("submit")
           /\ UNCHANGED <<backoff, chainOk, crashes, faults>>
  <2>1. TableType' /\ TickType'
    BY <1>1, <1>3, <1>5, WriteRows, ContinueType DEF TypeInv, Running
  <2> QED
    BY <1>4, <1>5, <2>1 DEF TypeInv, OutsideType, HistoryType
<1>6. CASE /\ Throws
           /\ \/ /\ UNCHANGED <<rows, updatedBefore>> \/ Write(failItem(current))
                 /\ UNCHANGED relayerTransactions
              \/ /\ Write(acknowledged) \/ Write(failItem(acknowledged))
                 /\ relayerTransactions' \in {relayerTransactions, stored}
           /\ Continue("submit")
           /\ UNCHANGED <<backoff, chainOk, crashes>>
  <2>1. TickType'
    BY <1>1, <1>6, ContinueType DEF Running
  <2>2. TableType'
    <3>1. failItem(current) \in Row /\ failItem(acknowledged) \in Row
      BY <1>1, <1>3, CurrentType, FailItemType
    <3> QED
      BY <1>3, <1>6, <3>1, WriteRows DEF TypeInv, TableType
  <2>3. faults' \in 0..MaxFaults
    BY <1>6, ThrowsType
  <2>4. HistoryType' /\ OutsideType'
    BY <1>4, <1>6, <2>3 DEF TypeInv, OutsideType, HistoryType
  <2> QED
    BY <2>1, <2>2, <2>4 DEF TypeInv
<1>7. CASE Write(acknowledged) /\ Restart /\ UNCHANGED <<relayerTransactions, faults>>
  <2>1. TableType'
    BY <1>3, <1>7, WriteRows DEF TypeInv
  <2> QED
    BY <1>4, <1>7, <2>1, RestartType DEF TypeInv, OutsideType, HistoryType
<1> QED
  BY <1>5, <1>6, <1>7 DEF SubmitAccepted

\* Every row a poll writes on its way is a row of the same execution.
LEMMA PollWritesType ==
    ASSUME TypeInv, batch # <<>>, NEW view \in OzView, NEW receipt \in Receipt,
           NEW i \in 1..5
    PROVE  /\ pollWrites(view, receipt)[i] \in Row
           /\ pollWrites(view, receipt)[i].id = cur
           /\ pollWrites(view, receipt)[i].oz = current.oz
           /\ pollWrites(view, receipt)[i].state = "absent" => current.state = "absent"
<1> DEFINE newHash   == view.hash # 0 /\ view.hash # snapshot.hash
           hashed    == IF newHash THEN appendCurrentHashChange(current, view.hash) ELSE current
           submitted == IF newHash /\ hashed.state = "pending"
                          THEN transitionState(hashed, "submitted", NullError) ELSE hashed
           projected == projectRelayerState(view, receipt, WaitConfirmed)
           updated   == updateMetadata(submitted, receipt, ErrorOf(projected.code))
           final     == IF updated.state # projected.state
                            /\ canTransitionState(updated.state, projected.state)
                          THEN transitionState(updated, projected.state, NullError)
                          ELSE updated
           Same(r)   == /\ r \in Row /\ r.id = cur /\ r.oz = current.oz
                        /\ r.state = "absent" => current.state = "absent"
<1>1. Same(current)
  BY CurrentType
<1>2. Same(hashed)
  <2>1. view.hash \in 0..MaxHash
    BY DEF OzView
  <2> QED
    BY <1>1, <2>1 DEF appendCurrentHashChange, Row
<1>3. NullError = ErrorOf("none") /\ "none" \in ErrorCode
  BY DEF NullError, ErrorOf, ErrorCode
<1>4. ASSUME NEW r, Same(r), NEW to \in RelayExecutionState
      PROVE  Same(transitionState(r, to, NullError))
  <2>1. transitionState(r, to, NullError) \in Row
    BY <1>3, <1>4, WritesType
  <2>2. /\ transitionState(r, to, NullError).id = r.id
        /\ transitionState(r, to, NullError).oz = r.oz
        /\ transitionState(r, to, NullError).state = to
    BY <1>4 DEF transitionState, Row
  <2> QED
    BY <1>4, <2>1, <2>2 DEF RelayExecutionState
<1>5. Same(submitted)
  <2> HIDE DEF hashed
  <2> QED
    BY <1>2, <1>4 DEF RelayExecutionState
<1>6. projected.state \in RelayExecutionState /\ projected.code \in ErrorCode
  BY ProjectionType, Constants
<1>7. Same(updated)
  <2> HIDE DEF submitted, projected
  <2>1. updated \in Row
    BY <1>5, <1>6, WritesType
  <2>2. updated.id = submitted.id /\ updated.oz = submitted.oz /\ updated.state = submitted.state
    BY <1>5 DEF updateMetadata, Row
  <2> QED
    BY <1>5, <2>1, <2>2
<1>8. Same(final)
  <2> HIDE DEF updated, projected
  <2> QED
    BY <1>4, <1>6, <1>7
<1>9. pollWrites(view, receipt) = <<current, hashed, submitted, updated, final>>
  BY DEF pollWrites
<1> HIDE DEF hashed, submitted, updated, final
<1> QED
  BY <1>1, <1>2, <1>5, <1>7, <1>8, <1>9

\* What a poll writes for the row it is at.
LEMMA ProjectTransactionType ==
    ASSUME TypeInv, batch # <<>>, NEW view \in OzView, NEW receipt \in Receipt,
           ProjectTransaction(view, receipt)
    PROVE  TypeInv'
<1>1. \A i \in 1..5 : Write(pollWrites(view, receipt)[i]) => TableType'
  BY PollWritesType, WriteRows DEF TypeInv
<1>2. TableType'
  <2>1. \/ UNCHANGED <<rows, updatedBefore>>
        \/ \E i \in 1..5 : Write(pollWrites(view, receipt)[i])
    BY DEF ProjectTransaction, store
  <2> QED
    BY <1>1, <2>1 DEF TypeInv, TableType
<1>3. TickType' /\ chainOk' \in [Executions -> BOOLEAN] /\ crashes' \in 0..MaxCrashes
  <2>1. \/ Continue("poll") /\ UNCHANGED <<backoff, chainOk, crashes>>
        \/ Restart
    BY DEF ProjectTransaction
  <2> QED
    BY <2>1, ContinueType, RestartType DEF Running, TypeInv, OutsideType, HistoryType
<1>4. OutsideType' /\ HistoryType'
  <2>1. relayerTransactions' \in [Executions -> OzView]
    BY DEF ProjectTransaction, store, TypeInv, OutsideType
  <2>2. faults' \in 0..MaxFaults
    BY ThrowsType DEF ProjectTransaction, TypeInv, HistoryType
  <2> QED
    BY <1>3, <2>1, <2>2 DEF ProjectTransaction, TypeInv, OutsideType, HistoryType
<1> QED
  BY <1>2, <1>3, <1>4 DEF TypeInv

\* The handlers of the API write one row each.
LEMMA ApiType ==
    ASSUME TypeInv, NEW e \in Executions, Api(e)
    PROVE  TypeInv'
<1>1. \E r \in Row : Write(r)
  <2>1. rows[e] \in Row
    BY DEF TypeInv, TableType
  <2>2. CASE Admit(e)
    <3>1. PICK profile \in Profiles : Write(createPending(e, profile[1], profile[2]))
      BY <2>2 DEF Admit
    <3>2. AbsentRow(e) \in Row
      BY Constants DEF AbsentRow, NullError, Row, Kind, Receipt, ErrorCode
    <3>3. profile[1] \in Kind /\ profile[2] \in BOOLEAN
      BY Constants
    <3>4. createPending(e, profile[1], profile[2]) \in Row
      BY <3>2, <3>3 DEF createPending, Row, RelayExecutionState
    <3> QED
      BY <3>1, <3>4
  <2>3. CASE Cancel(e)
    BY <2>1, <2>3, WritesType DEF Cancel
  <2>4. CASE Replay(e)
    <3> DEFINE p == projectRelayerState(relayerTransactions[e], rows[e].receipt, WaitConfirmed)
    <3>1. Write(transitionState(rows[e], p.state, ErrorOf(p.code)))
      BY <2>4 DEF Replay
    <3>2. relayerTransactions[e] \in OzView /\ rows[e].receipt \in Receipt
      BY <2>1 DEF TypeInv, OutsideType, Row
    <3>3. p.state \in RelayExecutionState /\ p.code \in ErrorCode
      BY <3>2, Constants, ProjectionType
    <3> HIDE DEF p
    <3> QED
      BY <2>1, <3>1, <3>3, WritesType
  <2> QED
    BY <2>2, <2>3, <2>4 DEF Api
<1>2. UNCHANGED <<relayerTransactions, pc, batch, reply, backoff, outside, history>>
  BY DEF Api, Admit, Cancel, Replay
<1>3. TableType'
  BY <1>1, WriteRows DEF TypeInv
<1> QED
  BY <1>2, <1>3 DEF outside, history, TypeInv, TickType, OutsideType, HistoryType

\* A tick begins with the rows that can be submitted, as they are listed.
LEMMA TickStartType ==
    ASSUME TypeInv, TickStart
    PROVE  TypeInv'
<1>1. PICK s \in FirstOf({e \in Executions : isSubmittable(rows[e])}, createdBefore, BatchSize) :
        batch' = Snapshots(s)
  BY DEF TickStart
<1>2. batch' \in Seq(Row)
  BY <1>1, ListingType DEF TypeInv, TableType
<1>3. pc' = "submit" /\ UNCHANGED <<store, reply, backoff, outside, history>>
  BY DEF TickStart
<1>4. TickType'
  BY <1>2, <1>3 DEF TypeInv, TickType, Awaiting, Suspended, Running
<1> QED
  BY <1>3, <1>4 DEF store, outside, history, TypeInv, TableType, OutsideType, HistoryType

\* The polling begins with the rows that are with the relayer, or waits.
LEMMA PollStartType ==
    ASSUME TypeInv, PollStart
    PROVE  TypeInv'
<1>1. UNCHANGED <<store, reply, backoff, outside, history>>
  BY DEF PollStart
<1>2. batch' \in Seq(Row) /\ pc' \in {"idle", "poll"}
  <2>1. CASE backoff
    BY <2>1 DEF PollStart, TypeInv, TickType
  <2>2. CASE ~backoff
    <3>1. PICK s \in FirstOf({e \in Executions : isPollable(rows[e])}, updatedBefore, BatchSize) :
            batch' = Snapshots(s)
      BY <2>2 DEF PollStart
    <3>2. batch' \in Seq(Row)
      BY <3>1, ListingType DEF TypeInv, TableType
    <3> QED
      BY <2>2, <3>2 DEF PollStart
  <2> QED
    BY <2>1, <2>2
<1>3. TickType'
  BY <1>1, <1>2 DEF TypeInv, TickType, Awaiting, Suspended, Running
<1> QED
  BY <1>1, <1>3 DEF store, outside, history, TypeInv, TableType, OutsideType, HistoryType

\* A step of the tick that only moves it on.
LEMMA MoveType ==
    ASSUME TypeInv, batch # <<>>, pc' \in Suspended \cup Running,
           UNCHANGED <<store, batch, reply, backoff, outside, history>>
    PROVE  TypeInv'
BY DEF store, outside, history, TypeInv, TableType, TickType, OutsideType, HistoryType

\* The steps of the submission, up to the claim.
LEMMA SubmitPhaseType ==
    ASSUME TypeInv, pc \in {"submit", "relayer", "permit2", "preflight", "witness"}, batch # <<>>,
           \/ SubmitNext \/ RelayerLoaded \/ Permit2Loaded \/ Permit2Unavailable
           \/ PreflightOk \/ PreflightReverts \/ PreflightUnavailable
           \/ \E kind \in ErrorKinds : RelayerUnavailable(kind)
    PROVE  TypeInv'
<1>1. \/ Skip
      \/ CheckExpiryAndSubmit
      \/ ClaimAndSubmit
      \/ /\ pc' \in {"relayer", "permit2", "preflight"}
         /\ UNCHANGED <<store, batch, reply, backoff, outside, history>>
      \/ \E to \in {"failed", "rejected"},
            code \in {"CHAIN_NOT_ALLOWED", "INTERNAL_INVARIANT", "PREFLIGHT_REVERTED"} :
           Settle(current, to, code) /\ UNCHANGED outside
  BY DEF SubmitNext, RelayerLoaded, Permit2Loaded, Permit2Unavailable, PreflightOk,
         PreflightReverts, PreflightUnavailable, RelayerUnavailable
<1>2. ASSUME NEW to \in {"failed", "rejected"},
             NEW code \in {"CHAIN_NOT_ALLOWED", "INTERNAL_INVARIANT", "PREFLIGHT_REVERTED"},
             Settle(current, to, code), UNCHANGED outside
      PROVE  TypeInv'
  <2>1. to \in RelayExecutionState /\ code \in ErrorCode
    BY DEF RelayExecutionState, ErrorCode
  <2> QED
    BY <1>2, <2>1, SettleType
<1>3. ASSUME pc' \in {"relayer", "permit2", "preflight"},
             UNCHANGED <<store, batch, reply, backoff, outside, history>>
      PROVE  TypeInv'
  BY <1>3, MoveType DEF Suspended
<1> QED
  BY <1>1, <1>2, <1>3, SkipType, CheckExpiryAndSubmitType, ClaimAndSubmitType

\* The steps of the polling.
LEMMA PollPhaseType ==
    ASSUME TypeInv,
           \/ PollNext \/ ReceiptLoaded \/ ReceiptUnavailable
           \/ \E kind \in ErrorKinds : TransactionUnavailable(kind)
           \/ \E withReceipt \in BOOLEAN : TransactionLoaded(withReceipt)
    PROVE  TypeInv'
<1>1. CASE PollNext
  BY <1>1 DEF PollNext, Suspended, Awaiting, store, outside, history,
              TypeInv, TableType, TickType, OutsideType, HistoryType
<1>2. pc \in {"transaction", "receipt"} => batch # <<>>
  BY DEF TypeInv, TickType, Awaiting, Suspended
<1>3. CASE ReceiptLoaded \/ ReceiptUnavailable
  <2>1. reply.view \in OzView /\ reply.view.outcome \in Receipt /\ "none" \in Receipt
    BY DEF TypeInv, TickType, Reply, OzView, Receipt
  <2> QED
    BY <1>2, <1>3, <2>1, ProjectTransactionType DEF ReceiptLoaded, ReceiptUnavailable
<1>4. ASSUME NEW kind \in ErrorKinds, TransactionUnavailable(kind)
      PROVE  TypeInv'
  <2>1. UNCHANGED <<store, outside, history>>
    BY <1>4 DEF TransactionUnavailable
  <2>2. TickType'
    <3>1. CASE kind = "rate_limited"
      BY <1>4, <3>1 DEF TransactionUnavailable, TypeInv, TickType, Awaiting, Suspended
    <3>2. CASE kind # "rate_limited"
      BY <1>2, <1>4, <3>2, ContinueType DEF TransactionUnavailable, Running
    <3> QED
      BY <3>1, <3>2
  <2> QED
    BY <2>1, <2>2 DEF store, outside, history, TypeInv, TableType, OutsideType, HistoryType
<1>5. ASSUME NEW withReceipt \in BOOLEAN, TransactionLoaded(withReceipt)
      PROVE  TypeInv'
  <2>1. batch # <<>> /\ cur \in Executions
    BY <1>2, <1>5, CurrentType DEF TransactionLoaded
  <2>2. tx[cur] \in OzView /\ tx[cur].outcome \in Receipt /\ "none" \in Receipt
    BY <2>1 DEF TypeInv, OutsideType, OzView, Receipt
  <2>3. \/ /\ pc' = "receipt" /\ reply' = [kind |-> "ok", view |-> tx[cur]]
           /\ UNCHANGED <<store, batch, backoff, outside, history>>
        \/ ProjectTransaction(tx[cur], IF withReceipt THEN tx[cur].outcome ELSE "none")
    BY <1>5 DEF TransactionLoaded
  <2>4. CASE /\ pc' = "receipt" /\ reply' = [kind |-> "ok", view |-> tx[cur]]
             /\ UNCHANGED <<store, batch, backoff, outside, history>>
    <3>1. TickType'
      BY <2>1, <2>2, <2>4 DEF TypeInv, TickType, Reply, Suspended
    <3> QED
      BY <2>4, <3>1 DEF store, outside, history, TypeInv, TableType, OutsideType, HistoryType
  <2> QED
    BY <2>1, <2>2, <2>3, <2>4, ProjectTransactionType
<1> QED
  BY <1>1, <1>3, <1>4, <1>5

\* The relayer, the clock and a crash change no row.
LEMMA OutsideStepType ==
    ASSUME TypeInv, Outside
    PROVE  TypeInv'
<1>1. CASE OzAccepts
  <2>1. batch # <<>> /\ cur \in Executions
    BY <1>1, CurrentType DEF OzAccepts, TypeInv, TickType, Awaiting, Suspended
  <2>2. PICK view \in firstViews :
          reply' = [kind |-> "ok", view |-> view] /\ tx' = [tx EXCEPT ![cur] = view]
    BY <1>1 DEF OzAccepts
  <2>3. view \in OzView
    BY ViewsType
  <2>4. TickType'
    BY <1>1, <2>2, <2>3 DEF OzAccepts, TypeInv, TickType, Reply
  <2>5. OutsideType'
    BY <1>1, <2>2, <2>3 DEF OzAccepts, store, TypeInv, OutsideType
  <2>6. HistoryType'
    <3>1. accepted \in [Executions -> Nat] /\ accepted' = [accepted EXCEPT ![cur] = @ + 1]
      BY <1>1 DEF OzAccepts, TypeInv, HistoryType
    <3>2. accepted' \in [Executions -> Nat]
      BY <2>1, <3>1, CountType
    <3> QED
      BY <1>1, <3>2 DEF OzAccepts, TypeInv, HistoryType
  <2> QED
    BY <1>1, <2>4, <2>5, <2>6 DEF OzAccepts, store, TypeInv, TableType
<1>2. CASE BackoffElapses
  BY <1>2 DEF BackoffElapses, store, outside, history,
              TypeInv, TableType, TickType, OutsideType, HistoryType
<1>3. CASE Crash
  <2>1. Restart /\ UNCHANGED <<store, expired, calls, accepted, learned, tickFailed, faults>>
    BY <1>3 DEF Crash
  <2>2. tx' \in [Executions -> OzView] /\ stray' \in [Executions -> Nat]
    BY <1>3, NoViewType DEF Crash, TypeInv, OutsideType
  <2> QED
    BY <2>1, <2>2, RestartType DEF store, TypeInv, TableType, OutsideType, HistoryType
<1>4. ASSUME NEW e \in Executions, OzAcceptsStray(e)
      PROVE  TypeInv'
  <2>1. stray' \in [Executions -> Nat] /\ accepted' \in [Executions -> Nat]
    BY <1>4 DEF OzAcceptsStray, TypeInv, OutsideType, HistoryType
  <2> QED
    BY <1>4, <2>1 DEF OzAcceptsStray, store, TypeInv, TableType, TickType, OutsideType, HistoryType
<1>5. ASSUME NEW e \in Executions, OzAdvances(e)
      PROVE  TypeInv'
  <2>1. tx' \in [Executions -> OzView]
    BY <1>5, ViewsType DEF OzAdvances, TypeInv, OutsideType
  <2> QED
    BY <1>5, <2>1 DEF OzAdvances, store, history, TypeInv, TableType, TickType, OutsideType, HistoryType
<1>6. ASSUME NEW e \in Executions, Expire(e)
      PROVE  TypeInv'
  BY <1>6 DEF Expire, store, history, TypeInv, TableType, TickType, OutsideType, HistoryType
<1> QED
  BY <1>1, <1>2, <1>3, <1>4, <1>5, <1>6 DEF Outside

\* The empty batch is a batch.
LEMMA EmptySeqRow == <<>> \in Seq(Row)
OBVIOUS

\* The types hold when the worker starts on an empty table.
LEMMA TypeInit == Init => TypeInv
<1> SUFFICES ASSUME Init PROVE TypeInv
  OBVIOUS
<1>1. \A e \in Executions : AbsentRow(e) \in Row /\ AbsentRow(e).id = e
  BY Constants DEF AbsentRow, NullError, Row, Kind, Receipt, ErrorCode
<1>2. TableType
  BY <1>1 DEF Init, TableType
<1>3. TickType
  <2>1. NoReply \in Reply
    BY NoViewType DEF NoReply, Reply
  <2>2. pc = "idle" /\ batch = <<>> /\ reply = NoReply /\ backoff = FALSE
    BY DEF Init
  <2> QED
    BY <2>1, <2>2, EmptySeqRow DEF TickType, Suspended, Awaiting
<1>4. OutsideType
  BY NoViewType DEF Init, OutsideType
<1>5. HistoryType
  <2>1. 0 \in Nat /\ 0 \in 0..MaxCrashes /\ 0 \in 0..MaxFaults
    BY Constants
  <2>2. /\ calls = [e \in Executions |-> 0] /\ accepted = [e \in Executions |-> 0]
        /\ learned = [e \in Executions |-> 0]
        /\ tickFailed = FALSE /\ crashes = 0 /\ faults = 0
    BY DEF Init
  <2> QED
    BY <2>1, <2>2 DEF HistoryType
<1> QED
  BY <1>2, <1>3, <1>4, <1>5 DEF TypeInv

\* Every step keeps the types.
LEMMA TypeStep == TypeInv /\ [Next]_vars => TypeInv'
<1> SUFFICES ASSUME TypeInv, [Next]_vars PROVE TypeInv'
  OBVIOUS
<1>1. CASE UNCHANGED vars
  BY <1>1 DEF vars, TypeInv, TableType, TickType, OutsideType, HistoryType
<1>2. CASE Worker
  <2>1. \A p \in Awaiting : pc = p => batch # <<>>
    BY DEF TypeInv, TickType
  <2>2. CASE \/ SubmitNext \/ RelayerLoaded \/ Permit2Loaded \/ Permit2Unavailable
             \/ PreflightOk \/ PreflightReverts \/ PreflightUnavailable
             \/ \E kind \in ErrorKinds : RelayerUnavailable(kind)
    <3>1. pc \in {"submit", "relayer", "permit2", "preflight", "witness"} /\ batch # <<>>
      BY <2>1, <2>2 DEF SubmitNext, RelayerLoaded, Permit2Loaded, Permit2Unavailable, PreflightOk,
           PreflightReverts, PreflightUnavailable, RelayerUnavailable, Awaiting, Suspended
    <3> QED
      BY <2>2, <3>1, SubmitPhaseType
  <2>3. CASE SubmitRefused \/ SubmitTimesOut
    <3>1. \E kind \in ErrorKinds, left \in {0, 1} : SubmitFailed(kind, left)
      BY <2>3 DEF SubmitRefused, SubmitTimesOut
    <3>2. batch # <<>>
      BY <2>1, <3>1 DEF SubmitFailed, Awaiting, Suspended
    <3> QED
      BY <3>1, <3>2, SubmitFailedType
  <2>4. CASE SubmitThrows
    <3>1. batch # <<>>
      BY <2>1, <2>4 DEF SubmitThrows, Awaiting, Suspended
    <3> QED
      BY <2>4, <3>1, SubmitThrowsType
  <2> QED
    BY <1>2, <2>2, <2>3, <2>4, TickStartType, PollStartType, SubmitAcceptedType, TickThrowsType,
       PollPhaseType DEF Worker
<1>3. CASE Outside
  BY <1>3, OutsideStepType
<1>4. CASE \E e \in Executions : Api(e)
  BY <1>4, ApiType
<1> QED
  BY <1>1, <1>2, <1>3, <1>4 DEF Next

\* The variables have their types in every reachable state, for every choice of the
\* constants: among others the attempts kept in last_error_json stay within the retry
\* budget, and the tick is never at an await without the row it is working on.
THEOREM TypeCorrect == Spec => []TypeOK
<1>1. TypeInv => TypeOK
  BY TypeInvIsStronger
<1> QED
  BY <1>1, TypeInit, TypeStep, PTL DEF Spec

=============================================================================
