----------------------------- MODULE RelayWorker -----------------------------
(***************************************************************************)
(* The life of an execution from `pending` on: the relayer worker's tick   *)
(* (relayer/worker.ts, scheduled by main.ts), the DELETE handler and the   *)
(* POST replay that share its table, the OpenZeppelin Relayer it submits   *)
(* to, the clock, and crashes of the process.                              *)
(*                                                                         *)
(* The service is one Node process over synchronous SQLite, so the code    *)
(* between two awaits runs to completion and is one action here; the       *)
(* places where a tick is suspended are the values of pc.  The statements  *)
(* of such a block commit one by one, so a crash may fall between two of   *)
(* them and any of them may throw (a full disk, a locked file): blocks     *)
(* that write have torn alternatives, and a step of its own stands for an  *)
(* exception that no catch of the tick contains.                           *)
(***************************************************************************)
EXTENDS ExecutionStore

CONSTANTS
    BatchSize,      \* rows per listing
    Profiles,       \* the <<kind, force>> admitted
    ErrorKinds,     \* how a call to the relayer may fail
    WaitConfirmed,  \* requiredConfirmations > 1
    LoseReplies,    \* an accepted submission may be answered by an error
    HashlessRevert, \* the relayer may report a revert without a hash
    ChainRemoval,   \* a restart may load a registry without an execution's chain
    MaxCrashes,     \* bound on restarts of the process
    MaxFaults       \* bound on the blocks cut by a statement that throws

ErrorKind ==
    { "rate_limited", "server_error", "client_error", "timeout", "connect_failed" }

ASSUME BatchSizeAssumption == BatchSize \in Nat \ {0}
ASSUME ProfilesAssumption == Profiles \subseteq Kind \X BOOLEAN
ASSUME ErrorKindsAssumption == ErrorKinds \subseteq ErrorKind
ASSUME SwitchAssumption ==
    /\ WaitConfirmed \in BOOLEAN
    /\ LoseReplies \in BOOLEAN
    /\ HashlessRevert \in BOOLEAN
    /\ ChainRemoval \in BOOLEAN
ASSUME BoundAssumption == MaxCrashes \in Nat /\ MaxFaults \in Nat

VARIABLES
    \* the database
    rows,                 \* relay_executions
    updatedBefore,        \* <<e, f>>: e was last written before f (updated_at)
    relayerTransactions,  \* relayer_transactions: the last view stored of each
    \* the process
    pc, batch, reply,     \* the tick in progress, the rows left in its loop, the answer awaited
    backoff,              \* ozPollBackoff.until is in the future
    \* the outside
    tx,                   \* the transaction behind the id an execution holds, or will
    stray,                \* requests the worker gave up on that may still arrive
    expired,              \* validBefore has passed
    chainOk,              \* the registry has the execution's chain
    \* history, read by no action of the program
    calls,                \* submitTransaction calls made
    accepted,             \* intents the relayer accepted
    learned,              \* acceptances whose answer reached the worker
    tickFailed,           \* a tick ended in an exception
    crashes, faults

store == <<rows, updatedBefore, relayerTransactions>>
outside == <<tx, stray, expired, chainOk>>
history == <<calls, accepted, learned, tickFailed, crashes, faults>>
vars == <<rows, updatedBefore, relayerTransactions, pc, batch, reply, backoff,
          tx, stray, expired, chainOk,
          calls, accepted, learned, tickFailed, crashes, faults>>

Suspended ==
    { "idle", "relayer", "permit2", "preflight", "witness", "submitting",
      "transaction", "receipt" }
Running == { "submit", "poll" }     \* at the head of a loop: no other code runs

Reply == [ kind : {"none", "ok"} \cup ErrorKind, view : OzView ]
NoReply == [kind |-> "none", view |-> NoView]

Init ==
    /\ rows = [e \in Executions |-> AbsentRow(e)]
    /\ updatedBefore = {}
    /\ relayerTransactions = [e \in Executions |-> NoView]
    /\ pc = "idle" /\ batch = <<>> /\ reply = NoReply /\ backoff = FALSE
    /\ tx = [e \in Executions |-> NoView]
    /\ stray = [e \in Executions |-> 0]
    /\ expired = [e \in Executions |-> FALSE]
    /\ chainOk = [e \in Executions |-> TRUE]
    /\ calls = [e \in Executions |-> 0]
    /\ accepted = [e \in Executions |-> 0]
    /\ learned = [e \in Executions |-> 0]
    /\ tickFailed = FALSE /\ crashes = 0 /\ faults = 0

-----------------------------------------------------------------------------
(* Writing a row, and going on with the tick.                              *)

touched(e) ==
    { p \in updatedBefore : p[1] # e }
      \cup { <<f, e>> : f \in { g \in Executions : g # e /\ rows[g].state # "absent" } }

Write(r) ==
    /\ rows' = [rows EXCEPT ![r.id] = r]
    /\ updatedBefore' = touched(r.id)

snapshot == Head(batch)             \* the row as it was when it was listed
cur == snapshot.id
current == rows[cur]                \* the row as it is now

Snapshots(s) == [i \in DOMAIN s |-> rows[s[i]]]

Continue(loop) ==
    /\ pc' = loop
    /\ batch' = Tail(batch)
    /\ reply' = NoReply

Skip ==
    /\ Continue("submit")
    /\ UNCHANGED <<store, backoff, outside, history>>

AbortTick ==
    /\ pc' = "idle"
    /\ batch' = <<>>
    /\ reply' = NoReply
    /\ tickFailed' = TRUE

\* End the item in state to. An illegal transition throws into the catch of the
\* loop's body, which fails the row instead; when that is illegal too, the
\* exception leaves the tick.
Settle(r, to, code) ==
    /\ IF canTransitionState(r.state, to)
         THEN /\ Write(transitionState(r, to, ErrorOf(code)))
              /\ Continue("submit")
              /\ UNCHANGED tickFailed
       ELSE IF canTransitionState(r.state, "failed")
         THEN /\ Write(transitionState(r, "failed", ErrorOf("INTERNAL_INVARIANT")))
              /\ Continue("submit")
              /\ UNCHANGED tickFailed
       ELSE AbortTick /\ UNCHANGED <<rows, updatedBefore>>
    /\ UNCHANGED <<relayerTransactions, backoff, calls, accepted, learned, crashes, faults>>

\* A statement of the block throws, and perhaps those of the catch that follows.
Throws ==
    /\ faults < MaxFaults
    /\ faults' = faults + 1

\* The row as the catch around the submit loop's body ends it.
failItem(r) == transitionState(r, "failed", ErrorOf("INTERNAL_INVARIANT"))

\* The process dies and is started again: what it held in memory is gone. A
\* request it was waiting on may still reach the relayer; the transaction of an
\* acceptance it never recorded is not followed further.
Restart ==
    /\ crashes < MaxCrashes
    /\ crashes' = crashes + 1
    /\ pc' = "idle" /\ batch' = <<>> /\ reply' = NoReply /\ backoff' = FALSE
    /\ \/ UNCHANGED chainOk
       \/ /\ ChainRemoval
          /\ \E e \in Executions : chainOk' = [chainOk EXCEPT ![e] = FALSE]

-----------------------------------------------------------------------------
(* The API.  Its handlers run while the tick is suspended.                 *)

\* POST: persistExecution inserts the next row.
Admit(e) ==
    /\ pc \in Suspended
    /\ rows[e].state = "absent"
    /\ \A f \in 1..(e - 1) : rows[f].state # "absent"
    /\ \E profile \in Profiles : Write(createPending(e, profile[1], profile[2]))
    /\ UNCHANGED <<relayerTransactions, pc, batch, reply, backoff, outside, history>>

\* DELETE: the handler has no await, so its two checks see the same row.
Cancel(e) ==
    /\ pc \in Suspended
    /\ isClientCancelable(rows[e])
    /\ tryClientCancelGuard(rows[e])
    /\ Write(tryClientCancel(rows[e]))
    /\ UNCHANGED <<relayerTransactions, pc, batch, reply, backoff, outside, history>>

\* POST of an intent already admitted: the stored view of its transaction is
\* projected again on the row. Where the row may not go to that state the transition
\* throws and the client gets a 500: the row stays as it is.
Replay(e) ==
    /\ pc \in Suspended
    /\ relayerTransactions[e] # NoView
    /\ ~isTerminal(rows[e])
    /\ LET p == projectRelayerState(relayerTransactions[e], rows[e].receipt, WaitConfirmed)
       IN  /\ p.state # rows[e].state
           /\ canTransitionState(rows[e].state, p.state)
           /\ Write(transitionState(rows[e], p.state, ErrorOf(p.code)))
    /\ UNCHANGED <<relayerTransactions, pc, batch, reply, backoff, outside, history>>

-----------------------------------------------------------------------------
(* The tick: the submit phase (processRelayerWorkerTick, first loop).      *)

\* setInterval fires and no tick is in flight.
TickStart ==
    /\ pc = "idle"
    /\ \E s \in FirstOf({e \in Executions : isSubmittable(rows[e])}, createdBefore, BatchSize) :
         batch' = Snapshots(s)
    /\ pc' = "submit"
    /\ UNCHANGED <<store, reply, backoff, outside, history>>

\* The next row: its chain is looked up, then its relayer.
SubmitNext ==
    /\ pc = "submit" /\ batch # <<>>
    /\ \/ /\ ~chainOk[cur]
          /\ Settle(current, "failed", "CHAIN_NOT_ALLOWED")
          /\ UNCHANGED outside
       \/ /\ chainOk[cur]
          /\ pc' = "relayer"
          /\ UNCHANGED <<store, batch, reply, backoff, outside, history>>

\* Claim the row and call submitTransaction, without an await in between.
ClaimAndSubmit ==
    IF claimGuard(current)
      THEN /\ Write(claimForSubmission(current))
           /\ pc' = "submitting"
           /\ calls' = [calls EXCEPT ![cur] = @ + 1]
           /\ UNCHANGED <<relayerTransactions, batch, reply, backoff, outside,
                          accepted, learned, tickFailed, crashes, faults>>
      ELSE Skip

\* Faulty: trusts the window checked at admission.
SubmitUnchecked == ClaimAndSubmit

\* From the end of the checks on: the validity window, then the claim. A forced
\* Permit2 row has no witness yet and awaits it between the two.
CheckExpiryAndSubmit ==
    IF expired[cur]
      THEN Settle(current, "expired", "CLEAR_MACRO_EXPIRED") /\ UNCHANGED outside
    ELSE IF snapshot.kind = "clearMacroPermit2V1" /\ snapshot.force
      THEN pc' = "witness" /\ UNCHANGED <<store, batch, reply, backoff, outside, history>>
    ELSE ClaimAndSubmit

\* getRelayer answers.
RelayerLoaded ==
    /\ pc = "relayer"
    /\ IF snapshot.force
         THEN CheckExpiryAndSubmit
         ELSE /\ pc' = IF snapshot.kind = "clearMacroPermit2V1"
                         THEN "permit2" ELSE "preflight"
              /\ UNCHANGED <<store, batch, reply, backoff, outside, history>>

\* Only a 429 or a 5xx counts as transient here: the client reports an aborted or a
\* refused connection in words ("This operation was aborted", "fetch failed") that
\* the patterns of isTransientSubmitError do not name.
isTransientSubmitError(kind) == kind \in {"rate_limited", "server_error"}

RelayerUnavailable(kind) ==
    /\ pc = "relayer"
    /\ IF isTransientSubmitError(kind)
         THEN Skip
         ELSE Settle(current, "failed", "INTERNAL_INVARIANT") /\ UNCHANGED outside

\* loadPermit2Context, before the preflight and, for a forced row, after the
\* expiry check.
Permit2Loaded ==
    \/ /\ pc = "permit2"
       /\ pc' = "preflight"
       /\ UNCHANGED <<store, batch, reply, backoff, outside, history>>
    \/ /\ pc = "witness"
       /\ ClaimAndSubmit

Permit2Unavailable == pc \in {"permit2", "witness"} /\ Skip

PreflightOk == pc = "preflight" /\ CheckExpiryAndSubmit

PreflightReverts ==
    /\ pc = "preflight"
    /\ Settle(current, "rejected", "PREFLIGHT_REVERTED")
    /\ UNCHANGED outside

PreflightUnavailable == pc = "preflight" /\ Skip

\* A statement before the claim, or the claim, throws into the catch around the body.
\* (The awaits that are not named here are followed by no statement of their own.)
SubmitThrows ==
    /\ \/ pc = "submit" /\ batch # <<>> /\ ~chainOk[cur]
       \/ pc = "relayer" /\ snapshot.force
            /\ (expired[cur] \/ snapshot.kind = "clearMacroV1")
       \/ pc \in {"permit2", "preflight", "witness"}
    /\ Throws
    /\ canTransitionState(current.state, "failed")
    /\ Write(failItem(current))
    /\ Continue("submit")
    /\ UNCHANGED <<relayerTransactions, backoff, outside,
                   calls, accepted, learned, tickFailed, crashes>>

\* An exception leaves the tick from the block before a loop head: a listing threw, or
\* the event that goes with a state already final, or a statement of the last catch.
TickThrows ==
    /\ pc \in Running
    /\ Throws
    /\ AbortTick
    /\ UNCHANGED <<store, backoff, outside, calls, accepted, learned, crashes>>

\* The submission was accepted and the answer says so: the id is stored, then the
\* transaction. Each write has a catch that keeps the row out of the next listing but
\* appends an event: if that throws too, the catch around the body fails the row. A
\* crash may fall between the writes.
SubmitAccepted ==
    /\ pc = "submitting" /\ reply.kind = "ok"
    /\ learned' = [learned EXCEPT ![cur] = @ + 1]
    /\ LET acknowledged == applySubmitAcknowledgement(current, reply.view.hash)
           stored == [relayerTransactions EXCEPT ![cur] = reply.view]
       IN  \/ /\ Write(acknowledged)
              /\ relayerTransactions' = stored
              /\ Continue("submit")
              /\ UNCHANGED <<backoff, chainOk, crashes, faults>>
           \/ /\ Throws
              /\ \/ /\ UNCHANGED <<rows, updatedBefore>> \/ Write(failItem(current))
                    /\ UNCHANGED relayerTransactions
                 \/ /\ Write(acknowledged) \/ Write(failItem(acknowledged))
                    /\ relayerTransactions' \in {relayerTransactions, stored}
              /\ Continue("submit")
              /\ UNCHANGED <<backoff, chainOk, crashes>>
           \/ /\ Write(acknowledged)
              /\ Restart
              /\ UNCHANGED <<relayerTransactions, faults>>
    /\ UNCHANGED <<tx, stray, expired, calls, accepted, tickFailed>>

\* Faulty: retries without end; retries once too often.
retryForever(released, kind) ==
    updateLastError(released, [code |-> "RELAYER_SUBMIT_ERROR",
                               attempts |-> snapshot.error.attempts + 1])

retryOnceMore(released, kind) ==
    IF isTransientSubmitError(kind) /\ snapshot.error.attempts + 1 <= RetryCount
      THEN retryForever(released, kind)
      ELSE transitionState(released, "failed", ErrorOf("RELAYER_SUBMIT_FAILED"))

\* The row after a failed submission: attempts are counted in last_error_json, as
\* they stood when the row was listed.
afterSubmitFailure(released, kind) ==
    LET attempts == snapshot.error.attempts + 1
    IN  IF isTransientSubmitError(kind) /\ attempts < RetryCount
          THEN updateLastError(released,
                   [code |-> "RELAYER_SUBMIT_ERROR", attempts |-> attempts])
          ELSE transitionState(released, "failed", ErrorOf("RELAYER_SUBMIT_FAILED"))

\* The claim is released, then the error is stored. If either throws, so does this catch,
\* into the one around the body.
SubmitFailed(kind, left) ==
    /\ pc = "submitting"
    /\ LET released == releaseSubmissionClaim(current)
       IN  \/ /\ Write(afterSubmitFailure(released, kind))
              /\ Continue("submit")
              /\ UNCHANGED <<backoff, chainOk, tickFailed, crashes, faults>>
           \/ /\ Throws
              /\ \/ /\ Write(failItem(current)) \/ Write(failItem(released))
                    /\ Continue("submit")
                    /\ UNCHANGED tickFailed
                 \/ /\ UNCHANGED <<rows, updatedBefore>> \/ Write(released)
                    /\ AbortTick
              /\ UNCHANGED <<backoff, chainOk, crashes>>
           \/ /\ Write(released)
              /\ Restart
              /\ UNCHANGED <<tickFailed, faults>>
    /\ tx' = [tx EXCEPT ![cur] = NoView]
    /\ stray' = [stray EXCEPT ![cur] = @ + left]
    /\ UNCHANGED <<relayerTransactions, expired, calls, accepted, learned>>

\* The relayer refuses, or the answer or the request itself is lost on the way.
SubmitRefused == \E kind \in ErrorKinds : reply.kind = "none" /\ SubmitFailed(kind, 0)

SubmitTimesOut ==
    /\ LoseReplies
    /\ \E kind \in ErrorKinds \cap {"timeout", "server_error", "connect_failed"} :
         \/ reply.kind = "ok" /\ SubmitFailed(kind, 0)
         \/ reply.kind = "none" /\ SubmitFailed(kind, 1)

-----------------------------------------------------------------------------
(* The tick: the poll phase (second loop).                                 *)

\* The rows to poll are listed even when the backoff skips them.
PollStart ==
    /\ pc = "submit" /\ batch = <<>>
    /\ IF backoff
         THEN pc' = "idle" /\ UNCHANGED batch
         ELSE /\ pc' = "poll"
              /\ \E s \in FirstOf({e \in Executions : isPollable(rows[e])},
                                  updatedBefore, BatchSize) :
                   batch' = Snapshots(s)
    /\ UNCHANGED <<store, reply, backoff, outside, history>>

PollNext ==
    /\ pc = "poll"
    /\ pc' = IF batch = <<>> THEN "idle" ELSE "transaction"
    /\ UNCHANGED <<store, batch, reply, backoff, outside, history>>

\* The successive rows of one poll: the hash the relayer names if it is new, the
\* state that goes with a first hash, receipt and error, and at last the projected
\* state, unless the transition is illegal and throws.
pollWrites(view, receipt) ==
    LET newHash   == view.hash # 0 /\ view.hash # snapshot.hash
        hashed    == IF newHash THEN appendCurrentHashChange(current, view.hash) ELSE current
        submitted == IF newHash /\ hashed.state = "pending"
                       THEN transitionState(hashed, "submitted", NullError) ELSE hashed
        projected == projectRelayerState(view, receipt, WaitConfirmed)
        updated   == updateMetadata(submitted, receipt, ErrorOf(projected.code))
    IN  << current, hashed, submitted, updated,
           IF updated.state # projected.state /\ canTransitionState(updated.state, projected.state)
             THEN transitionState(updated, projected.state, NullError)
             ELSE updated >>

\* The view is stored, then the row is written as above. A crash or a statement that
\* throws leaves the row at any of the writes; after the latter the tick goes on.
ProjectTransaction(view, receipt) ==
    LET stored == [relayerTransactions EXCEPT ![cur] = view]
        torn   == \/ UNCHANGED <<rows, updatedBefore>>
                  \/ \E i \in 2..4 : Write(pollWrites(view, receipt)[i])
    IN  /\ \/ /\ relayerTransactions' = stored
              /\ Write(pollWrites(view, receipt)[5])
              /\ Continue("poll")
              /\ UNCHANGED <<backoff, chainOk, crashes, faults>>
           \/ /\ Throws
              /\ \/ relayerTransactions' = stored /\ torn
                 \/ UNCHANGED store
              /\ Continue("poll")
              /\ UNCHANGED <<backoff, chainOk, crashes>>
           \/ /\ relayerTransactions' = stored /\ torn
              /\ Restart
              /\ UNCHANGED faults
        /\ UNCHANGED <<tx, stray, expired, calls, accepted, learned, tickFailed>>

\* getTransaction answers. The receipt comes with it, or is asked of the chain for
\* a transaction that is mined.
TransactionLoaded(withReceipt) ==
    /\ pc = "transaction"
    /\ withReceipt => tx[cur].outcome # "none"
    /\ LET view == tx[cur]
           askChain == ~withReceipt /\ chainOk[cur] /\ view.hash # 0
                         /\ view.status \in {"mined", "confirmed"}
       IN  IF askChain
             THEN /\ pc' = "receipt"
                  /\ reply' = [kind |-> "ok", view |-> view]
                  /\ UNCHANGED <<store, batch, backoff, outside, history>>
             ELSE ProjectTransaction(view, IF withReceipt THEN view.outcome ELSE "none")

ReceiptLoaded == pc = "receipt" /\ ProjectTransaction(reply.view, reply.view.outcome)

ReceiptUnavailable == pc = "receipt" /\ ProjectTransaction(reply.view, "none")

\* A 429 ends the polling of this tick and holds off that of the next ones.
TransactionUnavailable(kind) ==
    /\ pc = "transaction"
    /\ IF kind = "rate_limited"
         THEN pc' = "idle" /\ batch' = <<>> /\ backoff' = TRUE /\ UNCHANGED reply
         ELSE Continue("poll") /\ UNCHANGED backoff
    /\ UNCHANGED <<store, outside, history>>

-----------------------------------------------------------------------------
(* The outside: the relayer, the chain, the clock, and crashes.            *)

firstViews ==
    { [NoView EXCEPT !.status = "pending"],
      [NoView EXCEPT !.status = "submitted", !.hash = 1] }

\* What may become of a transaction that is not over. A replacement has a new hash.
nextViews(view) ==
    CASE view.status = "pending" ->
            { [view EXCEPT !.status = "submitted", !.hash = 1] }
              \cup { [view EXCEPT !.status = s] : s \in {"failed", "canceled", "expired"} }
              \cup { [view EXCEPT !.status = "failed", !.reverts = b] : b \in {HashlessRevert} }
      [] view.status = "submitted" ->
            { [view EXCEPT !.hash = h] : h \in {view.hash + 1} \cap 1..MaxHash }
              \cup { [view EXCEPT !.status = "mined", !.outcome = o] : o \in {"success", "reverted"} }
              \cup { [view EXCEPT !.status = "failed", !.reverts = b] : b \in BOOLEAN }
              \cup { [view EXCEPT !.status = s] : s \in {"canceled", "expired"} }
      [] view.status = "mined" ->
            { [view EXCEPT !.status = "confirmed"] }
              \cup { [view EXCEPT !.status = "failed", !.reverts = TRUE] :
                       o \in {view.outcome} \cap {"reverted"} }
      [] OTHER -> {}

OzAccepts ==
    /\ pc = "submitting" /\ reply.kind = "none"
    /\ \E view \in firstViews :
         /\ reply' = [kind |-> "ok", view |-> view]
         /\ tx' = [tx EXCEPT ![cur] = view]
    /\ accepted' = [accepted EXCEPT ![cur] = @ + 1]
    /\ UNCHANGED <<store, pc, batch, backoff, stray, expired, chainOk,
                   calls, learned, tickFailed, crashes, faults>>

OzAcceptsStray(e) ==
    /\ stray[e] > 0
    /\ stray' = [stray EXCEPT ![e] = @ - 1]
    /\ accepted' = [accepted EXCEPT ![e] = @ + 1]
    /\ UNCHANGED <<store, pc, batch, reply, backoff, tx, expired, chainOk,
                   calls, learned, tickFailed, crashes, faults>>

\* Followed while somebody still looks: a terminal row is polled no more.
OzAdvances(e) ==
    /\ ~isTerminal(rows[e])
    /\ \E view \in nextViews(tx[e]) : tx' = [tx EXCEPT ![e] = view]
    /\ UNCHANGED <<store, pc, batch, reply, backoff, stray, expired, chainOk, history>>

\* The clock: validBefore is read only while the row waits to be submitted.
Expire(e) ==
    /\ rows[e].state = "pending" /\ rows[e].oz = "null" /\ ~expired[e]
    /\ expired' = [expired EXCEPT ![e] = TRUE]
    /\ UNCHANGED <<store, pc, batch, reply, backoff, tx, stray, chainOk, history>>

BackoffElapses ==
    /\ backoff /\ backoff' = FALSE
    /\ UNCHANGED <<store, pc, batch, reply, outside, history>>

\* A crash while the tick is suspended.
Crash ==
    /\ pc \in Suspended
    /\ Restart
    /\ IF pc = "submitting"
         THEN /\ tx' = [tx EXCEPT ![cur] = NoView]
              /\ stray' = [stray EXCEPT ![cur] = @ + (IF reply.kind = "none" THEN 1 ELSE 0)]
         ELSE UNCHANGED <<tx, stray>>
    /\ UNCHANGED <<store, expired, calls, accepted, learned, tickFailed, faults>>

-----------------------------------------------------------------------------

Api(e) == Admit(e) \/ Cancel(e) \/ Replay(e)

Worker ==
    \/ TickStart \/ SubmitNext \/ PollStart \/ PollNext
    \/ RelayerLoaded \/ Permit2Loaded \/ Permit2Unavailable
    \/ PreflightOk \/ PreflightReverts \/ PreflightUnavailable
    \/ SubmitAccepted \/ SubmitRefused \/ SubmitTimesOut
    \/ SubmitThrows \/ TickThrows
    \/ ReceiptLoaded \/ ReceiptUnavailable
    \/ \E kind \in ErrorKinds : RelayerUnavailable(kind) \/ TransactionUnavailable(kind)
    \/ \E withReceipt \in BOOLEAN : TransactionLoaded(withReceipt)

Outside ==
    \/ OzAccepts \/ BackoffElapses \/ Crash
    \/ \E e \in Executions : OzAcceptsStray(e) \/ OzAdvances(e) \/ Expire(e)

Next == Worker \/ Outside \/ \E e \in Executions : Api(e)

Spec == Init /\ [][Next]_vars

\* What the code's scheduling and its surroundings owe the executions: the interval
\* keeps ticking and every await returns; no dependency refuses every answer for
\* ever; and the relayer brings each transaction to an end.
Fairness ==
    /\ WF_vars(Worker)
    /\ WF_vars(BackoffElapses)
    /\ SF_vars(RelayerLoaded)
    /\ SF_vars(Permit2Loaded)
    /\ SF_vars(PreflightOk \/ PreflightReverts)
    /\ SF_vars(\E withReceipt \in BOOLEAN : TransactionLoaded(withReceipt))
    /\ SF_vars(ReceiptLoaded)
    /\ \A e \in Executions : WF_vars(OzAdvances(e))

FairSpec == Spec /\ Fairness

-----------------------------------------------------------------------------
(* Properties.                                                             *)

\* The types of the variables.
TypeOK ==
    /\ rows \in [Executions -> Row]
    /\ \A e \in Executions : rows[e].id = e
    /\ updatedBefore \subseteq Executions \X Executions
    /\ relayerTransactions \in [Executions -> OzView]
    /\ pc \in Suspended \cup Running
    /\ batch \in Seq(Row)
    /\ reply \in Reply
    /\ backoff \in BOOLEAN
    /\ tx \in [Executions -> OzView]
    /\ stray \in [Executions -> Nat]
    /\ expired \in [Executions -> BOOLEAN]
    /\ chainOk \in [Executions -> BOOLEAN]
    /\ calls \in [Executions -> Nat]
    /\ accepted \in [Executions -> Nat]
    /\ learned \in [Executions -> Nat]
    /\ tickFailed \in BOOLEAN
    /\ crashes \in 0..MaxCrashes
    /\ faults \in 0..MaxFaults

InFlight(e) == pc = "submitting" /\ cur = e

clientCanceled(e) == rows[e].error.code = "CANCELED_BY_CLIENT"

\* The claim that shuts DELETE out is held only while the call it protects is
\* running: but for a crash or a failed write, no path of the tick forgets it.
ClaimIsInFlight ==
    \A e \in Executions :
        rows[e].oz = "claim" => InFlight(e) \/ crashes + faults > 0

\* An acceptance the worker was told of makes the row unsubmittable for good, even
\* when the writes that follow fail: "Persist OZ id first so a later secondary-write
\* failure cannot leave the row submittable".
NoResubmission ==
    \A e \in Executions :
        /\ learned[e] <= 1
        /\ learned[e] = 1 => rows[e].oz # "null"

\* The relayer is asked to execute an intent once, whatever crashes and failed writes
\* happen, as long as it does not answer an acceptance with an error.
AtMostOneIntent == ~LoseReplies => \A e \in Executions : accepted[e] + stray[e] <= 1

\* A DELETE that succeeded stops the relaying: no call is running for the row, none was
\* answered with an acceptance, and (lost answers apart) the relayer has no intent of it.
CancelStopsRelaying ==
    \A e \in Executions : clientCanceled(e) =>
        /\ rows[e].state = "canceled" /\ rows[e].oz = "null"
        /\ ~InFlight(e)
        /\ learned[e] = 0
        /\ ~LoseReplies => accepted[e] + stray[e] = 0

\* How a row, the tick's place and the relayer's intents stand to each other. It implies
\* ClaimIsInFlight, NoResubmission, AtMostOneIntent and CancelStopsRelaying, and unlike
\* them it is inductive: it also says what keeps Cancel, Replay and Admit off a row in
\* flight, and that a row being polled has its id.
HandOverRow(e) ==
    LET r == rows[e] IN
    /\ r.state = "absent" => r.oz = "null" /\ r.hash = 0
    /\ relayerTransactions[e] # NoView => r.oz = "id"
    /\ learned[e] <= 1
    /\ learned[e] = 1 => r.oz # "null"
    /\ InFlight(e) => r.oz = "claim" /\ r.state = "pending" /\ learned[e] = 0
    /\ r.oz = "claim" => InFlight(e) \/ crashes + faults > 0
    /\ clientCanceled(e) => r.state = "canceled" /\ r.oz = "null"
    /\ ~LoseReplies =>
         /\ accepted[e] + stray[e] <= 1
         /\ r.oz = "null" => accepted[e] + stray[e] = 0
         /\ InFlight(e) /\ reply.kind = "none" => accepted[e] + stray[e] = 0

Polling == { "poll", "transaction", "receipt" }

HandOverInv ==
    /\ \A e \in Executions : HandOverRow(e)
    /\ pc \in Polling => \A i \in 1..Len(batch) : rows[batch[i].id].oz = "id"

\* submitRetryCount bounds the calls for one execution: the count kept in
\* last_error_json survives the ticks; only a crash or a failed write can lose one.
SubmitBudget == \A e \in Executions : calls[e] <= RetryCount + crashes + faults

\* A state tells the truth. Where the relayer's id is stored, it is what became of the
\* transaction; "submitted: a current transaction hash is known", unless a crash or a
\* failed write tore a poll; a failed write may also have ended the row at the acceptance.
\* Where no id is stored, the execution was ended before the relayer had it: the worker
\* was told of no acceptance and, if answers are not lost, there is no intent of it, nor a
\* request that may still arrive. For an answer that is lost see NoDeniedAcceptance.
OutcomeIsGrounded ==
    \A e \in Executions :
        LET r == rows[e] IN
        /\ r.state = "submitted" => r.hash # 0 \/ crashes + faults > 0
        /\ r.state = "succeeded" => r.hash # 0
        /\ r.state = "succeeded" =>
             /\ tx[e].outcome = "success" /\ r.receipt = "success"
             /\ WaitConfirmed => tx[e].status = "confirmed"
        /\ r.state = "reverted" =>
             tx[e].outcome = "reverted" \/ (tx[e].status = "failed" /\ tx[e].reverts)
        /\ r.state = "rejected" => r.oz # "id"
        /\ r.state \in {"canceled", "expired"} /\ r.oz = "id" => tx[e].status = r.state
        /\ r.state = "failed" /\ r.oz = "id" =>
             \/ tx[e].status = "failed" /\ ~tx[e].reverts /\ r.error.code = "RELAYER_FAILED"
             \/ faults > 0
        /\ isTerminal(r) /\ r.oz # "id" =>
             /\ r.state \notin {"succeeded", "reverted"}
             /\ r.state = "canceled" => clientCanceled(e)
             /\ r.state = "expired" => expired[e]
             /\ faults = 0 => learned[e] = 0
             /\ faults = 0 /\ ~LoseReplies => accepted[e] + stray[e] = 0

\* But for a statement that throws, the exception that ends a tick has one cause: a
\* client canceled a row of the batch.
TickFailsOnlyOnCancel ==
    tickFailed => faults > 0 \/ \E e \in Executions : clientCanceled(e)

\* "Terminal public states should not be silently rewritten": a terminal row keeps its
\* state whoever writes it later, the tick with a row it listed before included.
TerminalIsFinal ==
    [][\A e \in Executions : isTerminal(rows[e]) => rows'[e].state = rows[e].state]_vars

\* A terminal row keeps its error and its receipt as well, unless a crash or a failed
\* write tore a poll: a replay may then end the row while a poll awaits the relayer, and
\* the poll still stores the receipt and the error it projects.
TerminalRecordIsFinal ==
    [][\A e \in Executions : isTerminal(rows[e]) /\ crashes + faults = 0 =>
          /\ rows'[e].error = rows[e].error
          /\ rows'[e].receipt = rows[e].receipt]_vars

\* The link to an accepted transaction is never lost: once stored, the id stays, and a
\* hash is only ever replaced by another.
LinkIsKept ==
    [][\A e \in Executions :
          /\ rows[e].oz = "id" => rows'[e].oz = "id"
          /\ rows[e].hash # 0 => rows'[e].hash # 0]_vars

\* No row is claimed after its validity window, the forced Permit2 rows apart, whose
\* witness is awaited after the check.
ClaimIsTimely ==
    [][\A e \in Executions : rows[e].oz = "null" /\ rows'[e].oz = "claim" =>
          \/ ~expired[e]
          \/ rows[e].kind = "clearMacroPermit2V1" /\ rows[e].force]_vars

\* The worker owns post-creation progress: every execution ends.
Progress ==
    \A e \in Executions : rows[e].state # "absent" ~> isTerminal(rows[e])

\* The worker and the API together keep the promise of ExecutionPromise: the claim
\* column is the offer, the stored id the hand-over.
Promise == INSTANCE ExecutionPromise
             WITH Intents <- Executions,
                  status  <- [e \in Executions |-> rows[e].state],
                  hand    <- [e \in Executions |->
                                CASE rows[e].oz = "null"  -> "kept"
                                  [] rows[e].oz = "claim" -> "offered"
                                  [] OTHER                -> "accepted"]

KeepsPromise == Promise!PromiseSpec

-----------------------------------------------------------------------------
(* What the repository says and the code does not do: see the findings.    *)

\* "Relayer did not accept transaction intent": an execution the relayer has an intent of
\* is not ended with this error (it is when the answer to the submission was lost).
NoDeniedAcceptance ==
    [][\A e \in Executions :
          /\ accepted[e] > 0
          /\ rows[e].error.code # "RELAYER_SUBMIT_FAILED"
          => rows'[e].error.code # "RELAYER_SUBMIT_FAILED"]_vars

\* "Transient submit or poll failures should not corrupt public state": a relayer that
\* cannot be reached does not end an execution nobody has offered to it yet.
OutageEndsNothing ==
    \/ "client_error" \in ErrorKinds
    \/ \A e \in Executions : rows[e].error.code # "INTERNAL_INVARIANT"

=============================================================================
