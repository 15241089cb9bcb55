-------------------------- MODULE AuthorizationWorker --------------------------
(***************************************************************************)
(* Executions that wait for the consent of a Safe: the authorization       *)
(* worker's tick (relayer/authorizationWorker.ts), the Safe services it    *)
(* polls (safe/client.ts), the interval that runs it beside the relayer    *)
(* worker (main.ts, relayer/workerTicks.ts), the DELETE handler, the       *)
(* owners of the Safes, the clock, and crashes.                            *)
(*                                                                         *)
(* The code between two awaits is one action.  The awaiting rows are kept  *)
(* in the order of authorization_poll_at: the first due of them have a     *)
(* poll time that has come, and a poll put off is put behind these.        *)
(***************************************************************************)
EXTENDS Lifecycle, Naturals, SequencesExt

CONSTANTS
    N,              \* executions are 1..N
    BatchSize,      \* rows per listing
    MaxAttempts,    \* safe retryMaxAttempts
    MaxCrashes,     \* bound on restarts
    Removable,      \* executions whose chain a later registry may lack
    Served          \* executions whose services answer in the end

ASSUME AuthorizationAssumption ==
    /\ N \in Nat \ {0} /\ BatchSize \in Nat \ {0} /\ MaxAttempts \in Nat \ {0}
    /\ MaxCrashes \in Nat /\ Removable \subseteq 1..N /\ Served \subseteq 1..N

Executions == 1..N

VARIABLES
    state,          \* the state column, "absent" before the insertion
    queue, due,     \* the awaiting rows by authorization_poll_at, and how many are due
    pc, batch,      \* where the authorization tick is suspended, the rows left in its loop
    source,         \* signatureSource: the signature being tried
    attempt,        \* of withRetries
    inFlight,       \* tickInFlight
    relayerTick,    \* processRelayerWorkerTick is running
    consent,        \* what the owners of the Safe have signed
    expired,        \* validBefore has passed
    chainOk,        \* the registry has the chain of the execution
    \* history
    held,           \* the Safe consented to the polled row at some time of its poll
    crashes

history == <<held, crashes>>
world == <<consent, expired, chainOk>>
tick == <<pc, batch, source, attempt>>
vars == <<state, queue, due, pc, batch, source, attempt, inFlight, relayerTick,
          consent, expired, chainOk, held, crashes>>

Place == { "idle", "loop", "signer", "validate", "preflight", "message" }

Source == { "onchain_safe_message", "safe_prepared_signature" }
Consent == { "none", "prepared", "onchain" }
accepts(how) == IF how = "onchain_safe_message" THEN "onchain" ELSE "prepared"
consents(e) == consent[e] \in {"prepared", "onchain"}

Init ==
    /\ state = [e \in Executions |-> "absent"]
    /\ queue = <<>> /\ due = 0
    /\ pc = "idle" /\ batch = <<>> /\ source = "onchain_safe_message" /\ attempt = 0
    /\ inFlight = FALSE /\ relayerTick = FALSE
    /\ consent = [e \in Executions |-> "none"]
    /\ expired = [e \in Executions |-> FALSE]
    /\ chainOk = [e \in Executions |-> TRUE]
    /\ held = FALSE /\ crashes = 0

-----------------------------------------------------------------------------
(* Writing a row: the state column and its place in the order of polls.    *)

cur == Head(batch)

isDue(e) == \E i \in 1..due : queue[i] = e

\* The awaiting rows but e.
without(e) ==
    IF Contains(queue, e) THEN RemoveAt(queue, CHOOSE i \in 1..Len(queue) : queue[i] = e)
                          ELSE queue

\* Faulty: the listing does not look at the state.
leaveListed(e, to) == state' = [state EXCEPT ![e] = to] /\ UNCHANGED <<queue, due>>

\* e is not awaiting any more.
Leave(e, to) ==
    /\ state' = [state EXCEPT ![e] = to]
    /\ queue' = without(e)
    /\ due' = IF isDue(e) THEN due - 1 ELSE due

\* Faulty: the poll time is left as it was.
pollAgain(e) == UNCHANGED <<queue, due>>

\* The poll of e is put off by a delay, which places it anywhere behind the rows that
\* are due. A row that is not awaiting is written as well, and stays out of the listing.
scheduleAuthorizationPoll(e) ==
    IF ~Contains(queue, e)
      THEN UNCHANGED <<queue, due>>
      ELSE LET others == without(e)
               dueNow == IF isDue(e) THEN due - 1 ELSE due
           IN  /\ \E place \in dueNow..Len(others) : queue' = InsertAt(others, place + 1, e)
               /\ due' = dueNow

Continue ==
    /\ pc' = "loop"
    /\ batch' = Tail(batch)
    /\ source' = "onchain_safe_message" /\ attempt' = 0

scheduleNextPoll ==
    /\ scheduleAuthorizationPoll(cur)
    /\ Continue
    /\ UNCHANGED state

\* The exception of a row ends the tick, and runRelayerAndAuthorizationTicks logs it.
AbortTick ==
    /\ pc' = "idle" /\ batch' = <<>>
    /\ source' = "onchain_safe_message" /\ attempt' = 0
    /\ UNCHANGED <<state, queue, due>>

\* Faulty: writes from the row as it was listed.
transitionListed(e, to) == TRUE

\* What transitionState and promoteToPending require of the row as it is now.
mayWrite(e, to) ==
    IF to = "pending" THEN state[e] = "awaiting_authorization"
                      ELSE canTransitionState(state[e], to)

\* A write that the row does not allow any more throws: out of the tick, unless the
\* signature tried is the one of the Safe service, where the catch polls again.
Settle(to) ==
    IF mayWrite(cur, to)
      THEN Leave(cur, to) /\ Continue
    ELSE IF source = "safe_prepared_signature"
      THEN scheduleNextPoll
    ELSE AbortTick

Same == UNCHANGED <<inFlight, relayerTick, consent, expired, chainOk, crashes>>

-----------------------------------------------------------------------------
(* The API and the relayer worker, as far as they write these rows.        *)

\* POST of a Safe execution: it is due at once, behind the rows already due.
createAwaitingAuthorization(e) ==
    /\ state[e] = "absent"
    /\ \A f \in 1..(e - 1) : state[f] # "absent"
    /\ state' = [state EXCEPT ![e] = "awaiting_authorization"]
    /\ queue' = InsertAt(queue, due + 1, e) /\ due' = due + 1
    /\ UNCHANGED <<tick, inFlight, relayerTick, world, history>>

\* DELETE. (What becomes of a promoted row is RelayWorker's matter.)
Cancel(e) ==
    /\ state[e] \in {"awaiting_authorization", "pending"}
    /\ Leave(e, "canceled")
    /\ UNCHANGED <<tick, inFlight, relayerTick, world, history>>

-----------------------------------------------------------------------------
(* The interval of main.ts: a round is both ticks, side by side.           *)

listAwaitingAuthorizationDue == SubSeq(queue, 1, due)

RoundStart ==
    /\ ~inFlight
    /\ inFlight' = TRUE
    /\ relayerTick' = TRUE
    /\ pc' = "loop"
    /\ batch' = SubSeq(listAwaitingAuthorizationDue, 1,
                       Min({BatchSize, Len(listAwaitingAuthorizationDue)}))
    /\ UNCHANGED <<state, queue, due, source, attempt, world, history>>

RelayerTickEnds ==
    /\ relayerTick /\ relayerTick' = FALSE
    /\ UNCHANGED <<state, queue, due, tick, inFlight, world, history>>

AuthorizationTickEnds ==
    /\ pc = "loop" /\ batch = <<>>
    /\ pc' = "idle"
    /\ UNCHANGED <<state, queue, due, batch, source, attempt, inFlight, relayerTick,
                   world, history>>

\* Faulty: the first tick that ends, or fails, ends the round.
roundOverEarly == ~relayerTick \/ pc = "idle"

roundOver == ~relayerTick /\ pc = "idle"

RoundEnds ==
    /\ inFlight /\ roundOver
    /\ inFlight' = FALSE
    /\ UNCHANGED <<state, queue, due, tick, relayerTick, world, history>>

-----------------------------------------------------------------------------
(* The tick: processAuthorizationExecution.                                *)

\* The checks that need no service: the validity window, the chain and metadata.
NextRow ==
    /\ pc = "loop" /\ batch # <<>>
    /\ held' = consents(cur)
    /\ IF expired[cur] THEN Settle("expired")
       ELSE IF ~chainOk[cur] THEN Settle("failed")
       ELSE /\ pc' = "signer"
            /\ UNCHANGED <<state, queue, due, batch, source, attempt>>
    /\ Same

Go(place) ==
    /\ pc' = place
    /\ UNCHANGED <<state, queue, due, batch>>

SignerLoaded ==
    /\ pc = "signer"
    /\ Go("validate") /\ UNCHANGED <<source, attempt, held>> /\ Same

\* Faulty: the exception of getRelayer is not caught.
signerUncaught == AbortTick

signerCaught == scheduleNextPoll

SignerUnavailable ==
    /\ pc = "signer"
    /\ signerCaught
    /\ UNCHANGED held /\ Same

\* Faulty: "0x" passes whatever the Safe answers.
emptyIsValid == source = "onchain_safe_message" \/ consent[cur] = accepts(source)

validSignature == consent[cur] = accepts(source)

\* isValidSignature is asked of the Safe. If the empty signature does not do, the Safe
\* service is asked; if its signature does not do either, the row is polled again.
Validated ==
    /\ pc = "validate"
    /\ IF validSignature
         THEN Go("preflight") /\ UNCHANGED <<source, attempt>>
       ELSE IF source = "onchain_safe_message"
         THEN Go("message") /\ UNCHANGED <<source, attempt>>
       ELSE scheduleNextPoll
    /\ UNCHANGED held /\ Same

ChainUnavailable ==
    /\ pc \in {"validate", "preflight"}
    /\ scheduleNextPoll
    /\ UNCHANGED held /\ Same

PreflightReverts ==
    /\ pc = "preflight" /\ Settle("rejected")
    /\ UNCHANGED held /\ Same

PreflightOk ==
    /\ pc = "preflight" /\ Settle("pending")
    /\ UNCHANGED held /\ Same

\* The service has the message, and a prepared signature once an owner signed, which is
\* not enough for the Safe when others still have to.
MessageLoaded ==
    /\ pc = "message"
    /\ \E signed \in IF consent[cur] = "prepared" THEN {TRUE} ELSE BOOLEAN :
       IF signed
         THEN /\ Go("validate")
              /\ source' = "safe_prepared_signature" /\ attempt' = 0
         ELSE scheduleNextPoll
    /\ UNCHANGED held /\ Same

\* The message is of another Safe or another digest.
MessageUnsupported ==
    /\ pc = "message" /\ Settle("rejected")
    /\ UNCHANGED held /\ Same

SafeStatus == { 0, 400, 401, 403, 404, 429, 500 }

\* classifySafeApiError: 0 stands for an error without a status.
retryable(status) == status \in {0, 404, 429} \/ status >= 500

\* withRetries: a retryable error is tried again, up to retryMaxAttempts calls.
MessageError(status) ==
    /\ pc = "message"
    /\ IF ~retryable(status) THEN Settle("failed")
       ELSE IF attempt + 1 < MaxAttempts
         THEN /\ attempt' = attempt + 1
              /\ UNCHANGED <<state, queue, due, pc, batch, source>>
       ELSE scheduleNextPoll
    /\ UNCHANGED held /\ Same

-----------------------------------------------------------------------------
(* The outside: owners, clock, crashes.                                    *)

\* An owner signs, or a prepared signature is void after a change of owners.
OwnersAct(e) ==
    /\ state[e] = "awaiting_authorization"
    /\ consent[e] # "onchain"
    /\ \E c \in Consent \ {consent[e]} : consent' = [consent EXCEPT ![e] = c]
    /\ held' = (held \/ (batch # <<>> /\ e = cur /\ consent'[e] \in {"prepared", "onchain"}))
    /\ UNCHANGED <<state, queue, due, tick, inFlight, relayerTick, expired, chainOk,
                   crashes>>

\* The clock reaches the poll time of e, and with it those of the rows before it.
PollFallsDue(e) ==
    /\ \E i \in (due + 1)..Len(queue) : queue[i] = e /\ due' = i
    /\ UNCHANGED <<state, queue, tick, inFlight, relayerTick, world, history>>

Expire(e) ==
    /\ state[e] = "awaiting_authorization" /\ ~expired[e]
    /\ expired' = [expired EXCEPT ![e] = TRUE]
    /\ UNCHANGED <<state, queue, due, tick, inFlight, relayerTick, consent, chainOk, history>>

\* The process is started again, perhaps with a registry that lost a chain.
Crash ==
    /\ crashes < MaxCrashes /\ crashes' = crashes + 1
    /\ pc' = "idle" /\ batch' = <<>> /\ source' = "onchain_safe_message" /\ attempt' = 0
    /\ inFlight' = FALSE /\ relayerTick' = FALSE
    /\ \/ UNCHANGED chainOk
       \/ \E e \in Removable : chainOk' = [chainOk EXCEPT ![e] = FALSE]
    /\ UNCHANGED <<state, queue, due, consent, expired, held>>

Services ==
    \/ SignerLoaded \/ SignerUnavailable \/ Validated \/ ChainUnavailable
    \/ PreflightOk \/ PreflightReverts
    \/ MessageLoaded \/ MessageUnsupported \/ \E status \in SafeStatus : MessageError(status)

Rounds == RoundStart \/ AuthorizationTickEnds \/ RoundEnds \/ NextRow

Next ==
    \/ Services \/ Rounds \/ RelayerTickEnds \/ Crash
    \/ \E e \in Executions :
         \/ createAwaitingAuthorization(e) \/ Cancel(e)
         \/ OwnersAct(e) \/ Expire(e) \/ PollFallsDue(e)

Spec == Init /\ [][Next]_vars

\* The interval keeps ticking, both ticks and
\* every await end, poll times come, and no service refuses every answer about a served
\* execution for ever. It may about the others.
Fairness ==
    /\ WF_vars(Rounds) /\ WF_vars(RelayerTickEnds) /\ WF_vars(Services)
    /\ \A e \in Served :
         /\ WF_vars(PollFallsDue(e))
         /\ SF_vars(SignerLoaded /\ cur = e)
         /\ \A how \in Source : SF_vars(Validated /\ cur = e /\ source = how)
         /\ SF_vars((PreflightOk \/ PreflightReverts) /\ cur = e)
         /\ SF_vars((MessageLoaded \/ MessageUnsupported) /\ cur = e)

FairSpec == Spec /\ Fairness

-----------------------------------------------------------------------------
(* Properties.                                                             *)

\* The types of the variables, and the awaiting rows are the queue.
AuthorizationTypeOK ==
    /\ state \in [Executions -> RelayExecutionState \cup {"absent"}]
    /\ IsInjective(queue)
    /\ Range(queue) = { e \in Executions : state[e] = "awaiting_authorization" }
    /\ due \in 0..Len(queue)
    /\ pc \in Place /\ batch \in Seq(Executions)
    /\ source \in Source
    /\ attempt \in 0..(MaxAttempts - 1)
    /\ {inFlight, relayerTick, held} \subseteq BOOLEAN
    /\ consent \in [Executions -> Consent]
    /\ expired \in [Executions -> BOOLEAN] /\ chainOk \in [Executions -> BOOLEAN]
    /\ crashes \in 0..MaxCrashes

\* A tick that awaited a service while the client canceled the row, or listed the row
\* before, never brings it back: "Terminal public states should not be silently rewritten".
DecisionIsFinal ==
    [][\A e \in Executions : state[e] \in TerminalState => state'[e] = state[e]]_vars

\* "0x" or a signature of the Safe service promotes a row only if the Safe accepted it
\* at some time of the very poll that promotes it.
PromotionHasConsent ==
    [][\A e \in Executions :
          state[e] = "awaiting_authorization" /\ state'[e] = "pending" =>
            /\ pc = "preflight" /\ cur = e
            /\ held]_vars

\* Rounds do not overlap: the next one waits for both ticks, the failed ones included.
RoundsDoNotOverlap == relayerTick \/ pc # "idle" => inFlight

\* Whatever fails outside, an exception ends a tick, and leaves the rest of its batch to
\* a later one, only on a row that its client canceled in the meantime.
TickFailsOnlyOnCancel ==
    [][pc # "idle" /\ pc' = "idle" /\ inFlight' =>
          batch = <<>> \/ state[cur] = "canceled"]_vars

\* An execution that is over its window ends, and one whose Safe has consented for good
\* goes on, whatever the failures in between and though those of others go on for ever: with
\* a batch of one, a row whose services always fail does not keep the place ahead of it,
\* and a tick that fails or a round that is slow holds nobody up for good.
AwaitingIsServed ==
    \A e \in Served :
        state[e] = "awaiting_authorization" /\ (expired[e] \/ consents(e))
          ~> state[e] # "awaiting_authorization" \/ ~(expired[e] \/ consents(e))

=============================================================================
