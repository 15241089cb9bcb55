------------------------------- MODULE Admission -------------------------------
(***************************************************************************)
(* POST /v1/relay-executions: the handler of api/routes.ts, the checks and *)
(* writes of api/admitRelayExecution.ts, and the counters and audit rows   *)
(* that must agree with the answer.  Requests of several clients for the   *)
(* same signed intent are handled at the same time; the code between two   *)
(* awaits is one action.  A client may ask again once it has an answer, or *)
(* its connection broke.                                                   *)
(***************************************************************************)
EXTENDS Naturals, Sequences, FiniteSets

CONSTANTS
    Requests,       \* requests, each asked up to MaxTries times
    Clients,        \* client_id of the bearer tokens
    Intents,        \* (chainId, forwarderAddress, signerAddress, digest)
    Profiles,       \* the requests there are
    MaxTries,       \* bound on the attempts of a request
    MaxCrashes,     \* bound on crashes
    MaxFaults       \* bound on failed writes

Method == { "signature", "safe", "permit2" }
Profile == [ client : Clients, intent : Intents, method : Method, force : BOOLEAN ]

ASSUME AdmissionAssumption ==
    /\ Profiles \subseteq Profile
    /\ \A p \in Profiles : p.method = "safe" => ~p.force
    /\ MaxTries \in Nat \ {0} /\ MaxCrashes \in Nat /\ MaxFaults \in Nat
    /\ "nobody" \notin Clients

VARIABLES
    \* the database
    rows,           \* relay_executions, in the order of insertion; the id is the index
    events,         \* the rows that have their first lifecycle event
    \* the process
    pc,             \* where the handler of a request is suspended
    \* what came of an attempt
    answer,         \* status code and execution id of the answer
    audits,         \* create_request_audit rows
    metrics,        \* request outcomes, validation failures, actionable failures counted
    \* outside and history
    profile, tries, crashes, faults

db == <<rows, events>>
vars == <<rows, events, pc, answer, audits, metrics, profile, tries, crashes, faults>>

Place == { "new", "readiness", "relayer", "digest", "witness", "bytecode", "owners",
           "signature", "preflight", "answered" }
Waiting == Place \ {"new", "answered"}

NoId == 0
NoAnswer == [status |-> 0, id |-> NoId]
NoMetrics == [results |-> <<>>, invalid |-> 0, actionable |-> 0]

Init ==
    /\ rows = <<>> /\ events = {}
    /\ pc = [r \in Requests |-> "new"]
    /\ answer = [r \in Requests |-> NoAnswer]
    /\ audits = [r \in Requests |-> <<>>]
    /\ metrics = [r \in Requests |-> NoMetrics]
    /\ profile \in [Requests -> Profiles]
    /\ tries = [r \in Requests |-> 1]
    /\ crashes = 0 /\ faults = 0

-----------------------------------------------------------------------------
(* Errors, and how the route counts them.                                  *)

Rejection(status, code, audit) == [status |-> status, code |-> code, audit |-> audit]

\* The checks of validateSharedAdmission that need no service, in their order.
StaticRejections ==
    { Rejection(403, "CHAIN_NOT_ALLOWED", "CHAIN_NOT_ALLOWED"),
      Rejection(400, "VALIDATION_ERROR", "VALIDATION_ERROR"),
      Rejection(422, "INVALID_CLEAR_MACRO_PAYLOAD", "INVALID_CLEAR_MACRO_PAYLOAD"),
      Rejection(403, "PROVIDER_NOT_ALLOWED", "PROVIDER_NOT_ALLOWED"),
      Rejection(422, "CLEAR_MACRO_EXPIRED", "CLEAR_MACRO_EXPIRED"),
      Rejection(422, "CLEAR_MACRO_NOT_YET_VALID", "CLEAR_MACRO_NOT_YET_VALID"),
      Rejection(403, "MACRO_NOT_ALLOWED", "MACRO_NOT_ALLOWED") }

NotReady(code) == Rejection(503, code, "READINESS_UNAVAILABLE")
ChainUnavailable == Rejection(503, "CHAIN_UNAVAILABLE", "CHAIN_UNAVAILABLE")
NotEnabled == Rejection(400, "VALIDATION_ERROR", "VALIDATION_ERROR")
NotSupported == Rejection(403, "CHAIN_NOT_ALLOWED", "VALIDATION_ERROR")
Unprocessable(code) == Rejection(422, code, code)

RejectedProvider ==
    { "PROVIDER_NOT_READY", "CHAIN_UNAVAILABLE", "RELAYER_UNAVAILABLE", "RELAYER_RATE_LIMITED" }

ValidationFailure ==
    { "VALIDATION_ERROR", "INVALID_CLEAR_MACRO_PAYLOAD", "PROVIDER_NOT_ALLOWED",
      "MACRO_NOT_ALLOWED", "CHAIN_NOT_ALLOWED", "CLEAR_MACRO_EXPIRED",
      "CLEAR_MACRO_NOT_YET_VALID", "SIGNATURE_INVALID", "PREFLIGHT_REVERTED",
      "DUPLICATE_EXECUTION", "UNAUTHORIZED" }

mapRequestResultFromApiError(code) ==
    IF code \in RejectedProvider THEN "rejected_provider"
    ELSE IF code \in ValidationFailure THEN "rejected_client"
    ELSE "error"

\* isActionableFailure at the stage "admission".
isActionableFailure(code) ==
    code \in { "PROVIDER_NOT_READY", "RELAYER_UNAVAILABLE", "CHAIN_UNAVAILABLE",
               "RELAYER_RATE_LIMITED" }

\* Faulty: the catch of the route counts an error that was counted before.
recordAlways(m, result) == [m EXCEPT !.results = @ \o <<result, result>>]

recordRequestOnce(m, result) == [m EXCEPT !.results = Append(@, result)]

countError(m, code) ==
    [recordRequestOnce(m, mapRequestResultFromApiError(code))
       EXCEPT !.invalid = IF code \in ValidationFailure THEN @ + 1 ELSE @]

-----------------------------------------------------------------------------
(* How an attempt ends.                                                    *)

Respond(r, status, id, counted) ==
    /\ pc' = [pc EXCEPT ![r] = "answered"]
    /\ answer' = [answer EXCEPT ![r] = [status |-> status, id |-> id]]
    /\ metrics' = [metrics EXCEPT ![r] = counted]

Audit(r, code, id) ==
    audits' = [audits EXCEPT ![r] = Append(@, [code |-> code, id |-> id])]

\* A write throws: the error handler answers 500, whatever was written before.
WriteFails(r) ==
    /\ faults < MaxFaults /\ faults' = faults + 1
    /\ Respond(r, 500, NoId, recordRequestOnce(metrics[r], "error"))
    /\ UNCHANGED <<profile, tries, crashes>>

\* The process dies: the requests it was handling get no answer.
Dies ==
    /\ crashes < MaxCrashes /\ crashes' = crashes + 1
    /\ pc' = [r \in Requests |-> IF pc[r] \in Waiting THEN "answered" ELSE pc[r]]
    /\ UNCHANGED <<answer, metrics, profile, tries, faults>>

Answer(r, status, id, result, code) ==
    /\ Audit(r, code, id)
    /\ Respond(r, status, id, recordRequestOnce(metrics[r], result))
    /\ UNCHANGED <<profile, tries, crashes, faults>>

\* The audit row is written, then the error returned and counted.
Reject(r, x) ==
    \/ /\ Audit(r, x.audit, NoId)
       /\ Respond(r, x.status, NoId,
                  [countError(metrics[r], x.code)
                     EXCEPT !.actionable = IF isActionableFailure(x.code) THEN @ + 1 ELSE @])
       /\ UNCHANGED <<rows, events, profile, tries, crashes, faults>>
    \/ WriteFails(r) /\ UNCHANGED <<rows, events, audits>>

GoTo(r, place) ==
    /\ pc' = [pc EXCEPT ![r] = place]
    /\ UNCHANGED <<rows, events, answer, audits, metrics, profile, tries, crashes, faults>>

-----------------------------------------------------------------------------
(* The executions of an intent.                                            *)

findByDedupKey(k) == { id \in 1..Len(rows) : rows[id].intent = k }

\* finalizeCreatedExecution, after the audit: the stored view of the transaction is projected
\* on the row, and where the row may not go to that state, or a statement fails, it throws.
FinalizeThrows(r, id) ==
    /\ Audit(r, "DUPLICATE_REPLAYED", id)
    /\ Respond(r, 500, NoId, recordRequestOnce(metrics[r], "error"))
    /\ UNCHANGED <<rows, events, profile, tries, crashes, faults>>

\* Faulty: replays to whoever asks.
replayToAnyone(r, id) ==
    \/ Answer(r, 200, id, "duplicate", "DUPLICATE_REPLAYED") /\ UNCHANGED db
    \/ WriteFails(r) /\ UNCHANGED <<rows, events, audits>>

replayOrConflict(r, id) ==
    IF rows[id].client = profile[r].client
      THEN \/ Answer(r, 200, id, "duplicate", "DUPLICATE_REPLAYED") /\ UNCHANGED db
           \/ FinalizeThrows(r, id)
           \/ WriteFails(r) /\ UNCHANGED <<rows, events, audits>>
      ELSE Reject(r, Rejection(409, "DUPLICATE_EXECUTION", "DUPLICATE_HIDDEN"))

\* Faulty: the table has no unique index on the dedup key.
noConstraint(k) == FALSE

uniqueViolated(k) == findByDedupKey(k) # {}

\* Faulty: the row of a Safe request is stored without its client.
newRowUnowned(r, state, forced) ==
    [ client |-> IF state = "pending" THEN profile[r].client ELSE "nobody",
      intent |-> profile[r].intent, state |-> state,
      forceAfterPreflightRevert |-> forced, by |-> <<r, tries[r]>> ]

newRow(r, state, forced) ==
    [ client |-> profile[r].client, intent |-> profile[r].intent, state |-> state,
      forceAfterPreflightRevert |-> forced, by |-> <<r, tries[r]>> ]

\* Faulty: the insertion that lost the race is answered like the one that won.
persistAgain(r, state, forced) ==
    IF uniqueViolated(profile[r].intent)
      THEN \E id \in findByDedupKey(profile[r].intent) :
             Answer(r, 200, id, "duplicate", "CREATED") /\ UNCHANGED db
      ELSE /\ rows' = Append(rows, newRow(r, state, forced)) /\ events' = events \cup {Len(rows) + 1}
           /\ Answer(r, 202, Len(rows) + 1, "created", "CREATED")

\* Insert the row, audit it, append its event; a failure of one, or the death of the
\* process, leaves the writes before it. The UNIQUE constraint answers a request that lost the race.
persistExecution(r, state, forced) ==
    IF uniqueViolated(profile[r].intent)
      THEN \E id \in findByDedupKey(profile[r].intent) : replayOrConflict(r, id)
      ELSE LET id == Len(rows) + 1 IN
           \/ /\ rows' = Append(rows, newRow(r, state, forced)) /\ events' = events \cup {id}
              /\ Answer(r, 202, id, "created", "CREATED")
           \/ /\ rows' = Append(rows, newRow(r, state, forced))
              /\ WriteFails(r) \/ Dies
              /\ \/ UNCHANGED <<audits, events>>
                 \/ Audit(r, "CREATED", id) /\ events' \in {events, events \cup {id}}
           \/ WriteFails(r) /\ UNCHANGED <<rows, events, audits>>

-----------------------------------------------------------------------------
(* The handler.                                                            *)

\* Everything up to the first await. The fields and the token are checked before
\* admission, and leave no audit row; the body is checked by validateSharedAdmission.
Arrive(r) ==
    /\ pc[r] = "new"
    /\ \/ GoTo(r, "readiness")
       \/ \E x \in { <<400, "VALIDATION_ERROR">>, <<401, "UNAUTHORIZED">> } :
            /\ Respond(r, x[1], NoId, countError(metrics[r], x[2]))
            /\ UNCHANGED <<rows, events, audits, profile, tries, crashes, faults>>
       \/ \E x \in StaticRejections : Reject(r, x)

ReadinessKnown(r) ==
    /\ pc[r] = "readiness"
    /\ \/ \E code \in { "PROVIDER_NOT_READY", "RELAYER_UNAVAILABLE", "RELAYER_RATE_LIMITED" } :
            Reject(r, NotReady(code))
       \/ GoTo(r, "relayer")

RelayerKnown(r) ==
    /\ pc[r] = "relayer"
    /\ \/ Reject(r, NotReady("RELAYER_UNAVAILABLE"))
       \/ profile[r].method = "permit2" /\ Reject(r, Unprocessable("VALIDATION_ERROR"))
       \/ GoTo(r, IF profile[r].method = "permit2" THEN "witness" ELSE "digest")

\* admitClearMacroV1: the chain has told the digest, and the intent is known.
DigestKnown(r) ==
    /\ pc[r] = "digest"
    /\ \/ Reject(r, ChainUnavailable)
       \/ \E id \in findByDedupKey(profile[r].intent) : replayOrConflict(r, id)
       \/ /\ findByDedupKey(profile[r].intent) = {}
          /\ \/ profile[r].method = "safe" /\ GoTo(r, "bytecode")
             \/ profile[r].method = "safe" /\ Reject(r, NotEnabled)
             \/ profile[r].method = "safe" /\ Reject(r, NotSupported)
             \/ profile[r].method = "signature" /\ GoTo(r, "signature")

\* admitClearMacroPermit2V1: the digest is computed from what the chain has told.
WitnessKnown(r) ==
    /\ pc[r] = "witness"
    /\ \/ Reject(r, ChainUnavailable)
       \/ \E id \in findByDedupKey(profile[r].intent) : replayOrConflict(r, id)
       \/ findByDedupKey(profile[r].intent) = {} /\ GoTo(r, "signature")

BytecodeKnown(r) ==
    /\ pc[r] = "bytecode"
    /\ \/ Reject(r, ChainUnavailable)
       \/ Reject(r, Unprocessable("VALIDATION_ERROR"))
       \/ GoTo(r, "owners")

\* assertEoaOwners: whatever it throws is the client's error.
OwnersKnown(r) ==
    /\ pc[r] = "owners"
    /\ \/ Reject(r, Unprocessable("VALIDATION_ERROR"))
       \/ persistExecution(r, "awaiting_authorization", FALSE)

SignatureKnown(r) ==
    /\ pc[r] = "signature"
    /\ \/ Reject(r, ChainUnavailable)
       \/ Reject(r, Unprocessable("SIGNATURE_INVALID"))
       \/ GoTo(r, "preflight")

PreflightResult == { "ok", "deterministic_revert", "rpc_unavailable" }

\* A predicted revert is refused, unless the request forces the execution.
PreflightKnown(r) ==
    /\ pc[r] = "preflight"
    /\ \E result \in PreflightResult :
       LET reverts == result = "deterministic_revert" IN
       \/ result = "rpc_unavailable" /\ Reject(r, ChainUnavailable)
       \/ reverts /\ ~profile[r].force /\ Reject(r, Unprocessable("PREFLIGHT_REVERTED"))
       \/ /\ result = "ok" \/ (reverts /\ profile[r].force)
          /\ persistExecution(r, "pending", reverts)

-----------------------------------------------------------------------------

\* The client asks again, after an answer or a broken connection.
Retry(r) ==
    /\ pc[r] = "answered" /\ tries[r] < MaxTries
    /\ tries' = [tries EXCEPT ![r] = @ + 1]
    /\ pc' = [pc EXCEPT ![r] = "new"]
    /\ answer' = [answer EXCEPT ![r] = NoAnswer]
    /\ audits' = [audits EXCEPT ![r] = <<>>]
    /\ metrics' = [metrics EXCEPT ![r] = NoMetrics]
    /\ UNCHANGED <<rows, events, profile, crashes, faults>>

Crash ==
    /\ \E r \in Requests : pc[r] \in Waiting
    /\ Dies
    /\ UNCHANGED <<rows, events, audits>>

Handle(r) ==
    \/ Arrive(r) \/ ReadinessKnown(r) \/ RelayerKnown(r)
    \/ DigestKnown(r) \/ WitnessKnown(r) \/ BytecodeKnown(r) \/ OwnersKnown(r)
    \/ SignatureKnown(r) \/ PreflightKnown(r)

Next == Crash \/ \E r \in Requests : Handle(r) \/ Retry(r)

Spec == Init /\ [][Next]_vars

-----------------------------------------------------------------------------
(* Properties.                                                             *)

\* The types of the variables.
AdmissionTypeOK ==
    /\ \A i \in 1..Len(rows) :
         /\ rows[i].client \in Clients /\ rows[i].intent \in Intents
         /\ rows[i].state \in {"pending", "awaiting_authorization"}
         /\ rows[i].forceAfterPreflightRevert \in BOOLEAN
    /\ events \subseteq 1..Len(rows)
    /\ pc \in [Requests -> Place]
    /\ answer \in [Requests -> [ status : {0, 200, 202, 400, 401, 403, 409, 422, 500, 503},
                                 id : 0..Len(rows) ]]
    /\ profile \in [Requests -> Profiles]
    /\ tries \in [Requests -> 1..MaxTries]
    /\ crashes \in 0..MaxCrashes /\ faults \in 0..MaxFaults

\* "Exact signed authorization retries are deduplicated": however their requests
\* interleave, crash and are asked again, an intent has one execution.
OneExecutionPerIntent ==
    \A i, j \in 1..Len(rows) : rows[i].intent = rows[j].intent => i = j

\* A duplicate is no way around the ownership of an execution: an answer names an
\* execution only to the client that owns it, and 202 is said once, to the attempt
\* that inserted the row.
AnswersMatchRows ==
    \A r \in Requests :
        LET a == answer[r] IN
        /\ a.id # NoId =>
             /\ rows[a.id].client = profile[r].client
             /\ rows[a.id].intent = profile[r].intent
             /\ a.status = IF rows[a.id].by = <<r, tries[r]>> THEN 202 ELSE 200
        /\ a.status \in {200, 202} => a.id # NoId
        /\ a.status = 409 =>
             \E id \in findByDedupKey(profile[r].intent) : rows[id].client # profile[r].client

\* The audit says what was answered: one row for each attempt that reached admission,
\* with the id and the kind of the answer, unless writing failed.
AuditMatchesAnswer ==
    \A r \in Requests :
        /\ answer[r].status \in {200, 202, 403, 409, 422, 503} =>
             /\ Len(audits[r]) = 1
             /\ audits[r][1].id = answer[r].id
             /\ answer[r].status = 202 <=> audits[r][1].code = "CREATED"
             /\ answer[r].status = 200 <=> audits[r][1].code = "DUPLICATE_REPLAYED"
             /\ answer[r].status = 409 <=> audits[r][1].code = "DUPLICATE_HIDDEN"
        /\ Len(audits[r]) <= 1

\* Each answered attempt is counted once, on the side the status code puts it, and
\* whoever is on call is paged for what the provider could not do.
MetricsMatchAnswer ==
    \A r \in Requests : answer[r].status # 0 =>
        LET s == answer[r].status IN
        /\ metrics[r].results =
             << CASE s = 202 -> "created" [] s = 200 -> "duplicate"
                  [] s = 503 -> "rejected_provider" [] s = 500 -> "error"
                  [] OTHER -> "rejected_client" >>
        /\ metrics[r].actionable = IF s = 503 THEN 1 ELSE 0
        /\ metrics[r].invalid = IF s \in 400..499 THEN 1 ELSE 0

\* The checks, waits and races of all requests together decide like AdmissionPromise,
\* where every answer is one step.
toldOf(status) ==
    CASE status = 0 -> "nothing" [] status = 202 -> "created" [] status = 200 -> "replayed"
      [] status = 409 -> "conflict" [] OTHER -> "refused"

Promise == INSTANCE AdmissionPromise
             WITH Asks <- Profiles, asks <- profile, nobody <- "nobody",
                  owner <- [k \in Intents |->
                              IF findByDedupKey(k) = {} THEN "nobody"
                              ELSE rows[CHOOSE id \in findByDedupKey(k) : TRUE].client],
                  told <- [r \in Requests |-> toldOf(answer[r].status)]

DecidesAtOnce == Promise!PromiseSpec

=============================================================================
