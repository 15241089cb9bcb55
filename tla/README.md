# Verification of the ClearMacro provider

The provider takes signed relay intents over HTTP, keeps them in SQLite, hands each to an
OpenZeppelin Relayer (OZ), and follows the transaction to its end. This directory holds TLA+
models of that program and of its deployment, TLC runs on small instances, and TLAPS proofs
for every instance.

## 1. The system

One Node process over one synchronous SQLite file. All concurrency is between *awaits*: the
code from one await to the next runs to completion, everything else may run at the await. Two
things cut such a block: a statement that throws, and the death of the process between two
statements (each commits on its own; only `client.transaction` groups them).

| Part | State | Operations | Talks to |
|---|---|---|---|
| Lifecycle `tx/lifecycle.ts` | - | transition table | used by the store |
| Store `db/repositories.ts` | `relay_executions`, `relayer_transactions`, events, audit | listings, guarded updates, transitions | every writer |
| Projection `relayer/mapper.ts` | - | OZ view and receipt -> public state | worker, replay |
| Relayer worker `relayer/worker.ts` | the listed batch, `ozPollBackoff` | a tick: submit phase, poll phase | store, OZ, chain RPC |
| Authorization worker `relayer/authorizationWorker.ts` | listed batch; poll schedule in the row | poll Safe messages, promote to `pending` | store, Safe API, RPC |
| Safe client `safe/*` | - | bounded retries, error classes | Safe service |
| Scheduler `main.ts`, `relayer/workerTicks.ts` | `tickInFlight` | one round of both ticks at a time, exceptions contained | workers |
| Admission `api/admitRelayExecution.ts` | - | validate, dedup, insert; replay an existing one | store, RPC, Safe API |
| Cancel `api/cancelRelayExecution.ts` | - | conditional cancel before submission | store |
| Readiness `chain/readiness.ts`, `readinessCache.ts` | cache, in-flight probes | TTL cache with single flight | OZ, RPC |
| Metrics `metrics/*` | counters, gauges | count each request once, sample readiness | API, cache |
| Migrations `db/migrations.ts` | `schema_migrations`, the schema | apply what is missing | service start, `migrate` |
| Discovery `config/registry.ts`, `relayerDiscovery.ts` | `relayerIdByChainId` | bind one relayer to each chain, or refuse to start | OZ |
| Deployment `scripts/prod-*`, `scripts/lib/oz-*` | `provider.json`, bootstrap files, OZ's networks and relayers | validate, verify, plan, apply, restart | OZ, service |
| Payload hashing, funding estimates, development scripts | - | - | - |

**How they meet.** The row is the only shared state. The API inserts it (`pending`, or
`awaiting_authorization` for a Safe), the authorization worker promotes it, the relayer worker
submits and polls it, and DELETE or a repeated POST may write it at any await of either worker.
`oz_transaction_id` is the lock and the link at once: NULL, a `claim:` placeholder while
`submitTransaction` runs, then OZ's id.

**What is hard, and what makes each part correct**

- *Stale rows.* A tick lists rows, awaits, then writes. Terminal states must survive this;
  a cancel must keep the intent from OZ; an illegal transition throws, and where it is caught matters.
- *Hand-over.* An intent the worker was told is accepted is never submitted again, also when
  storing the acknowledgement fails or the process dies. When the answer is lost the row knows nothing of it.
- *Outcome.* The public state must be what happened: on chain, at OZ, or in a check before submission.
- *Retries.* Submissions are bounded by a count kept in an error column.
- *Progress.* Every execution ends, in spite of rate limits, unavailable RPCs and restarts.
- *Authorization.* A poll races a cancel and the owners of the Safe; failures of one row's services
  must not starve the others; a promotion needs a signature that was valid in this very poll.
- *Admission.* One execution per intent under racing POSTs, failed writes and crashes; rows, answers,
  audit and metrics agree; other clients learn no execution.
- *Cache.* One evaluation at a time per chain; whoever joins is answered; no news is older than what was said before.
- *Migrations.* Two processes that migrate at once lose no rows and leave a schema that fits its record.
- *Deployment.* An apply is a sequence of calls of which any may fail; it must converge, and never
  make two relayers of a chain active; the service must not bind a wrong one.

`PROJECT.json` lists the hazards at their lines, with the properties that guard them, or what is still missing.

## 2. The modules

```
Lifecycle ---+
             +--> ExecutionStore --> RelayWorker --> MCRelayWorker      (TLC)
RelayerProjection                        |    \--> RelayWorkerProofs --> RelayWorkerSafetyProofs
                                         |            --> RelayWorkerTickProofs --> RelayWorkerOutcomeProofs  (TLAPS)
Lifecycle --> ExecutionPromise <---------+  (refinement)
Lifecycle --> AuthorizationWorker                                       (TLC)
                    \--> AuthorizationProofs                            (TLAPS)
AdmissionPromise <-- Admission --> MCAdmission                          (refinement, TLC)
                          \--> AdmissionProofs                          (TLAPS)
Readiness                                                               (TLC)
     \--> ReadinessProofs                                               (TLAPS)
Migrations --> Operations --> MCOperations                              (TLC)
                    \--> OperationsProofs                               (TLAPS)
```

- **Lifecycle**: states and transition table.
- **RelayerProjection**: `projectRelayerState`. A view of an OZ transaction is its status, whether
  its reason reads like a revert, a hash (0 for none; replacements count up to `MaxHash`) and what
  the chain did with it.
- **ExecutionStore**: one row and what each statement selects, requires and writes. Rows are
  numbered by `created_at`; `FirstOf` is `ORDER BY .. LIMIT`. Columns nobody decides on are left out.
- **RelayWorker**: the tick with everything that may happen at its awaits.
  `pc` says where the tick is suspended; `submit` and `poll` are loop heads, where no handler can run.
  `MaxFaults` bounds the blocks in which a statement throws: wherever one does, the block ends in the
  catch the code has there, with the writes made before it.
- **ExecutionPromise**: what a client may rely on without knowing worker, database or relayer: an
  intent is kept, offered or accepted, and who may end the execution depends on which.

### RelayWorker and the code

| Action | Code |
|---|---|
| `Admit`, `Replay` | POST: `persistExecution`; `finalizeCreatedExecution` on a row met again |
| `Cancel` | DELETE: `cancelRelayExecution` |
| `TickStart`, `SubmitNext` | the interval; the listing; the chain and then `getRelayer` |
| `RelayerLoaded`, `RelayerUnavailable` | answer of `getRelayer`; the outer catch |
| `Permit2Loaded`, `Permit2Unavailable` | `loadPermit2Context`, before the preflight or, for a forced row, after the expiry check |
| `PreflightOk`, `PreflightReverts`, `PreflightUnavailable` | the preflight; on success the expiry check, the claim and the call of `submitTransaction` in one block |
| `SubmitAccepted` | acknowledgement, then upsert, each with a catch that appends an event: the writes may throw, the events too (into the outer catch); a crash may fall between |
| `SubmitRefused`, `SubmitTimesOut` | the inner catch: release, then retry or fail; either may throw into the outer catch, and that one out of the tick; a crash may fall between |
| `SubmitThrows` | a statement before the claim, or the claim, throws into the outer catch |
| `TickThrows` | a listing, an event after a final state, or a catch's own statement throws out of the tick |
| `PollStart`, `PollNext` | the second listing; its loop |
| `TransactionLoaded`, `ReceiptLoaded`, `ReceiptUnavailable` | `getTransaction`, the receipt, then upsert, hash, state, metadata and projected state; any of them may throw into the catch, a crash may fall after any of them |
| `TransactionUnavailable` | the catch of a poll: a 429 starts the backoff |
| `OzAccepts`, `OzAcceptsStray`, `OzAdvances`, `Expire`, `BackoffElapses`, `Crash` | the outside |

OZ is external and is modelled from how the worker uses it: it takes an intent, gives it an id and
perhaps a hash, replaces hashes, mines, confirms, fails, cancels or expires it. `stray` counts
requests the worker gave up on that may still arrive. The transaction of an acceptance whose
answer was lost is not followed: no row has its id.

Left out: the branches for a missing signature or a malformed `permit2_json` (no row is created
so), events, metrics and logs (no decision reads them). Two writes in one millisecond are ordered
by the writes, where `updated_at` leaves them tied.

### AuthorizationWorker and the code

The awaiting rows are kept in the order of their poll times: `queue`, of which the first `due` have
come. A poll put off goes anywhere behind the due ones, so the computed delay is abstracted.

| Action | Code |
|---|---|
| `RoundStart`, `RoundEnds` | the interval of `main.ts`: nothing while `tickInFlight`; the listing; `finally` |
| `RelayerTickEnds`, `AuthorizationTickEnds` | the two promises of `runRelayerAndAuthorizationTicks` |
| `NextRow` | `processAuthorizationExecution` up to its first await: expiry, chain |
| `SignerLoaded`, `SignerUnavailable` | `getRelayerSigner` and its catch |
| `Validated`, `PreflightOk`, `PreflightReverts`, `ChainUnavailable` | `tryPromoteExecution`, for the empty signature and then the prepared one |
| `MessageLoaded`, `MessageUnsupported`, `MessageError` | `getMessage` with its retries and the classes of `safe/errors.ts` |
| `Cancel`, `createAwaitingAuthorization` | DELETE; the insertion of a Safe execution |
| `OwnersAct`, `PollFallsDue`, `Expire`, `Crash` | the outside |

`Settle` is a transition made after an await: it throws when the row was canceled meanwhile. Inside
the `try` around `getMessage` the exception is caught and the row polled again (a write to a terminal
row that changes only its poll time); everywhere else it ends the tick.

### Admission and the code

A handler is at one of its awaits (`pc`). What a check finds is a choice; what the handler does then is
the code's.

| Action | Code |
|---|---|
| `Arrive` | `api/routes.ts` and `validateSharedAdmission` up to the first await |
| `ReadinessKnown`, `RelayerKnown` | the rest of `validateSharedAdmission`, the Permit2 spender check |
| `DigestKnown`, `WitnessKnown` | digest, then `findByDedupKey` and `replayOrConflict`; the branch to a Safe |
| `BytecodeKnown`, `OwnersKnown` | the checks of a Safe; insertion as `awaiting_authorization` |
| `SignatureKnown`, `PreflightKnown` | signature, preflight, `forceAfterPreflightRevert`; insertion as `pending` |
| `Retry`, `Crash` | a client that asks again; the process |

`persistExecution` inserts, audits and appends the event in one block that may break after each
write: by an exception (500) or by the death of the process. The UNIQUE index decides a race.
`finalizeCreatedExecution` on a replay writes the row's state and is `RelayWorker`'s `Replay`; that it may throw
there, after the duplicate was audited, and the client gets a 500, is `FinalizeThrows`.
`AdmissionPromise` is the same as one atomic decision per answer.

### Readiness and the code

| Action | Code |
|---|---|
| `ProbeArrives`, `ProbeAnswered` | GET `/readyz`: all chains at once; `Promise.all` |
| `SampleStarts`, `SampleTaken` | `startReadinessMetricsSampler`: one chain after the other, one round at a time; the gauge |
| `Ask`, `Ends` (in these) | the cached evaluator: hit, join or begin; TTL, `inflight.delete`, `resolve` |
| `RelayerCallAnswered` | `ready`, `getRelayer`, `getNetwork`, each under `withOzRateLimitRetries` |
| `BalanceKnown` | the balance over the first RPC that answers |
| `Changes`, `Tick` | the outside |

### Migrations, Operations and the code

`Migrations` is composed into `Operations`: the start of the service (`Boot`) runs it beside `migrate`.

| Action | Code |
|---|---|
| `LookUp`, `Apply` | one version in `applyPendingMigrations`: the SELECT; the transaction with the record |
| `Boot`, `Bind`, `Serve` | `main.ts`: the registry, then the migrations or, with `RUN_MIGRATIONS_ON_START=false`, none (`SkipMigrations`); `bindRelayersToRegistry`; requests |
| `Start`, `Validate`, `Verify` | `prod-up.sh`: `prod:validate`, the start of OZ with an import when its Redis is empty, `prod:verify-oz-import` |
| `Plan`, `ApplyNext`, `CheckBinding`, `WriteFiles` | `prod:apply-config`: `buildReconcilePlan`, each call of `applyReconcilePlan`, `validateRelayerBinding`, the files |
| `RestartApp` | the app is force-recreated |
| `ProdInit`, `Edit`, `EmptyRedis`, `MigrateByHand` | the operator |
| `RelayerChanges`, `Killed` | others who use OZ's API; processes that die |

The reads of one listing are one action that may miss any set of relayers, as the code skips those
it cannot read. Each call that changes OZ is an action of its own and may fail with or without effect.

## 3. The runs

The `worker_*` and `finding_*` runs use `MCRelayWorker`, but `finding_up_refuses`, which uses `MCOperations`.

| Run | Instance | Shows |
|---|---|---|
| `worker_faults` | 1 execution, all four profiles, 2 attempts, 2 hashes, confirmations awaited, answers lost, chain removed at a restart, 2 crashes, 1 statement that throws, in any block | types; a claim is left behind only by a crash or a failed write; no resubmission; the budget of calls; outcomes are grounded; a terminal row keeps its state, and until a poll is torn its error and receipt; the link is never lost; claims are timely; the worker implements `ExecutionPromise` |
| `worker_pair` | 2 executions in one batch, retries and a crash | the inductive hand-over invariant; one intent per execution; outcomes are grounded, and an execution that ended without an id left OZ no intent; a cancel stops relaying; a tick is aborted by nothing but a cancel |
| `worker_progress` | 2 Permit2 executions, batch of 1, rate limits, fairness | every execution ends |
| `authorization` | 2 Safe executions, batch of 1, 2 Safe calls per poll, 1 crash, the chain of the first removable, services of the second answer in the end | a decision is final; a promotion has consent; only a cancel aborts a tick; rounds do not overlap; the second is served although everything about the first may fail for ever |
| `admission` | 2 requests of 2 clients over 2 intents and every method, each asked twice, 1 failed write, 1 crash | one execution per intent; answers, audit and metrics agree with the rows; it implements `AdmissionPromise` |
| `readiness` | 2 chains, 1 probe, 2 sampler rounds, 1 change outside, 2 attempts, TTLs of 2 and 1 ticks | single flight; answers are grounded in their evaluation; news only gets newer; everyone is answered |
| `operations` | 2 chains, 3 configurations, 1 relayer made by hand, 2 processes that migrate, databases of age 0 and 2, 2 troubles | what an undisturbed apply reaches; it never doubles a relayer; it converges; the binding is exact; schema and record agree; rows are kept |
| `finding_*` | smallest instance that shows it | a disagreement between the code and what the repository says, see 5 |

*Bounds.* `N`, `RetryCount`, `MaxHash`, `BatchSize`, `MaxCrashes`, `MaxFaults`. One execution is
enough for what concerns a row and its relayer; two in a batch are the least for what a row does to
the next (listed together, cancelled in between, a tick aborted). Two attempts distinguish the
retry from the last; two hashes, a replacement from a first one. One crash reaches every block; the
second lets a restart meet what the first left half done. One throwing statement reaches every catch; where a
second would add to it (an exception in a catch), it is an alternative of the same fault. What is proved (4) does not depend on any
of these numbers.
`MaxAttempts`, `Removable`, `Served`: with a batch of one the first row can take the place of the
second at every poll, which is what `AwaitingIsServed` is about.
`MaxTries`, `MaxCrashes`, `MaxFaults`: two requests make every race of two handlers, the second try
meets what a crash or a failed write of the first left.
`MaxSamples`, `MaxChanges`, `SuccessTtl`, `RateLimitedTtl`: two sampler rounds and a probe are
three askers of a chain in time; different TTLs tell the two kinds of entries apart; one change
separates what an evaluation saw first from what it saw last.
`MaxTroubles`, `Releases`, `MaxRows`: two troubles are, say, an edit and a failed call in the apply
of it; all of the kinds share the bound. Releases 0 and 2 are a new database and one with rows that 003 rebuilds.

*Fairness* (`FairSpec`, only for `Progress`): the interval fires and every await returns
(`WF(Worker)`; `call` aborts after `timeoutMs`, SQLite is synchronous); the backoff ends; a
dependency asked again and again answers some time (strong fairness of the good answers of
`getRelayer`, the Permit2 context, the preflight, `getTransaction` and the receipt); OZ brings each
transaction to an end (`WF(OzAdvances(e))`). No fairness is assumed of clients, crashes, refusals or
the clock. `getTransaction` is fair for the row in hand, not for each row: rows whose poll always
fails are a listed hazard without a property yet.

Fairness of the other runs: `authorization`: the interval, both ticks and every await end (each call has
a timeout); for served executions each service answers if it is asked again and again, and their poll
times come. Nothing is assumed of the others. `readiness`: calls of an evaluation end and the process
runs. `operations`: a script that runs goes on, and the operator runs `prod:apply-config` again and again;
the property is conditional on a world that ends up left alone. `admission` has no liveness: a handler
may be left at an await by a crash.

## 4. The proofs

Every safety property of the runs (invariants, action properties, the two refinements) is also a theorem
of its specification, for all constants that satisfy the named assumptions of the modules: any number
of executions, requests, chains, processes, crashes, faults and retries. None of the properties is
inductive as it stands. Each proof has an inductive invariant, which TLC checked on the run of its
component first; then one lemma per action says that it is kept, and the theorems are corollaries.

**RelayWorker**, four modules, each of which extends the one before and uses its invariant.

- `RelayWorkerProofs`: `TypeCorrect`. `TypeInv` adds to the types that at an await there is a row in hand.
- `RelayWorkerSafetyProofs`: `HandOverIsSafe`, with `HandOverInv`. That a cancel stops relaying needs: a row
  in flight is claimed; a view is stored only for a row with an id (so a replay cannot touch a row in
  flight); what is submittable was never accepted; a polled row has its id. `HandOverRow` says this of one
  row. Corollaries: `NeverResubmitted`, `IntentIsUnique`, `CancelIsFinal`, `ClaimIsHeldInFlight`, and the
  action properties `TerminalStaysTerminal`, `LinkStays`.
- `RelayWorkerTickProofs`: `TickIsExact`, with `TickInv`. The tick decides on copies made at the listing;
  `BatchAsListed` says how far they can be off: a row of the batch is as it was listed, or canceled by its
  client since, or claimed by the call in flight. So only a cancel can make a transition throw
  (`TickSurvivesFailures`). `Budget` ties the calls made for a row to the attempts in its error column, the call
  in flight, and one lost count per crash or throwing statement, which is what `CallsAreBounded` rests on. From the same steps
  `ClaimsAreTimely` and `PromiseIsKept`: every step of worker, API, OZ and crash moves at most one row
  (`StepMoves`), and each of the moves is an action of `ExecutionPromise` or a stutter.
- `RelayWorkerOutcomeProofs`: `OutcomeIsExact`, with `OutcomeInv`. There are four copies of what is known of a
  transaction: the chain's and OZ's (`tx`), the answer awaited, the view stored, the row. The invariant orders
  them (`Upto`: what a view says is still so or has moved on the one way it can) and says that without a
  crash the row has taken in what the stored view says (`Known`), so that a replay has nothing to add
  but a success. Corollaries: `StatesTellTheTruth`, `RecordsAreFinal`.
  "Without a crash" means here, as in the formulas, also: without a statement that threw.

**AuthorizationWorker**: `AuthorizationProofs`. `QueueIsExact` (`AuthorizationInv`) says that the queue holds
each awaiting row once (the lemmas `RemovedAt` and `InsertedAt` are about the sequence without an element
and with one put back anywhere), that a row left in the batch is awaiting or was canceled by its client,
and that a consent a poll could meet is noted in `held`. Corollaries: `AuthorizationTypes`, `RoundsAreSerial`,
`DecisionsAreFinal`, `PromotionsHaveConsent`, `FailedTicksAreCancels`.

**Admission**: `AdmissionProofs`. First, what a step of any handler comes to is one of four outcomes
(`HandleOutcome`: it waits, is refused, replays, or inserts, where the insertion may be followed by an
answer, a 500 or the death of the process). `AdmissionInductive` is kept by each of them. `AttemptsAhead` is the
strengthening: an attempt in hand has inserted no row yet, so that the row a duplicate finds is of
another attempt and its answer must be 200; a retry opens a new attempt. `BooksAreInOrder` adds that an attempt
that is not answered has nothing in the audit and the counters, and that what one leaves there fits its
answer. Corollaries: `IntentHasOneExecution`, `AnswersFitRows`, `AdmissionTypes`, `AuditsMatchAnswers`,
`MetricsMatchAnswers`, and `AdmissionDecidesAtOnce`: `Admission` implements `AdmissionPromise`, the step that
answers (or crashes) being the decision and all others stutters.

**Readiness**: `ReadinessProofs`. `EvaluationsAreShared` (`ReadinessInv`) says that only the last evaluation of a
chain can run, that it has seen the world of now, that what its calls have shown was seen (`passed`), and that
while an entry of the cache is fresh nothing runs and the entry is of the last evaluation. The last part is
what makes news newer. Corollaries: `ReadinessTypes`, `FlightsAreSingle`, `AnswersHaveGrounds`, `NewsIsNew`.

**Migrations and Operations**: `OperationsProofs`. `DeploymentMigrates` (`Spec => MigrationsSpec`): a step of the
deployment is a step of `Migrations` or leaves the database alone. On it rest `SchemaFitsRecord` and `RowsStay`.
A runner that found version 2 missing and was overtaken must not rebuild the tables: `MigrationInv` adds that
a runner is at most one version ahead of the record; with the primary key of `schema_migrations`, what it
commits is then the next version and no other (`NextIsRecorded`). `PlansAreComplete` (`DeployInv`) is about the
scripts: until something disturbs it, the plan still holds whatever a chain differs in (`Pending`), and
touches no chain in another way (`PlanShape`); the order of the calls matters, for a chain without a
network must stop the plan before a relayer is made (`NoBootstrap`). Corollaries: `OperationsTypes`,
`AppliesReachDesired`, `AppliesNeverDouble`, `BindingsAreExact`.

*Assumptions.* Besides the ranges of the bounds: of `Admission`, that the profiles are of its clients and
intents and that no Safe execution is forced; of `Readiness`, that some TTL is positive, else there is no cache; of `Operations`, that chains and relayers are finite sets (`provider.json` and OZ's listing are), without
which "exactly one active relayer" cannot be counted, that a configuration asks for at least one chain, and
that `absent` and `none` name no RPC list and no relayer; of `Migrations`, that the service is one of the runners.

*Only model-checked*, in the runs of section 3: `Progress`, `AwaitingIsServed`, `EveryoneIsAnswered` and
`ApplyConverges`. Liveness under fairness, which speaks of what is enabled, is out of the prover's reach.

## 5. Findings and weakened properties

1. `finding_stuck_claim`: a crash during a submission leaves the row claimed and `pending` for ever.
2. `finding_hashless_revert`: a revert OZ reports without a hash asks for `pending -> reverted`, refused at every poll.
3. `finding_outage`: an aborted or refused `getRelayer` ends the execution.
4. `finding_lost_answer`: OZ accepts, the answer is lost (at once for an aborted call, at the last attempt for a 5xx),
   and the execution ends as `failed` / `RELAYER_SUBMIT_FAILED`, "Relayer did not accept transaction intent", while OZ
   executes it. Nothing looks at it again.
5. `finding_up_refuses`: README.md:151 and docs/operations.md:85 of the repository say that after an edit of
   `provider.json` `prod:up` applies the live OZ configuration. Its first steps refuse a `provider.json` that differs
   from the bootstrap files (`prod:validate`) or from the live state (`prod:verify-oz-import`); only
   `prod:apply-config` applies a change. The run has fresh files and an RPC list as the only difference.

Seen while modelling, without a run of their own:

- The cause of 4 has a second consequence: between the attempts the claim is released, so a DELETE cancels an
  execution whose intent OZ has, where docs/architecture.md:105 says "Not allowed once the relayer has accepted".
- A poll torn after the hash was stored (`worker.ts:659`) and before `submitted` (679), by a crash or by one write
  that throws, leaves a `pending` row with a hash. No later poll sees a new hash, and `pending -> succeeded` is
  refused at each, as in 2: the execution never ends.
- With two active relayers on a chain of which one cannot be read, the service starts (`relayerDiscovery.ts:37`),
  where docs/operations.md:76 says that ambiguous matches fail the start.
- The error kept between two submissions (`worker.ts:457`) lacks `category` and `retryable`, which the response
  schema requires (`api/schemas.ts:213`).

Properties are stated as strongly as the code allows; where a stronger reading fails, the exception is in the formula:

- `TerminalRecordIsFinal` holds until a crash or a throwing statement. After a poll torn by either, a replay may
  end the row while the next poll awaits; the poll then writes error and receipt of a terminal row.
- `OutcomeIsGrounded` says of a row with an id that its state is its transaction's. Its exceptions: `submitted`
  without a hash after a torn poll and a replay; `failed` by a catch when a statement threw at the acceptance.
  Of a row that ended *without* an id it says that the worker was told of no acceptance (but for throwing
  statements), and that OZ has no intent of it if answers are not lost. It cannot say so of answers that are
  lost: then an execution that ended `failed`, `expired`, `rejected` or `canceled` may be executed by OZ, see
  finding 4. `worker_faults` loses answers, `worker_pair` does not.
- `SubmitBudget` and `ClaimIsInFlight`: a crash or a throwing statement may lose a count, or leave a claim behind.
- `ClaimIsTimely` exempts forced Permit2 rows, which await their witness after the expiry check.
- `AtMostOneIntent` is for answers that are not lost. With lost answers a second intent may be
  accepted; only the nonce of the payload, on chain, keeps it from taking effect.
- `TickFailsOnlyOnCancel` is for ticks in which no statement throws. A cancel at an await makes
  the catch throw, and the tick, with the rows behind it and its poll phase, is given up and counted as
  `RELAYER_WORKER_TICK_FAILED`.
- `AnswersAreGrounded`: "ready" does not mean that every condition held at one time, only that each
  held at some time of the evaluation: its calls are apart.
- `BindingIsExact` and `ApplyNeverDoubles` are for listings in which every relayer could be read. The code skips
  one it cannot read (`relayerDiscovery.ts:37`, `oz-reconcile.ts:83`): see above, and a plan may create a second one.
- `SchemaMatchesRecord` is about processes that migrated. A service started with `RUN_MIGRATIONS_ON_START=false`
  binds and serves on whatever tables it finds, and its insertions throw on old ones: nothing is claimed of it
  but that no migration beside it drops what it stored.
- `AuditMatchesAnswer` exempts an attempt answered 500: its execution may be stored without an audit row. That this
  does no harm is in `OneExecutionPerIntent` and `AnswersMatchRows`: who asks again is told of the stored execution.
- No property, but a choice of the code to know of: an outage of RPC or Safe service while the owners of a Safe are read is answered 422, not retryable
  (`admitRelayExecution.ts:661`), where the other outages of the handler are answered 503.

## 6. The plan

1. *Done*: `Lifecycle`, `RelayerProjection`, `ExecutionStore`, `RelayWorker`, `ExecutionPromise`, their runs and proofs.
2. *Done*: `AuthorizationWorker`, with the round of both ticks; `Admission` and `AdmissionPromise`;
   `Readiness`; `Migrations` and `Operations`.
3. *Done*: the proofs of all safety properties and of the refinements (section 4).
4. Starvation in the relayer worker by rows whose poll or chain fails for ever: a chain per execution
   in `RelayWorker`, as `Served` in `AuthorizationWorker`.

**Not modelled.** Throwing statements outside the relayer worker and the admission: in the authorization worker,
DELETE and the scripts' own files. Payload hashing and ABI encoding (`chain/permit2.ts`, `tx/builder.ts`, ABI
files): pure functions whose content is their bytes. Funding estimates and `prod:fund-signer`: arithmetic on what RPC nodes report, and one
transfer per chain. The balance and age samplers: each reads and sets a gauge. Parsing of environment, JSON
schemas, error bodies and `Retry-After`; the delays between retries. `prod:check-config`, which only reads;
keystores and docker calls of `prod:init`. Development scripts and spikes. The API's read-only handlers.
