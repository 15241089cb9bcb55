---------------------------- MODULE OperationsProofs ----------------------------
(***************************************************************************)
(* Proofs about Migrations and its composition in Operations: what the     *)
(* deployment does to the database are steps of Migrations, and these keep *)
(* schema, record and rows in step.                                        *)
(***************************************************************************)
EXTENDS Operations, FiniteSetTheorems, TLAPS

\* A runner is at most one version ahead of the record, and what it found missing is the
\* version it is at: so what the primary key lets through is the next version.
MigrationInv ==
    /\ MigrationsTypeOK
    /\ applied = 1..schema
    /\ \A r \in Runners :
         /\ at[r] \in 1..4 => at[r] - 1 <= schema
         /\ missing[r] => at[r] \in Versions

\* The invariant holds of a new database and of one an older release left.
LEMMA MigrationInitial == MigrationsInit => MigrationInv
  BY MigrationsAssumption, SMTT(30)
     DEF MigrationsInit, MigrationInv, MigrationsTypeOK, Versions

\* A process that begins to migrate starts before the first version.
LEMMA RunMigrationsStep ==
  ASSUME MigrationInv, NEW r \in Runners, RunMigrations(r)
  PROVE  MigrationInv'
  BY SMTT(30) DEF RunMigrations, MigrationInv, MigrationsTypeOK, Versions

\* A process that was told not to migrate has no version to be at.
LEMMA SkipMigrationsStep ==
  ASSUME MigrationInv, NEW r \in Runners, SkipMigrations(r)
  PROVE  MigrationInv'
  BY SMTT(30) DEF SkipMigrations, MigrationInv, MigrationsTypeOK, Versions

\* A process that dies forgets where it was; each version was committed or not at all.
LEMMA StopsStep ==
  ASSUME MigrationInv, NEW r \in Runners, Stops(r)
  PROVE  MigrationInv'
  BY SMTT(30) DEF Stops, MigrationInv, MigrationsTypeOK, Versions

\* The SELECT of a version: a recorded one is passed, a missing one is found.
LEMMA LookUpStep ==
  ASSUME MigrationInv, NEW r \in Runners, LookUp(r)
  PROVE  MigrationInv'
<1>1. at[r] \in 1..3 /\ schema \in 0..3 /\ UNCHANGED <<applied, schema, rows>>
  BY DEF LookUp, MigrationInv, MigrationsTypeOK, Versions
<1>2. CASE at[r] \in applied
  <2>1. at[r] <= schema
    BY <1>1, <1>2, SMTT(30) DEF MigrationInv
  <2>2. /\ at' = [at EXCEPT ![r] = @ + 1]
        /\ missing' = [missing EXCEPT ![r] = FALSE]
    BY <1>2 DEF LookUp, NextVersion
  <2>3. at' \in [Runners -> 0..5] /\ missing' \in [Runners -> BOOLEAN]
    BY <1>1, <2>2, SMTT(30) DEF MigrationInv, MigrationsTypeOK
  <2>4. \A s \in Runners : /\ at'[s] \in 1..4 => at'[s] - 1 <= schema'
                           /\ missing'[s] => at'[s] \in Versions
    BY <1>1, <2>1, <2>2, SMTT(30) DEF MigrationInv, MigrationsTypeOK, Versions
  <2> QED BY <1>1, <2>3, <2>4 DEF MigrationInv, MigrationsTypeOK, Versions
<1>3. CASE at[r] \notin applied
  <2>1. UNCHANGED at /\ missing' = [missing EXCEPT ![r] = TRUE]
    BY <1>3 DEF LookUp
  <2>2. missing' \in [Runners -> BOOLEAN]
    BY <2>1 DEF MigrationInv, MigrationsTypeOK
  <2>3. \A s \in Runners : missing'[s] => at'[s] \in Versions
    BY <1>1, <2>1 DEF MigrationInv, MigrationsTypeOK, Versions
  <2> QED BY <1>1, <2>1, <2>2, <2>3 DEF MigrationInv, MigrationsTypeOK, Versions
<1> QED BY <1>2, <1>3

\* The version that is applied is the one after the recorded ones.
LEMMA NextIsRecorded ==
  ASSUME MigrationInv, NEW r \in Runners, missing[r], records(at[r])
  PROVE  at[r] = schema + 1 /\ at[r] \in 1..3
  BY SMTT(30) DEF MigrationInv, MigrationsTypeOK, Versions, records

\* The transaction of a version: the tables and their record change together, or not at
\* all.
LEMMA ApplyStep ==
  ASSUME MigrationInv, NEW r \in Runners, Apply(r)
  PROVE  MigrationInv'
<1>1. CASE records(at[r])
  <2>1. at[r] = schema + 1 /\ at[r] \in 1..3 /\ schema \in 0..2
    BY <1>1, NextIsRecorded, SMTT(30) DEF Apply, MigrationInv, MigrationsTypeOK
  <2>2. schema' = at[r]
    BY <1>1, <2>1, SMTT(30) DEF Apply, schemaAfter
  <2>3. applied' = 1..schema'
    <3>1. applied' = (1..schema) \cup {at[r]}
      BY <1>1 DEF Apply, MigrationInv
    <3>2. (1..schema) \cup {schema + 1} = 1..(schema + 1)
      BY <2>1, SMTT(30)
    <3>3. schema' = schema + 1
      BY <2>1, <2>2
    <3>4. applied' = (1..schema) \cup {schema + 1}
      BY <2>1, <3>1, Zenon
    <3> QED BY <3>2, <3>3, <3>4, Zenon
  <2>4. rows' \subseteq 1..MaxRows
    <3>1. rows' \subseteq rows
      BY <1>1 DEF Apply, rowsAfter
    <3> QED BY <3>1 DEF MigrationInv, MigrationsTypeOK
  <2>5. /\ at' = [at EXCEPT ![r] = @ + 1]
        /\ missing' = [missing EXCEPT ![r] = FALSE]
    BY <1>1 DEF Apply, NextVersion
  <2>6. MigrationsTypeOK'
    <3>1. at' \in [Runners -> 0..5] /\ missing' \in [Runners -> BOOLEAN]
      BY <2>1, <2>5, SMTT(30) DEF MigrationInv, MigrationsTypeOK
    <3>2. applied' \subseteq Versions /\ schema' \in 0..3
      BY <2>1, <2>2, <2>3, SMTT(30) DEF Versions
    <3> QED BY <2>4, <3>1, <3>2 DEF MigrationsTypeOK, Versions
  <2>7. \A s \in Runners : /\ at'[s] \in 1..4 => at'[s] - 1 <= schema'
                           /\ missing'[s] => at'[s] \in Versions
    BY <2>1, <2>2, <2>5, SMTT(30) DEF MigrationInv, MigrationsTypeOK, Versions
  <2> QED BY <2>3, <2>6, <2>7 DEF MigrationInv, Versions
<1>2. CASE ~records(at[r])
  BY <1>2, StopsStep DEF Apply
<1> QED BY <1>1, <1>2

\* An insertion of the service changes neither the schema nor its record.
LEMMA InsertExecutionStep ==
  ASSUME MigrationInv, InsertExecution
  PROVE  MigrationInv'
  BY SMTT(30) DEF InsertExecution, MigrationInv, MigrationsTypeOK, Versions

\* Every step of the migrations, of any process, keeps the invariant.
LEMMA MigrationStep == MigrationInv /\ [MigrationsNext]_migrationVars => MigrationInv'
<1> SUFFICES ASSUME MigrationInv, [MigrationsNext]_migrationVars PROVE MigrationInv'
  OBVIOUS
<1>1. ASSUME NEW r \in Runners, RunMigrations(r) PROVE MigrationInv'
  BY <1>1, RunMigrationsStep
<1>2. ASSUME NEW r \in Runners, Migrate(r) PROVE MigrationInv'
  BY <1>2, LookUpStep, ApplyStep DEF Migrate
<1>3. ASSUME NEW r \in Runners, Stops(r) PROVE MigrationInv'
  BY <1>3, StopsStep
<1>4. CASE InsertExecution
  BY <1>4, InsertExecutionStep
<1>5. CASE SkipMigrations(Service)
  BY <1>5, SkipMigrationsStep, MigrationsAssumption
<1>6. CASE UNCHANGED migrationVars
  BY <1>6 DEF migrationVars, MigrationInv, MigrationsTypeOK, Versions
<1> QED BY <1>1, <1>2, <1>3, <1>4, <1>5, <1>6 DEF MigrationsNext

\* The inductive invariant of the migrations.
LEMMA MigrationInductive == MigrationsSpec => []MigrationInv
  BY MigrationInitial, MigrationStep, PTL DEF MigrationsSpec

\* Only version 2 drops rows, and once it is recorded no runner applies it again.
LEMMA RowsStep ==
  ASSUME MigrationInv, [MigrationsNext]_migrationVars, 2 \in applied
  PROVE  rows \subseteq rows'
<1>1. ASSUME NEW r \in Runners, RunMigrations(r) \/ LookUp(r) \/ Stops(r) PROVE rows' = rows
  BY <1>1 DEF RunMigrations, LookUp, Stops
<1>2. ASSUME NEW r \in Runners, Apply(r) PROVE rows' = rows
  <2>1. CASE records(at[r])
    <3>1. at[r] = schema + 1
      BY <1>2, <2>1, NextIsRecorded DEF Apply
    <3>2. at[r] # 2
      BY <3>1, SMTT(30) DEF MigrationInv, MigrationsTypeOK
    <3> QED BY <1>2, <2>1, <3>2 DEF Apply, rowsAfter
  <2>2. CASE ~records(at[r])
    BY <1>2, <2>2 DEF Apply, Stops
  <2> QED BY <2>1, <2>2
<1>3. CASE InsertExecution
  BY <1>3 DEF InsertExecution
<1>4. CASE SkipMigrations(Service)
  BY <1>4 DEF SkipMigrations
<1>5. CASE UNCHANGED migrationVars
  BY <1>5 DEF migrationVars
<1> QED BY <1>1, <1>2, <1>3, <1>4, <1>5 DEF MigrationsNext, Migrate

-----------------------------------------------------------------------------
(* Operations implements Migrations.                                       *)

\* A step of the deployment is one of the migrations, or leaves the database alone.
LEMMA OperationsStep ==
  ASSUME [Next]_vars
  PROVE  [MigrationsNext]_migrationVars
<1>1. ASSUME NEW command \in Commands, Start(command) PROVE UNCHANGED migrationVars
  BY <1>1 DEF Start, Same
<1>2. CASE Validate \/ Verify \/ Plan \/ ApplyNext \/ CheckBinding \/ WriteFiles
  BY <1>2 DEF Validate, Verify, Plan, ApplyNext, CheckBinding, WriteFiles, Same
<1>3. CASE RestartApp
  BY <1>3, MigrationsAssumption DEF RestartApp, MigrationsNext
<1>4. CASE Boot
  BY <1>4, MigrationsAssumption DEF Boot, MigrationsNext
<1>5. CASE Bind
  BY <1>5, MigrationsAssumption DEF Bind, MigrationsNext
<1>6. CASE Serve
  BY <1>6 DEF Serve, MigrationsNext
<1>7. CASE MigrateNext
  BY <1>7 DEF MigrateNext, MigrationsNext
<1>8. CASE MigrateByHand
  BY <1>8 DEF MigrateByHand, MigrationsNext
<1>9. CASE Edit \/ ProdInit \/ EmptyRedis \/ RelayerChanges
  BY <1>9 DEF Edit, ProdInit, EmptyRedis, RelayerChanges
<1>10. CASE Killed
  BY <1>10 DEF Killed, MigrationsNext
<1>11. CASE UNCHANGED vars
  BY <1>11 DEF vars
<1> QED
  BY <1>1, <1>2, <1>3, <1>4, <1>5, <1>6, <1>7, <1>8, <1>9, <1>10, <1>11 DEF Next, Script

\* Whatever is deployed, killed, edited and migrated by hand, the database only sees steps
\* of the migrations and insertions of a service that has it open.
THEOREM DeploymentMigrates == Spec => MigrationsSpec
<1>1. Init => MigrationsInit
  BY DEF Init
<1>2. [Next]_vars => [MigrationsNext]_migrationVars
  BY OperationsStep
<1> QED BY <1>1, <1>2, PTL DEF Spec, MigrationsSpec

\* The tables are those of the last recorded version, and a process whose run came through
\* has left the newest, for any number of processes that migrate at once and a service that
\* may be told not to.
THEOREM SchemaFitsRecord == Spec => []SchemaMatchesRecord
<1>1. MigrationInv => SchemaMatchesRecord
  BY MigrationsAssumption, SMTT(30)
     DEF MigrationInv, MigrationsTypeOK, SchemaMatchesRecord, through
<1> QED BY <1>1, DeploymentMigrates, MigrationInductive, PTL

\* No execution stored since version 2 is lost, for any number of processes that migrate at
\* once and any deployment.
THEOREM RowsStay == Spec => RowsAreKept
<1>1. MigrationInv /\ [MigrationsNext]_migrationVars
        => [2 \in applied => rows \subseteq rows']_migrationVars
  BY RowsStep
<1> QED
  BY <1>1, DeploymentMigrates, MigrationInductive, PTL DEF MigrationsSpec, RowsAreKept

-----------------------------------------------------------------------------
(* The types of the deployment.                                            *)

Kinds == { "bootstrap_required", "patch_network_rpc", "create_relayer",
           "patch_relayer_unpause", "patch_relayer_pause" }

LiveTypes ==
    /\ provider \in Config /\ files \in Config /\ networks \in Config
    /\ relayers \in [Ids -> Status] /\ imported \in BOOLEAN

RunTypes ==
    /\ script \in Commands \cup {"none"}
    /\ pc \in {"idle", "validate", "verify", "plan", "apply", "write", "restart"}
    /\ desired \in Config
    /\ plan \in SUBSET [kind : Kinds, on : Ids]

AppTypes == registry \in Config /\ bound \in [Chains -> Ids \cup {"none"}]

HistoryTypes == calm \in BOOLEAN /\ calmBoot \in BOOLEAN /\ troubles \in Nat

OpsTypes == LiveTypes /\ RunTypes /\ AppTypes /\ HistoryTypes

\* A configuration the operator writes is one, and so is the empty one.
LEMMA ConfigTypes ==
    /\ Configs \subseteq Config /\ Nowhere \in Config
    /\ Unbound \in [Chains -> Ids \cup {"none"}]
    /\ Chains \subseteq Ids /\ \A c \in Chains : chainOf(c) = c
    /\ \A id \in Ids : chainOf(id) \in Chains
  BY OperationsAssumption DEF Config, Nowhere, Unbound, Ids, chainOf

\* A script that ends leaves nothing behind.
LEMMA EndsTypes ==
    ASSUME Ends
    PROVE  RunTypes'
  BY ConfigTypes DEF Ends, RunTypes

\* A listing costs at most one trouble.
LEMMA ReadTypes ==
    ASSUME HistoryTypes, NEW ids, ReadRelayers(ids)
    PROVE  troubles' \in Nat /\ (troubles' = troubles => ids = existing)
<1>1. troubles \in Nat
  BY DEF HistoryTypes
<1>2. CASE ids = existing
  BY <1>1, <1>2 DEF ReadRelayers
<1>3. CASE ids # existing
  BY <1>1, <1>3 DEF ReadRelayers, Trouble
<1> QED
  BY <1>2, <1>3

\* The actions of a plan are on relayers the service knows or is asked for.
LEMMA PlanTypes ==
    ASSUME NEW config \in Config, NEW ids \in SUBSET Ids
    PROVE  /\ actions(config, ids) \in SUBSET [kind : Kinds, on : Ids]
           /\ pauses(config, ids) \in SUBSET [kind : Kinds, on : Ids]
<1>1. chainsIn(config) \subseteq Ids /\ live(config) \subseteq Ids
  BY ConfigTypes DEF chainsIn, live
<1>2. ASSUME NEW kind \in Kinds, NEW on \in Ids
      PROVE  Action(kind, on) \in [kind : Kinds, on : Ids]
  BY DEF Action
<1>3. patches(config) \in SUBSET [kind : Kinds, on : Ids]
  <2>1. "patch_network_rpc" \in Kinds
    BY DEF Kinds
  <2> QED
    BY <1>1, <1>2, <2>1 DEF patches
<1>4. unpauses(config, ids) \in SUBSET [kind : Kinds, on : Ids]
  <2>1. "patch_relayer_unpause" \in Kinds
    BY DEF Kinds
  <2> QED
    BY <1>1, <1>2, <2>1 DEF unpauses
<1>5. "bootstrap_required" \in Kinds /\ "create_relayer" \in Kinds
      /\ "patch_relayer_pause" \in Kinds
  BY DEF Kinds
<1>6. { Action("bootstrap_required", c) : c \in chainsIn(config) \ live(config) }
        \in SUBSET [kind : Kinds, on : Ids]
  BY <1>1, <1>2, <1>5
<1>7. { Action("create_relayer", c) : c \in live(config) \ ids }
        \in SUBSET [kind : Kinds, on : Ids]
  BY <1>1, <1>2, <1>5
<1>8. actions(config, ids) \in SUBSET [kind : Kinds, on : Ids]
  BY <1>3, <1>4, <1>6, <1>7 DEF actions
<1>9. pauses(config, ids) \in SUBSET [kind : Kinds, on : Ids]
  BY <1>2, <1>5 DEF pauses
<1> QED
  BY <1>8, <1>9

\* What a call does keeps the types of the service.
LEMMA EffectTypes ==
    ASSUME LiveTypes, RunTypes, NEW a \in plan, Effect(a), UNCHANGED <<provider, files>>
    PROVE  LiveTypes'
<1>1. a \in [kind : Kinds, on : Ids]
  BY DEF RunTypes
<1>2. networks' \in Config
  <2>1. networks \in [Chains -> Rpcs \cup {"absent"}] /\ desired \in [Chains -> Rpcs \cup {"absent"}]
    BY DEF LiveTypes, RunTypes, Config
  <2>2. networks' = networks \/ networks' = [networks EXCEPT ![a.on] = desired[a.on]]
    BY DEF Effect
  <2>3. CASE a.on \in Chains
    BY <2>1, <2>2, <2>3 DEF Config
  <2>4. CASE a.on \notin Chains
    <3>1. [networks EXCEPT ![a.on] = desired[a.on]] = networks
      BY <2>1, <2>4
    <3> QED
      BY <2>1, <2>2, <3>1 DEF Config
  <2> QED
    BY <2>3, <2>4
<1>3. relayers' \in [Ids -> Status]
  <2>1. \/ relayers' = relayers \/ relayers' = [relayers EXCEPT ![a.on] = "active"]
        \/ relayers' = [relayers EXCEPT ![a.on] = "paused"]
    BY DEF Effect
  <2>2. "active" \in Status /\ "paused" \in Status /\ a.on \in Ids
    BY <1>1 DEF Status
  <2> QED
    BY <2>1, <2>2 DEF LiveTypes
<1> QED
  BY <1>2, <1>3 DEF LiveTypes, Effect

-----------------------------------------------------------------------------
(* The plan of a script, and what is left of it.                           *)

\* An action is on a chain that is asked for, but a pause, which is on one that is not.
PlanShape ==
    \A a \in plan :
        /\ a.kind # "patch_relayer_pause" => a.on \in chainsIn(desired)
        /\ a.kind = "patch_relayer_pause" => chainOf(a.on) \notin chainsIn(desired)

\* What chain c differs in from what is asked for is in the plan; and the plan stops at a
\* chain that has no network.
Pending(c) ==
    \/ Action("bootstrap_required", c) \in plan
    \/ /\ networks[c] # "absent"
       /\ networks[c] = desired[c] \/ Action("patch_network_rpc", c) \in plan
       /\ \/ relayers[c] = "active"
          \/ relayers[c] = "absent" /\ Action("create_relayer", c) \in plan
          \/ relayers[c] = "paused" /\ Action("patch_relayer_unpause", c) \in plan
       /\ active(Ids, c) \subseteq {c}

ScriptInv ==
    /\ script = "none" <=> pc = "idle"
    /\ script # "none" /\ calm => desired = provider
    /\ pc = "apply" => PlanShape
    /\ pc = "apply" /\ calm => \A c \in chainsIn(desired) : Pending(c)
    /\ ApplyReachesDesired

DeployInv == OpsTypes /\ ScriptInv

\* A step beside the script leaves what is live alone, or ends the calm.
LEMMA BesideScript ==
    ASSUME ScriptInv, UNCHANGED run,
           calm' => calm /\ UNCHANGED <<provider, networks, relayers>>
    PROVE  ScriptInv'
<1>1. script' = script /\ pc' = pc /\ desired' = desired /\ plan' = plan
  BY DEF run
<1>2. PlanShape => PlanShape'
  BY <1>1 DEF PlanShape
<1>3. ASSUME calm'
      PROVE  /\ calm /\ desired' = desired /\ provider' = provider
             /\ matches(provider) => matches(provider)'
             /\ matches(desired) => matches(desired)'
             /\ \A c \in Chains : (Pending(c) => Pending(c)') /\ active(Ids, c)' = active(Ids, c)
  <2>1. calm /\ provider' = provider /\ networks' = networks /\ relayers' = relayers
    BY <1>3
  <2> QED
    BY <1>1, <2>1 DEF matches, Pending, active
<1>4. chainsIn(desired) \subseteq Chains /\ chainsIn(desired)' = chainsIn(desired)
  BY <1>1 DEF chainsIn
<1>6. ApplyReachesDesired'
  BY <1>1, <1>3, <1>4 DEF ScriptInv, ApplyReachesDesired
<1>7. pc' = "apply" /\ calm' => \A c \in chainsIn(desired)' : Pending(c)'
  BY <1>1, <1>3, <1>4 DEF ScriptInv
<1>8. script' # "none" /\ calm' => desired' = provider'
  BY <1>1, <1>3 DEF ScriptInv
<1>10. /\ script' = "none" <=> pc' = "idle"
       /\ pc' = "apply" => PlanShape'
  BY <1>1, <1>2 DEF ScriptInv
<1> QED
  BY <1>6, <1>7, <1>8, <1>10 DEF ScriptInv

\* A script that ends leaves nothing to hold of it.
LEMMA EndedScript ==
    ASSUME Ends
    PROVE  ScriptInv'
<1>1. script' = "none" /\ pc' = "idle"
  BY DEF Ends
<1> QED
  BY <1>1 DEF ScriptInv, ApplyReachesDesired

-----------------------------------------------------------------------------
(* The steps of the scripts.                                               *)

\* A script begins with provider.json as it is.
LEMMA StartKeeps ==
    ASSUME DeployInv, NEW command \in Commands, Start(command)
    PROVE  DeployInv'
<1>1. /\ script' = command /\ desired' = provider /\ calm' = TRUE
      /\ pc' = IF command = "prod:up" THEN "validate" ELSE "plan"
      /\ UNCHANGED <<provider, files, imported, networks, relayers, plan, registry, bound,
                     calmBoot, troubles>>
  BY DEF Start, oz, app, NoTrouble
<1>2. /\ command # "none" /\ (command = "prod:up" => pc' = "validate")
      /\ pc' \in {"validate", "plan"}
  BY <1>1 DEF Commands
<1>3. OpsTypes'
  BY <1>1, <1>2 DEF DeployInv, OpsTypes, LiveTypes, RunTypes, AppTypes, HistoryTypes
<1>4. ScriptInv'
  BY <1>1, <1>2 DEF ScriptInv, ApplyReachesDesired
<1> QED
  BY <1>3, <1>4 DEF DeployInv

\* prod:validate, and the service that takes the files over.
LEMMA ValidateKeeps ==
    ASSUME DeployInv, Validate
    PROVE  DeployInv'
<1>1. UNCHANGED <<provider, files, registry, bound, calm, calmBoot, troubles>>
  BY DEF Validate, app, NoTrouble
<1>2. CASE Ends /\ UNCHANGED oz
  <2>1. OpsTypes'
    BY <1>1, <1>2, EndsTypes DEF DeployInv, OpsTypes, LiveTypes, AppTypes, HistoryTypes, oz
  <2> QED
    BY <1>2, <2>1, EndedScript DEF DeployInv
<1>3. ASSUME pc' = "verify", desired' = provider, UNCHANGED <<script, plan>>, imported' = TRUE,
             \/ UNCHANGED <<networks, relayers>>
             \/ /\ networks' = files
                /\ relayers' = [id \in Ids |-> IF id \in chainsIn(files) THEN "active"
                                                                        ELSE "absent"]
      PROVE  DeployInv'
  <2>1. networks' \in Config /\ relayers' \in [Ids -> Status]
    BY <1>3 DEF DeployInv, OpsTypes, LiveTypes, Status
  <2>2. OpsTypes'
    BY <1>1, <1>3, <2>1 DEF DeployInv, OpsTypes, LiveTypes, RunTypes, AppTypes, HistoryTypes
  <2>3. script # "none"
    BY DEF DeployInv, ScriptInv, Validate
  <2>4. ScriptInv'
    BY <1>1, <1>3, <2>3 DEF ScriptInv, ApplyReachesDesired
  <2> QED
    BY <2>2, <2>4 DEF DeployInv
<1> QED
  BY <1>2, <1>3 DEF Validate

\* prod:verify-oz-import lets a script go on only when the live state matches.
LEMMA VerifyKeeps ==
    ASSUME DeployInv, Verify
    PROVE  DeployInv'
<1>1. PICK ids \in SUBSET Ids :
         /\ ReadRelayers(ids)
         /\ IF matches(desired) /\ binds(provider, ids) THEN Goes("plan") ELSE Ends
         /\ calm' = (calm /\ troubles' = troubles)
  BY DEF Verify
<1>2. UNCHANGED <<provider, files, imported, networks, relayers, registry, bound, calmBoot>>
  BY DEF Verify, oz, app
<1>3. /\ troubles' \in Nat /\ calm' \in BOOLEAN /\ (calm' => calm)
      /\ LiveTypes' /\ AppTypes' /\ HistoryTypes'
  BY <1>1, <1>2, ReadTypes DEF DeployInv, OpsTypes, LiveTypes, AppTypes, HistoryTypes
<1>4. ASSUME matches(desired), Goes("plan") PROVE DeployInv'
  <2>1. pc' = "plan" /\ UNCHANGED <<script, desired, plan>>
    BY <1>4 DEF Goes
  <2>2. script # "none" /\ (calm => desired = provider)
    BY DEF DeployInv, ScriptInv, Verify
  <2>3. calm' => matches(provider)'
    BY <1>2, <1>3, <1>4, <2>2 DEF matches
  <2>4. ScriptInv'
    BY <1>2, <1>3, <2>1, <2>2, <2>3 DEF ScriptInv, ApplyReachesDesired
  <2>5. RunTypes'
    BY <2>1 DEF DeployInv, OpsTypes, RunTypes
  <2> QED
    BY <1>3, <2>4, <2>5 DEF DeployInv, OpsTypes
<1>5. CASE Ends
  BY <1>3, <1>5, EndsTypes, EndedScript DEF DeployInv, OpsTypes
<1> QED
  BY <1>1, <1>4, <1>5

\* A plan that was made of all relayers has what each chain differs in.
LEMMA PlanIsComplete ==
    ASSUME LiveTypes, ~refuses(provider, existing), actions(provider, existing) \subseteq plan',
           UNCHANGED <<networks, relayers>>, desired' = provider, NEW c \in chainsIn(provider)
    PROVE  Pending(c)'
<1>1. /\ c \in Chains /\ c \in Ids /\ relayers[c] \in Status
  BY ConfigTypes DEF chainsIn, LiveTypes
<1>2. CASE c \notin live(provider)
  <2>1. Action("bootstrap_required", c) \in actions(provider, existing)
    BY <1>2 DEF actions
  <2> QED
    BY <2>1 DEF Pending
<1>3. CASE c \in live(provider)
  <2>1. networks[c] # "absent"
    BY <1>3 DEF live
  <2>2. networks[c] = provider[c] \/ Action("patch_network_rpc", c) \in actions(provider, existing)
    BY <1>3 DEF actions, patches
  <2>3. /\ relayers[c] # "disabled" \/ c \notin existing
        /\ active(existing, c) \subseteq {c}
    BY <1>3 DEF refuses
  <2>4. c \in existing <=> relayers[c] # "absent"
    BY <1>1 DEF existing
  <2>5. relayers[c] = "absent" => Action("create_relayer", c) \in actions(provider, existing)
    BY <1>3, <2>4 DEF actions
  <2>6. relayers[c] = "paused" => Action("patch_relayer_unpause", c) \in actions(provider, existing)
    BY <1>3, <2>4 DEF actions, unpauses
  <2>7. active(Ids, c) \subseteq active(existing, c)
    BY DEF active, existing
  <2>8. relayers[c] \in {"active", "absent", "paused"}
    BY <1>1, <2>3, <2>4 DEF Status
  <2>9. active(Ids, c)' \subseteq {c}
    BY <2>3, <2>7 DEF active
  <2> QED
    BY <2>1, <2>2, <2>5, <2>6, <2>8, <2>9 DEF Pending
<1> QED
  BY <1>2, <1>3

\* prod:apply-config makes its plan, or refuses.
LEMMA PlanKeeps ==
    ASSUME DeployInv, Plan
    PROVE  DeployInv'
<1>1. PICK ids \in SUBSET Ids :
         /\ ReadRelayers(ids)
         /\ calm' = (calm /\ troubles' = troubles)
         /\ IF refuses(provider, ids) \/ script = "--dry-run" THEN Ends
            ELSE /\ pc' = "apply" /\ desired' = provider /\ UNCHANGED script
                 /\ plan' = actions(provider, ids) \cup
                      IF script = "--pause-removed-relayers" THEN pauses(provider, ids) ELSE {}
  BY DEF Plan
<1>2. UNCHANGED <<provider, files, imported, networks, relayers, registry, bound, calmBoot>>
  BY DEF Plan, oz, app
<1>3. /\ troubles' \in Nat /\ calm' \in BOOLEAN /\ (calm' => calm /\ ids = existing)
      /\ LiveTypes' /\ AppTypes' /\ HistoryTypes'
  BY <1>1, <1>2, ReadTypes DEF DeployInv, OpsTypes, LiveTypes, AppTypes, HistoryTypes
<1>4. CASE Ends
  BY <1>3, <1>4, EndsTypes, EndedScript DEF DeployInv, OpsTypes
<1>5. ASSUME ~refuses(provider, ids), pc' = "apply", desired' = provider, UNCHANGED script,
             plan' = actions(provider, ids) \cup
                       IF script = "--pause-removed-relayers" THEN pauses(provider, ids) ELSE {}
      PROVE  DeployInv'
  <2>1. provider \in Config /\ script # "none" /\ LiveTypes
    BY DEF DeployInv, OpsTypes, LiveTypes, ScriptInv, Plan
  <2>2. RunTypes'
    BY <1>5, <2>1, PlanTypes DEF DeployInv, OpsTypes, RunTypes
  <2>3. PlanShape'
    <3>1. ASSUME NEW a \in actions(provider, ids)
          PROVE  a.kind # "patch_relayer_pause" /\ a.on \in chainsIn(provider)
      BY DEF actions, patches, unpauses, Action, live
    <3>2. ASSUME NEW a \in pauses(provider, ids)
          PROVE  a.kind = "patch_relayer_pause" /\ chainOf(a.on) \notin chainsIn(provider)
      BY DEF pauses, Action
    <3>3. \A a \in plan' : a \in actions(provider, ids) \/ a \in pauses(provider, ids)
      BY <1>5
    <3>4. chainsIn(desired)' = chainsIn(provider)
      BY <1>5 DEF chainsIn
    <3> QED
      BY <3>1, <3>2, <3>3, <3>4 DEF PlanShape
  <2>4. ASSUME calm', NEW c \in chainsIn(provider) PROVE Pending(c)'
    <3>1. ids = existing
      BY <1>3, <2>4
    <3>2. actions(provider, existing) \subseteq plan' /\ ~refuses(provider, existing)
      BY <1>5, <3>1
    <3> QED
      BY <1>2, <1>5, <2>1, <2>4, <3>2, PlanIsComplete
  <2>6. ScriptInv'
    <3>1. chainsIn(desired)' = chainsIn(provider)
      BY <1>5 DEF chainsIn
    <3>2. /\ script' # "none" /\ pc' = "apply" /\ desired' = provider'
          /\ calm' => \A c \in chainsIn(desired)' : Pending(c)'
      BY <1>2, <1>5, <2>1, <2>4, <3>1
    <3>3. ApplyReachesDesired'
      BY <3>2 DEF ApplyReachesDesired
    <3> QED
      BY <2>3, <3>2, <3>3 DEF ScriptInv
  <2> QED
    BY <1>3, <2>2, <2>6 DEF DeployInv, OpsTypes
<1> QED
  BY <1>1, <1>4, <1>5

\* While a call of the plan goes through, every chain that is asked for has a network: the
\* plan of one that has none begins with what no call can do.
LEMMA NoBootstrap ==
    ASSUME NEW a \in plan, \A b \in plan : rank(a) <= rank(b), possible(a), RunTypes
    PROVE  \A c : Action("bootstrap_required", c) \notin plan
<1> SUFFICES ASSUME NEW c, Action("bootstrap_required", c) \in plan PROVE FALSE
  OBVIOUS
<1>1. rank(Action("bootstrap_required", c)) = 0
  BY DEF rank, Action
<1>2. rank(a) <= 0
  BY <1>1
<1>3. a.kind \in Kinds
  BY DEF RunTypes
<1>4. a.kind = "bootstrap_required"
  BY <1>2, <1>3 DEF rank, Kinds
<1> QED
  BY <1>4 DEF possible

\* What a call makes of the relayers: on a chain that is asked for, its own relayer active
\* or as it was, and no other; on another chain, one active relayer less or none.
LEMMA EffectOnRelayers ==
    ASSUME LiveTypes, RunTypes, PlanShape, NEW a \in plan, possible(a), Effect(a)
    PROVE  /\ a.on \in Ids /\ a.kind \in Kinds \ {"bootstrap_required"}
           /\ \/ a.kind = "patch_network_rpc" /\ relayers' = relayers
              \/ /\ a.kind \in {"create_relayer", "patch_relayer_unpause"}
                 /\ a.on \in chainsIn(desired)
                 /\ relayers' = [relayers EXCEPT ![a.on] = "active"]
              \/ /\ a.kind = "patch_relayer_pause" /\ chainOf(a.on) \notin chainsIn(desired)
                 /\ relayers' = [relayers EXCEPT ![a.on] = "paused"]
<1>1. a.on \in Ids /\ a.kind \in Kinds
  BY DEF RunTypes
<1>2. a.kind # "bootstrap_required"
  BY DEF possible
<1> QED
  BY <1>1, <1>2 DEF PlanShape, Effect, Kinds

\* A call that goes through takes its difference away and leaves the others in the plan.
LEMMA CallKeepsPending ==
    ASSUME LiveTypes, RunTypes, PlanShape, NEW a \in plan, \A b \in plan : rank(a) <= rank(b),
           possible(a), Effect(a), plan' = plan \ {a}, desired' = desired,
           NEW c \in chainsIn(desired), Pending(c)
    PROVE  Pending(c)'
<1>1. /\ a.on \in Ids /\ a.kind \in Kinds \ {"bootstrap_required"}
      /\ \/ a.kind = "patch_network_rpc" /\ relayers' = relayers
         \/ /\ a.kind \in {"create_relayer", "patch_relayer_unpause"}
            /\ a.on \in chainsIn(desired)
            /\ relayers' = [relayers EXCEPT ![a.on] = "active"]
         \/ /\ a.kind = "patch_relayer_pause" /\ chainOf(a.on) \notin chainsIn(desired)
            /\ relayers' = [relayers EXCEPT ![a.on] = "paused"]
  BY EffectOnRelayers
<1>2. /\ c \in Chains /\ c \in Ids /\ chainOf(c) = c /\ desired[c] # "absent"
      /\ networks \in [Chains -> Rpcs \cup {"absent"}] /\ relayers \in [Ids -> Status]
  BY ConfigTypes DEF chainsIn, LiveTypes, Config
<1>3. /\ networks[c] # "absent"
      /\ networks[c] = desired[c] \/ Action("patch_network_rpc", c) \in plan
      /\ \/ relayers[c] = "active"
         \/ relayers[c] = "absent" /\ Action("create_relayer", c) \in plan
         \/ relayers[c] = "paused" /\ Action("patch_relayer_unpause", c) \in plan
      /\ active(Ids, c) \subseteq {c}
  BY NoBootstrap DEF Pending
<1>4. ASSUME NEW kind, Action(kind, c) \in plan, a.kind # kind \/ a.on # c
      PROVE  Action(kind, c) \in plan'
  <2>1. Action(kind, c).kind = kind /\ Action(kind, c).on = c
    BY DEF Action
  <2> QED
    BY <1>4, <2>1
<1>5. /\ networks'[c] # "absent"
      /\ networks'[c] = desired[c] \/ Action("patch_network_rpc", c) \in plan'
  <2>1. CASE a.kind = "patch_network_rpc" /\ a.on = c
    <3>1. networks' = [networks EXCEPT ![c] = desired[c]]
      BY <2>1 DEF Effect
    <3> QED
      BY <1>2, <3>1
  <2>2. CASE ~(a.kind = "patch_network_rpc" /\ a.on = c)
    <3>1. networks'[c] = networks[c]
      BY <1>2, <2>2 DEF Effect
    <3>2. Action("patch_network_rpc", c) \in plan => Action("patch_network_rpc", c) \in plan'
      BY <1>4, <2>2
    <3> QED
      BY <1>3, <3>1, <3>2
  <2> QED
    BY <2>1, <2>2
<1>6. /\ \/ relayers'[c] = "active"
         \/ relayers'[c] = "absent" /\ Action("create_relayer", c) \in plan'
         \/ relayers'[c] = "paused" /\ Action("patch_relayer_unpause", c) \in plan'
      /\ \A id \in Ids : id # c => (relayers'[id] = "active" /\ chainOf(id) = c
                                      => relayers[id] = "active")
  <2>1. CASE a.kind = "patch_network_rpc" /\ relayers' = relayers
    <3>1. /\ Action("create_relayer", c) \in plan => Action("create_relayer", c) \in plan'
          /\ Action("patch_relayer_unpause", c) \in plan
               => Action("patch_relayer_unpause", c) \in plan'
      BY <1>4, <2>1
    <3> QED
      BY <1>3, <2>1, <3>1
  <2>2. ASSUME a.kind \in {"create_relayer", "patch_relayer_unpause"}, a.on \in chainsIn(desired),
               relayers' = [relayers EXCEPT ![a.on] = "active"]
        PROVE  /\ \/ relayers'[c] = "active"
                  \/ relayers'[c] = "absent" /\ Action("create_relayer", c) \in plan'
                  \/ relayers'[c] = "paused" /\ Action("patch_relayer_unpause", c) \in plan'
               /\ \A id \in Ids : id # c => (relayers'[id] = "active" /\ chainOf(id) = c
                                               => relayers[id] = "active")
    <3>1. chainOf(a.on) = a.on
      BY <2>2, ConfigTypes DEF chainsIn
    <3>2. \A id \in Ids : id # c => (relayers'[id] = "active" /\ chainOf(id) = c
                                       => relayers[id] = "active")
      BY <1>2, <2>2, <3>1
    <3>3. CASE a.on = c
      BY <1>2, <2>2, <3>2, <3>3
    <3>4. CASE a.on # c
      <4>1. relayers'[c] = relayers[c]
        BY <1>2, <2>2, <3>4
      <4>2. /\ Action("create_relayer", c) \in plan => Action("create_relayer", c) \in plan'
            /\ Action("patch_relayer_unpause", c) \in plan
                 => Action("patch_relayer_unpause", c) \in plan'
        BY <1>4, <3>4
      <4> QED
        BY <1>3, <3>2, <4>1, <4>2
    <3> QED
      BY <3>3, <3>4
  <2>3. ASSUME a.kind = "patch_relayer_pause", chainOf(a.on) \notin chainsIn(desired),
               relayers' = [relayers EXCEPT ![a.on] = "paused"]
        PROVE  /\ \/ relayers'[c] = "active"
                  \/ relayers'[c] = "absent" /\ Action("create_relayer", c) \in plan'
                  \/ relayers'[c] = "paused" /\ Action("patch_relayer_unpause", c) \in plan'
               /\ \A id \in Ids : id # c => (relayers'[id] = "active" /\ chainOf(id) = c
                                               => relayers[id] = "active")
    <3>1. a.on # c
      BY <1>2, <2>3
    <3>2. relayers'[c] = relayers[c]
      BY <1>2, <2>3, <3>1
    <3>3. /\ Action("create_relayer", c) \in plan => Action("create_relayer", c) \in plan'
          /\ Action("patch_relayer_unpause", c) \in plan
               => Action("patch_relayer_unpause", c) \in plan'
      BY <1>4, <3>1
    <3>4. \A id \in Ids : relayers'[id] = "active" => relayers[id] = "active"
      BY <1>2, <2>3
    <3> QED
      BY <1>3, <3>2, <3>3, <3>4
  <2> QED
    BY <1>1, <2>1, <2>2, <2>3
<1>7. active(Ids, c)' \subseteq {c}
  BY <1>3, <1>6 DEF active
<1> QED
  BY <1>5, <1>6, <1>7 DEF Pending

\* A call of the plan goes through, or ends the script.
LEMMA ApplyNextKeeps ==
    ASSUME DeployInv, ApplyNext
    PROVE  DeployInv'
<1>1. PICK a \in plan :
         /\ \A b \in plan : rank(a) <= rank(b)
         /\ \/ /\ possible(a) /\ Effect(a)
               /\ plan' = plan \ {a} /\ UNCHANGED <<script, pc, desired>> /\ NoTrouble
            \/ ~possible(a) /\ Ends /\ UNCHANGED oz /\ NoTrouble
            \/ /\ Trouble
               /\ Ends
               /\ UNCHANGED oz \/ (possible(a) /\ Effect(a))
  BY DEF ApplyNext
<1>2. /\ UNCHANGED <<provider, files, registry, bound, calmBoot>>
      /\ calm' = (calm /\ troubles' = troubles) /\ pc = "apply"
  BY DEF ApplyNext, app
<1>3. LiveTypes'
  <2>1. CASE UNCHANGED oz
    BY <1>2, <2>1 DEF DeployInv, OpsTypes, LiveTypes, oz
  <2>2. CASE Effect(a)
    BY <1>2, <2>2, EffectTypes DEF DeployInv, OpsTypes
  <2> QED
    BY <1>1, <2>1, <2>2
<1>4. AppTypes' /\ HistoryTypes'
  BY <1>1, <1>2 DEF DeployInv, OpsTypes, AppTypes, HistoryTypes, NoTrouble, Trouble
<1>5. CASE Ends
  BY <1>3, <1>4, <1>5, EndsTypes, EndedScript DEF DeployInv, OpsTypes
<1>6. ASSUME possible(a), Effect(a), plan' = plan \ {a}, UNCHANGED <<script, pc, desired>>
      PROVE  DeployInv'
  <2>1. RunTypes'
    BY <1>6 DEF DeployInv, OpsTypes, RunTypes
  <2>2. /\ LiveTypes /\ RunTypes /\ PlanShape /\ script # "none"
        /\ calm => desired = provider /\ \A c \in chainsIn(desired) : Pending(c)
    BY <1>2 DEF DeployInv, OpsTypes, ScriptInv
  <2>3. chainsIn(desired)' = chainsIn(desired)
    BY <1>6 DEF chainsIn
  <2>4. PlanShape'
    BY <1>6, <2>2, <2>3 DEF PlanShape
  <2>5. ASSUME calm', NEW c \in chainsIn(desired) PROVE Pending(c)'
    <3>1. Pending(c)
      BY <1>2, <2>2, <2>5
    <3> QED
      BY <1>1, <1>6, <2>2, <3>1, CallKeepsPending
  <2>7. ScriptInv'
    <3>1. script' # "none" /\ pc' = "apply" /\ (calm' => desired' = provider')
      BY <1>2, <1>6, <2>2
    <3> QED
      BY <2>3, <2>4, <2>5, <3>1 DEF ScriptInv, ApplyReachesDesired
  <2> QED
    BY <1>3, <1>4, <2>1, <2>7 DEF DeployInv, OpsTypes
<1> QED
  BY <1>1, <1>5, <1>6

\* A plan that is empty has left nothing to do.
LEMMA EmptyPlan ==
    ASSUME RunTypes, plan = {}, \A c \in chainsIn(desired) : Pending(c)
    PROVE  matches(desired) /\ \A c \in chainsIn(desired) : active(Ids, c) = {c}
<1> SUFFICES ASSUME NEW c \in chainsIn(desired)
             PROVE  networks[c] = desired[c] /\ relayers[c] = "active" /\ active(Ids, c) = {c}
  BY DEF matches
<1>1. networks[c] = desired[c] /\ relayers[c] = "active" /\ active(Ids, c) \subseteq {c}
  BY DEF Pending
<1>2. c \in Ids /\ chainOf(c) = c
  BY ConfigTypes DEF chainsIn
<1> QED
  BY <1>1, <1>2 DEF active

\* The rest of the apply: the bindings are checked, the files are written.
LEMMA RestKeeps ==
    ASSUME DeployInv, CheckBinding \/ WriteFiles
    PROVE  DeployInv'
<1>1. CASE CheckBinding
  <2>1. PICK ids \in SUBSET Ids :
           /\ ReadRelayers(ids)
           /\ IF binds(provider, ids) THEN Goes("write") ELSE Ends
           /\ calm' = (calm /\ troubles' = troubles)
    BY <1>1 DEF CheckBinding
  <2>2. /\ UNCHANGED <<provider, files, imported, networks, relayers, registry, bound, calmBoot>>
        /\ pc = "apply" /\ plan = {}
    BY <1>1 DEF CheckBinding, oz, app
  <2>3. /\ calm' \in BOOLEAN /\ (calm' => calm) /\ LiveTypes' /\ AppTypes' /\ HistoryTypes'
    BY <2>1, <2>2, ReadTypes DEF DeployInv, OpsTypes, LiveTypes, AppTypes, HistoryTypes
  <2>4. CASE Ends
    BY <2>3, <2>4, EndsTypes, EndedScript DEF DeployInv, OpsTypes
  <2>5. ASSUME Goes("write") PROVE DeployInv'
    <3>1. pc' = "write" /\ UNCHANGED <<script, desired, plan>>
      BY <2>5 DEF Goes
    <3>2. RunTypes'
      BY <3>1 DEF DeployInv, OpsTypes, RunTypes
    <3>3. /\ script # "none"
          /\ calm => /\ desired = provider
                     /\ matches(desired) /\ \A c \in chainsIn(desired) : active(Ids, c) = {c}
      BY <2>2, EmptyPlan DEF DeployInv, OpsTypes, ScriptInv
    <3>4. /\ matches(desired)' <=> matches(desired)
          /\ chainsIn(desired)' = chainsIn(desired)
          /\ \A c : active(Ids, c)' = active(Ids, c)
      BY <2>2, <3>1 DEF matches, chainsIn, active
    <3>5. ApplyReachesDesired'
      BY <2>3, <3>3, <3>4 DEF ApplyReachesDesired
    <3>6. ScriptInv'
      BY <2>2, <2>3, <3>1, <3>3, <3>5 DEF ScriptInv
    <3> QED
      BY <2>3, <3>2, <3>6 DEF DeployInv, OpsTypes
  <2> QED
    BY <2>1, <2>4, <2>5
<1>2. CASE WriteFiles
  <2>1. /\ pc = "write" /\ pc' = "restart" /\ files' = desired
        /\ UNCHANGED <<script, desired, plan, provider, imported, networks, relayers, registry,
                       bound, calm, calmBoot, troubles>>
    BY <1>2 DEF WriteFiles, Goes, oz, app, NoTrouble
  <2>2. OpsTypes'
    BY <2>1 DEF DeployInv, OpsTypes, LiveTypes, RunTypes, AppTypes, HistoryTypes
  <2>3. /\ script # "none" /\ (calm => desired = provider)
        /\ ApplyReachesDesired
    BY <2>1 DEF DeployInv, ScriptInv
  <2>4. ApplyReachesDesired'
    BY <2>1, <2>3 DEF ApplyReachesDesired, matches, chainsIn, active
  <2>5. ScriptInv'
    BY <2>1, <2>3, <2>4 DEF ScriptInv
  <2> QED
    BY <2>2, <2>5 DEF DeployInv
<1> QED
  BY <1>1, <1>2

\* The service is stopped at the end of a script.
LEMMA RestartKeeps ==
    ASSUME DeployInv, RestartApp
    PROVE  DeployInv'
<1>1. /\ Ends /\ registry' = Nowhere /\ bound' = Unbound
      /\ UNCHANGED <<provider, files, imported, networks, relayers, calm, calmBoot, troubles>>
  BY DEF RestartApp, oz
<1>2. OpsTypes'
  BY <1>1, EndsTypes, ConfigTypes DEF DeployInv, OpsTypes, LiveTypes, AppTypes, HistoryTypes
<1> QED
  BY <1>1, <1>2, EndedScript DEF DeployInv

-----------------------------------------------------------------------------
(* The steps beside the scripts.                                           *)

\* A script that runs is not disturbed by what leaves the live state alone.
LEMMA BesideKeeps ==
    ASSUME DeployInv, UNCHANGED <<oz, run, provider, calm>>,
           files' \in Config, AppTypes', calmBoot' \in BOOLEAN, troubles' \in Nat
    PROVE  DeployInv'
<1>1. UNCHANGED <<imported, networks, relayers, script, pc, desired, plan>>
  BY DEF oz, run
<1>2. OpsTypes'
  BY <1>1 DEF DeployInv, OpsTypes, LiveTypes, RunTypes, HistoryTypes
<1>3. ScriptInv'
  BY <1>1, BesideScript DEF DeployInv
<1> QED
  BY <1>2, <1>3 DEF DeployInv

\* One trouble more is a number.
LEMMA TroubleTypes ==
    ASSUME HistoryTypes, Trouble
    PROVE  troubles' \in Nat /\ troubles' # troubles
  BY DEF HistoryTypes, Trouble

\* A chain with exactly one active relayer has one to bind.
LEMMA BoundRelayer ==
    ASSUME NEW config \in Config, NEW ids \in SUBSET Ids, binds(config, ids),
           NEW c \in chainsIn(config)
    PROVE  /\ (CHOOSE id \in active(ids, c) : TRUE) \in active(ids, c)
           /\ active(ids, c) = {CHOOSE id \in active(ids, c) : TRUE}
<1>1. Cardinality(active(ids, c)) = 1
  BY DEF binds
<1>2. IsFiniteSet(active(ids, c))
  <2>1. IsFiniteSet(Ids)
    BY OperationsAssumption, FS_Union DEF Ids
  <2>2. active(ids, c) \subseteq Ids
    BY DEF active
  <2> QED
    BY <2>1, <2>2, FS_Subset
<1>3. PICK x : active(ids, c) = {x}
  BY <1>1, <1>2, FS_Singleton
<1> QED
  BY <1>3

\* The service binds a relayer to each of its chains, or ends.
LEMMA BindKeeps ==
    ASSUME DeployInv, Bind
    PROVE  DeployInv'
<1>1. PICK ids \in SUBSET Ids :
         /\ ReadRelayers(ids)
         /\ calmBoot' = (calmBoot /\ troubles' = troubles)
         /\ IF binds(registry, ids)
              THEN /\ bound' = [c \in Chains |-> IF c \in chainsIn(registry)
                                   THEN CHOOSE id \in active(ids, c) : TRUE ELSE "none"]
                   /\ UNCHANGED <<registry, migrationVars>>
              ELSE /\ UNCHANGED bound /\ registry' = Nowhere /\ Stops(Service)
  BY DEF Bind
<1>2. UNCHANGED <<provider, files, oz, run, calm>>
  BY DEF Bind
<1>3. troubles' \in Nat /\ calmBoot' \in BOOLEAN
  BY <1>1, ReadTypes DEF DeployInv, OpsTypes, HistoryTypes
<1>4. files' \in Config /\ registry \in Config /\ bound \in [Chains -> Ids \cup {"none"}]
  BY <1>2 DEF DeployInv, OpsTypes, LiveTypes, AppTypes
<1>5. CASE binds(registry, ids)
  <2>1. ASSUME NEW c \in Chains PROVE bound'[c] \in Ids \cup {"none"}
    <3>1. CASE c \in chainsIn(registry)
      <4>1. (CHOOSE id \in active(ids, c) : TRUE) \in active(ids, c)
        BY <1>4, <1>5, <3>1, BoundRelayer
      <4>2. active(ids, c) \subseteq Ids
        BY DEF active
      <4> QED
        BY <1>1, <1>5, <3>1, <4>1, <4>2
    <3>2. CASE c \notin chainsIn(registry)
      BY <1>1, <1>5, <3>2
    <3> QED
      BY <3>1, <3>2
  <2>2. bound' = [c \in Chains |-> bound'[c]] /\ registry' = registry
    BY <1>1, <1>5
  <2>3. AppTypes'
    BY <1>4, <2>1, <2>2 DEF AppTypes
  <2> QED
    BY <1>2, <1>3, <1>4, <2>3, BesideKeeps
<1>6. CASE ~binds(registry, ids)
  <2>1. AppTypes'
    BY <1>1, <1>4, <1>6, ConfigTypes DEF AppTypes
  <2> QED
    BY <1>2, <1>3, <1>4, <2>1, BesideKeeps
<1> QED
  BY <1>5, <1>6

\* The service and the migrations leave the scripts alone.
LEMMA ServiceKeeps ==
    ASSUME DeployInv, Boot \/ Serve \/ MigrateNext \/ MigrateByHand
    PROVE  DeployInv'
<1>1. /\ provider \in Config /\ files \in Config /\ AppTypes /\ HistoryTypes
  BY DEF DeployInv, OpsTypes, LiveTypes
<1>2. CASE Boot
  <2>1. /\ registry' = provider /\ bound' = Unbound /\ calmBoot' = TRUE
        /\ UNCHANGED <<provider, files, oz, run, calm, troubles>>
    BY <1>2 DEF Boot
  <2>2. AppTypes' /\ files' \in Config /\ calmBoot' \in BOOLEAN /\ troubles' \in Nat
    BY <1>1, <2>1, ConfigTypes DEF AppTypes, HistoryTypes
  <2> QED
    BY <2>1, <2>2, BesideKeeps
<1>3. CASE Serve \/ MigrateNext
  <2>1. UNCHANGED <<provider, files, oz, run, registry, bound, calm, calmBoot, troubles>>
    BY <1>3 DEF Serve, MigrateNext, opsVars, app
  <2>2. AppTypes' /\ files' \in Config /\ calmBoot' \in BOOLEAN /\ troubles' \in Nat
    BY <1>1, <2>1 DEF AppTypes, HistoryTypes
  <2> QED
    BY <2>1, <2>2, BesideKeeps
<1>4. CASE MigrateByHand
  <2>1. Trouble /\ UNCHANGED <<provider, files, oz, run, registry, bound, calm, calmBoot>>
    BY <1>4 DEF MigrateByHand, app
  <2>2. AppTypes' /\ files' \in Config /\ calmBoot' \in BOOLEAN /\ troubles' \in Nat
    BY <1>1, <2>1, TroubleTypes DEF AppTypes, HistoryTypes
  <2> QED
    BY <2>1, <2>2, BesideKeeps
<1> QED
  BY <1>2, <1>3, <1>4

\* What the operator and the outside change ends the calm.
LEMMA OutsideKeeps ==
    ASSUME DeployInv, Edit \/ ProdInit \/ EmptyRedis \/ RelayerChanges
    PROVE  DeployInv'
<1>1. LiveTypes /\ RunTypes /\ AppTypes /\ HistoryTypes
  BY DEF DeployInv, OpsTypes
<1>2. CASE ProdInit
  <2>1. files' = provider /\ UNCHANGED <<oz, run, provider, registry, bound, calm, calmBoot, troubles>>
    BY <1>2 DEF ProdInit, app
  <2>2. AppTypes' /\ files' \in Config /\ calmBoot' \in BOOLEAN /\ troubles' \in Nat
    BY <1>1, <2>1 DEF LiveTypes, AppTypes, HistoryTypes
  <2> QED
    BY <2>1, <2>2, BesideKeeps
<1>3. CASE Edit \/ EmptyRedis \/ RelayerChanges
  <2>1. /\ Trouble /\ calm' = FALSE /\ UNCHANGED <<files, run, registry, bound>>
        /\ calmBoot' = calmBoot \/ calmBoot' = FALSE
    BY <1>3 DEF Edit, EmptyRedis, RelayerChanges, app
  <2>2. provider' \in Config
    BY <1>1, <1>3, ConfigTypes DEF Edit, EmptyRedis, RelayerChanges, LiveTypes
  <2>3. networks' \in Config /\ imported' \in BOOLEAN /\ relayers' \in [Ids -> Status]
    <3>1. CASE Edit
      BY <1>1, <3>1 DEF Edit, oz, LiveTypes
    <3>2. CASE EmptyRedis
      BY <3>2, ConfigTypes DEF EmptyRedis, Status
    <3>3. CASE RelayerChanges
      <4>1. PICK id \in Ids : \E status \in Status \ {"absent"} :
                relayers' = [relayers EXCEPT ![id] = status]
        BY <3>3 DEF RelayerChanges
      <4>2. UNCHANGED <<imported, networks>>
        BY <3>3 DEF RelayerChanges
      <4> QED
        BY <1>1, <4>1, <4>2 DEF LiveTypes
    <3> QED
      BY <1>3, <3>1, <3>2, <3>3
  <2>4. LiveTypes' /\ AppTypes'
    BY <1>1, <2>1, <2>2, <2>3 DEF LiveTypes, AppTypes
  <2>5. RunTypes' /\ HistoryTypes'
    BY <1>1, <2>1, TroubleTypes DEF RunTypes, HistoryTypes, run
  <2>6. ScriptInv'
    BY <2>1, BesideScript DEF DeployInv
  <2> QED
    BY <2>4, <2>5, <2>6 DEF DeployInv, OpsTypes
<1> QED
  BY <1>2, <1>3

\* A script that is killed ends; a service that is killed forgets its relayers.
LEMMA KilledKeeps ==
    ASSUME DeployInv, Killed
    PROVE  DeployInv'
<1>1. LiveTypes /\ AppTypes /\ HistoryTypes /\ Trouble
  BY DEF DeployInv, OpsTypes, Killed
<1>2. UNCHANGED <<provider, files, oz, calm, calmBoot>> /\ troubles' \in Nat
  BY <1>1, TroubleTypes DEF Killed
<1>3. CASE Ends /\ UNCHANGED app
  <2>1. LiveTypes' /\ AppTypes' /\ HistoryTypes'
    BY <1>1, <1>2, <1>3 DEF LiveTypes, AppTypes, HistoryTypes, oz, app
  <2> QED
    BY <1>3, <2>1, EndsTypes, EndedScript DEF DeployInv, OpsTypes
<1>4. CASE UNCHANGED run /\ (UNCHANGED app \/ (registry' = Nowhere /\ bound' = Unbound))
  <2>1. AppTypes' /\ files' \in Config /\ calmBoot' \in BOOLEAN
    BY <1>1, <1>2, <1>4, ConfigTypes DEF LiveTypes, AppTypes, HistoryTypes, app
  <2> QED
    BY <1>2, <1>4, <2>1, BesideKeeps
<1> QED
  BY <1>3, <1>4 DEF Killed

\* Before anything is deployed the invariant holds.
LEMMA DeployInit == Init => DeployInv
<1> SUFFICES ASSUME Init PROVE DeployInv
  OBVIOUS
<1>1. LiveTypes
  BY ConfigTypes DEF Init, LiveTypes, Status
<1>2. RunTypes /\ AppTypes /\ HistoryTypes
  BY ConfigTypes DEF Init, RunTypes, AppTypes, HistoryTypes
<1>3. ScriptInv
  BY DEF Init, ScriptInv, ApplyReachesDesired
<1> QED
  BY <1>1, <1>2, <1>3 DEF DeployInv, OpsTypes

\* Every step of the deployment keeps the invariant.
LEMMA DeployStep ==
    ASSUME DeployInv, [Next]_vars
    PROVE  DeployInv'
<1>1. CASE \E command \in Commands : Start(command)
  BY <1>1, StartKeeps
<1>2. CASE Script
  BY <1>2, ValidateKeeps, VerifyKeeps, PlanKeeps, ApplyNextKeeps, RestKeeps, RestartKeeps
     DEF Script
<1>3. CASE Boot \/ Bind \/ Serve \/ MigrateNext \/ MigrateByHand
  BY <1>3, BindKeeps, ServiceKeeps
<1>4. CASE Edit \/ ProdInit \/ EmptyRedis \/ RelayerChanges \/ Killed
  BY <1>4, OutsideKeeps, KilledKeeps
<1>5. CASE UNCHANGED vars
  <2>1. /\ UNCHANGED <<oz, run, provider, calm>>
        /\ UNCHANGED <<files, registry, bound, calmBoot, troubles>>
    BY <1>5 DEF vars, opsVars, app
  <2>2. AppTypes' /\ files' \in Config /\ calmBoot' \in BOOLEAN /\ troubles' \in Nat
    BY <2>1 DEF DeployInv, OpsTypes, LiveTypes, AppTypes, HistoryTypes
  <2> QED
    BY <2>1, <2>2, BesideKeeps
<1> QED
  BY <1>1, <1>2, <1>3, <1>4, <1>5 DEF Next

-----------------------------------------------------------------------------
(* The theorems of the deployment.                                         *)

\* For any chains, relayers, configurations and troubles: a script that nothing disturbed
\* keeps in its plan whatever a chain still differs in, and goes by provider.json as it is.
THEOREM PlansAreComplete == Spec => []DeployInv
<1>1. DeployInv /\ [Next]_vars => DeployInv'
  BY DeployStep
<1> QED BY <1>1, DeployInit, PTL DEF Spec

\* The types of the deployment, those of its migrations included.
THEOREM OperationsTypes == Spec => []OperationsTypeOK
<1>1. DeployInv /\ MigrationInv => OperationsTypeOK
  <2> SUFFICES ASSUME DeployInv, MigrationInv PROVE OperationsTypeOK
    OBVIOUS
  <2>1. LiveTypes /\ RunTypes /\ AppTypes /\ HistoryTypes
    BY DEF DeployInv, OpsTypes
  <2>2. ASSUME NEW a \in plan PROVE a.on \in Ids /\ rank(a) \in 0..4
    <3>1. a.on \in Ids /\ a.kind \in Kinds
      BY <2>1 DEF RunTypes
    <3>2. rank(a) \in {0, 1, 2, 3, 4}
      BY <3>1 DEF rank, Kinds
    <3> QED
      BY <3>1, <3>2
  <2>3. {provider, files, networks, desired, registry} \subseteq Config
    BY <2>1 DEF LiveTypes, RunTypes, AppTypes
  <2>4. {imported, calm, calmBoot} \subseteq BOOLEAN
    <3>1. imported \in BOOLEAN /\ calm \in BOOLEAN /\ calmBoot \in BOOLEAN
      BY <2>1 DEF LiveTypes, HistoryTypes
    <3> QED
      BY <3>1, Zenon
  <2>5. MigrationsTypeOK
    BY DEF MigrationInv
  <2>6. /\ relayers \in [Ids -> Status] /\ script \in Commands \cup {"none"}
        /\ pc \in {"idle", "validate", "verify", "plan", "apply", "write", "restart"}
        /\ bound \in [Chains -> Ids \cup {"none"}]
    BY <2>1 DEF LiveTypes, RunTypes, AppTypes
  <2> QED
    BY <2>2, <2>3, <2>4, <2>5, <2>6 DEF OperationsTypeOK
<1> QED
  BY <1>1, PlansAreComplete, DeploymentMigrates, MigrationInductive, PTL

\* An undisturbed apply that came to its end has made the live state what provider.json
\* asks for, whatever earlier runs left behind.
THEOREM AppliesReachDesired == Spec => []ApplyReachesDesired
<1>1. DeployInv => ApplyReachesDesired
  BY DEF DeployInv, ScriptInv
<1> QED BY <1>1, PlansAreComplete, PTL

\* The active relayers of a chain can be counted.
LEMMA ActiveIsFinite ==
    ASSUME NEW c
    PROVE  /\ IsFiniteSet(active(Ids, c)) /\ Cardinality(active(Ids, c)) \in Nat
           /\ IsFiniteSet(active(Ids, c)') /\ Cardinality(active(Ids, c)') \in Nat
<1>1. IsFiniteSet(Ids)
  BY OperationsAssumption, FS_Union DEF Ids
<1>2. active(Ids, c) \subseteq Ids /\ active(Ids, c)' \subseteq Ids
  BY DEF active
<1> QED
  BY <1>1, <1>2, FS_Subset, FS_CardinalityType

\* A call of a plan that is still what the live state needs: on a chain that is asked for,
\* its relayer stays active or becomes the only one; elsewhere no relayer becomes active.
LEMMA CallDoublesNothing ==
    ASSUME LiveTypes, RunTypes, PlanShape, \A c \in chainsIn(desired) : Pending(c),
           NEW a \in plan, \A b \in plan : rank(a) <= rank(b), possible(a), Effect(a),
           NEW c \in Chains
    PROVE  /\ c \in chainsIn(desired) =>
                /\ active(Ids, c) \subseteq {c} /\ active(Ids, c)' \subseteq {c}
                /\ active(Ids, c) \subseteq active(Ids, c)'
           /\ c \notin chainsIn(desired) => active(Ids, c)' \subseteq active(Ids, c)
<1>1. /\ a.on \in Ids
      /\ \/ relayers' = relayers
         \/ a.on \in chainsIn(desired) /\ relayers' = [relayers EXCEPT ![a.on] = "active"]
         \/ /\ chainOf(a.on) \notin chainsIn(desired)
            /\ relayers' = [relayers EXCEPT ![a.on] = "paused"]
  BY EffectOnRelayers
<1>2. relayers \in [Ids -> Status] /\ \A d \in chainsIn(desired) : chainOf(d) = d
  BY ConfigTypes DEF LiveTypes, chainsIn
<1>3. ASSUME c \in chainsIn(desired) PROVE active(Ids, c) \subseteq {c}
  BY <1>3, NoBootstrap DEF Pending
<1>4. CASE relayers' = relayers
  BY <1>3, <1>4 DEF active
<1>5. CASE a.on \in chainsIn(desired) /\ relayers' = [relayers EXCEPT ![a.on] = "active"]
  <2>1. chainOf(a.on) = a.on
    BY <1>2, <1>5
  <2>2. \A id \in Ids : relayers'[id] = "active" => relayers[id] = "active" \/ id = a.on
    BY <1>2, <1>5
  <2>3. \A id \in Ids : relayers[id] = "active" => relayers'[id] = "active"
    BY <1>1, <1>2, <1>5
  <2> QED
    BY <1>3, <1>5, <2>1, <2>2, <2>3 DEF active
<1>6. CASE /\ chainOf(a.on) \notin chainsIn(desired)
           /\ relayers' = [relayers EXCEPT ![a.on] = "paused"]
  <2>1. \A id \in Ids : relayers'[id] = "active" => relayers[id] = "active"
    BY <1>2, <1>6
  <2>2. \A id \in Ids : relayers[id] = "active" /\ id # a.on => relayers'[id] = "active"
    BY <1>2, <1>6
  <2> QED
    BY <1>3, <1>6, <2>1, <2>2 DEF active
<1> QED
  BY <1>1, <1>4, <1>5, <1>6

\* While a plan is carried out, the relayers change by its calls alone, or the calm ends.
LEMMA OnlyCallsChange ==
    ASSUME DeployInv, [Next]_vars, pc = "apply", calm'
    PROVE  \/ relayers' = relayers
           \/ calm /\ \E a \in plan :
                /\ \A b \in plan : rank(a) <= rank(b)
                /\ possible(a) /\ Effect(a)
<1>1. script # "none" /\ HistoryTypes
  BY DEF DeployInv, OpsTypes, ScriptInv
<1>2. CASE ApplyNext
  <2>1. calm /\ troubles' = troubles
    BY <1>2 DEF ApplyNext
  <2>2. ~Trouble
    BY <1>1, <2>1, TroubleTypes
  <2> QED
    BY <1>2, <2>1, <2>2 DEF ApplyNext, oz
<1>3. CASE Validate \/ Verify \/ Plan \/ CheckBinding \/ WriteFiles \/ RestartApp
  BY <1>3 DEF Validate, Verify, Plan, CheckBinding, WriteFiles, RestartApp, oz
<1>4. CASE \E command \in Commands : Start(command)
  BY <1>1, <1>4 DEF Start
<1>5. CASE Boot \/ Bind \/ Serve \/ MigrateNext \/ MigrateByHand
  BY <1>5 DEF Boot, Bind, Serve, MigrateNext, MigrateByHand, opsVars, oz
<1>6. CASE Edit \/ ProdInit \/ EmptyRedis \/ RelayerChanges \/ Killed
  BY <1>6 DEF Edit, ProdInit, EmptyRedis, RelayerChanges, Killed, oz
<1>7. CASE UNCHANGED vars
  BY <1>7 DEF vars, opsVars, oz
<1> QED
  BY <1>2, <1>3, <1>4, <1>5, <1>6, <1>7 DEF Next, Script

\* No undisturbed call makes a second relayer active on a chain, and none pauses the relayer
\* of a chain that is asked for.
THEOREM AppliesNeverDouble == Spec => ApplyNeverDoubles
<1>1. ASSUME DeployInv, [Next]_vars, pc = "apply", calm', NEW c \in Chains
      PROVE  /\ Cardinality(active(Ids, c)') > Cardinality(active(Ids, c)) =>
                  Cardinality(active(Ids, c)') = 1
             /\ c \in chainsIn(desired) => active(Ids, c) \subseteq active(Ids, c)'
  <2>1. /\ IsFiniteSet(active(Ids, c)) /\ Cardinality(active(Ids, c)) \in Nat
        /\ IsFiniteSet(active(Ids, c)') /\ Cardinality(active(Ids, c)') \in Nat
    BY ActiveIsFinite
  <2>2. CASE relayers' = relayers
    <3>1. active(Ids, c)' = active(Ids, c)
      BY <2>2 DEF active
    <3> QED
      BY <2>1, <3>1
  <2>3. ASSUME calm, NEW a \in plan, \A b \in plan : rank(a) <= rank(b), possible(a), Effect(a)
        PROVE  /\ c \in chainsIn(desired) =>
                    /\ active(Ids, c) \subseteq {c} /\ active(Ids, c)' \subseteq {c}
                    /\ active(Ids, c) \subseteq active(Ids, c)'
               /\ c \notin chainsIn(desired) => active(Ids, c)' \subseteq active(Ids, c)
    <3>1. LiveTypes /\ RunTypes /\ PlanShape /\ \A d \in chainsIn(desired) : Pending(d)
      BY <1>1, <2>3 DEF DeployInv, OpsTypes, ScriptInv
    <3> QED
      BY <2>3, <3>1, CallDoublesNothing
  <2>4. CASE /\ c \in chainsIn(desired) /\ active(Ids, c)' \subseteq {c}
             /\ active(Ids, c) \subseteq active(Ids, c)'
    <3>1. CASE active(Ids, c)' = {}
      <4>1. active(Ids, c) = active(Ids, c)'
        BY <2>4, <3>1
      <4> QED
        BY <2>1, <2>4, <4>1
    <3>2. CASE active(Ids, c)' = {c}
      BY <2>4, <3>2, FS_Singleton
    <3> QED
      BY <2>4, <3>1, <3>2
  <2>5. CASE c \notin chainsIn(desired) /\ active(Ids, c)' \subseteq active(Ids, c)
    <3>1. Cardinality(active(Ids, c)') <= Cardinality(active(Ids, c))
      BY <2>1, <2>5, FS_Subset
    <3> QED
      BY <2>1, <2>5, <3>1
  <2> QED
    BY <1>1, <2>2, <2>3, <2>4, <2>5, OnlyCallsChange
<1>2. DeployInv /\ [Next]_vars
        => [pc = "apply" /\ calm' =>
              \A c \in Chains :
                 /\ Cardinality(active(Ids, c)') > Cardinality(active(Ids, c)) =>
                      Cardinality(active(Ids, c)') = 1
                 /\ c \in chainsIn(desired) => active(Ids, c) \subseteq active(Ids, c)']_vars
  BY <1>1
<1> QED BY <1>2, PlansAreComplete, PTL DEF Spec, ApplyNeverDoubles

\* Only the bindings of a start give the service relayers.
LEMMA OnlyBindBinds ==
    ASSUME [Next]_vars, ~up, up'
    PROVE  Bind
<1>1. bound = Unbound /\ bound' # Unbound
  <2>1. Unbound' = Unbound
    BY DEF Unbound
  <2> QED
    BY <2>1 DEF up
<1>2. CASE (\E command \in Commands : Start(command)) \/ Script
  BY <1>1, <1>2 DEF Start, Script, Validate, Verify, Plan, ApplyNext, CheckBinding,
                    WriteFiles, RestartApp, app
<1>3. CASE Boot \/ Serve \/ MigrateNext \/ MigrateByHand
  BY <1>1, <1>3 DEF Boot, Serve, MigrateNext, MigrateByHand, opsVars, app
<1>4. CASE Edit \/ ProdInit \/ EmptyRedis \/ RelayerChanges \/ Killed
  BY <1>1, <1>4 DEF Edit, ProdInit, EmptyRedis, RelayerChanges, Killed, app
<1>5. CASE UNCHANGED vars
  BY <1>1, <1>5 DEF vars, opsVars, app
<1> QED
  BY <1>2, <1>3, <1>4, <1>5 DEF Next

\* The service comes up with a relayer on each chain it knows, the only active one when all
\* could be read.
THEOREM BindingsAreExact == Spec => BindingIsExact
<1>1. ASSUME DeployInv, [Next]_vars, ~up, up', NEW c \in chainsIn(registry)
      PROVE  /\ bound'[c] # "none" /\ chainOf(bound'[c]) = c
             /\ calmBoot' => active(Ids, c) = {bound'[c]}
  <2>1. Bind
    BY <1>1, OnlyBindBinds
  <2>2. PICK ids \in SUBSET Ids :
           /\ ReadRelayers(ids)
           /\ calmBoot' = (calmBoot /\ troubles' = troubles)
           /\ IF binds(registry, ids)
                THEN bound' = [d \in Chains |-> IF d \in chainsIn(registry)
                                  THEN CHOOSE id \in active(ids, d) : TRUE ELSE "none"]
                ELSE UNCHANGED bound
    BY <2>1 DEF Bind
  <2>3. binds(registry, ids)
    <3>1. bound' # bound
      <4>1. Unbound' = Unbound
        BY DEF Unbound
      <4> QED
        BY <1>1, <4>1 DEF up
    <3> QED
      BY <2>2, <3>1
  <2>4. c \in Chains /\ registry \in Config /\ HistoryTypes
    BY <1>1 DEF chainsIn, DeployInv, OpsTypes, AppTypes
  <2>5. bound'[c] = CHOOSE id \in active(ids, c) : TRUE
    BY <1>1, <2>2, <2>3, <2>4
  <2>6. bound'[c] \in active(ids, c) /\ active(ids, c) = {bound'[c]}
    BY <1>1, <2>3, <2>4, <2>5, BoundRelayer
  <2>7. bound'[c] \in Ids /\ chainOf(bound'[c]) = c
    BY <2>6 DEF active
  <2>8. bound'[c] # "none"
    BY <2>7, OperationsAssumption DEF Ids
  <2>9. ASSUME calmBoot' PROVE active(Ids, c) = {bound'[c]}
    <3>1. ids = existing
      BY <2>2, <2>4, <2>9, ReadTypes
    <3>2. active(existing, c) = active(Ids, c)
      BY DEF active, existing
    <3> QED
      BY <2>6, <3>1, <3>2
  <2> QED
    BY <2>7, <2>8, <2>9
<1>2. DeployInv /\ [Next]_vars
        => [~up /\ up' =>
              \A c \in chainsIn(registry) :
                 /\ bound'[c] # "none" /\ chainOf(bound'[c]) = c
                 /\ calmBoot' => active(Ids, c) = {bound'[c]}]_vars
  BY <1>1
<1> QED BY <1>2, PlansAreComplete, PTL DEF Spec, BindingIsExact

=============================================================================
