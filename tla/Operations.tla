------------------------------- MODULE Operations -------------------------------
(***************************************************************************)
(* Deployment: provider.json, the bootstrap files made from it, the live   *)
(* networks and relayers of the OpenZeppelin service, the scripts that     *)
(* bring them together (scripts/prod-up.sh, prod-apply-config.ts and       *)
(* scripts/lib), and the start of the service, which migrates its database *)
(* and binds one relayer to each chain (main.ts, relayerDiscovery.ts).     *)
(*                                                                         *)
(* A script reads the relayers one by one and changes them one by one. The *)
(* reads of one listing are one action here, of which any may fail; each   *)
(* change is an action of its own, and may fail, with or without effect.   *)
(***************************************************************************)
EXTENDS Migrations, FiniteSets

CONSTANTS
    Chains,
    ForeignOf,      \* a relayer id no chain asks for |-> the chain of its network
    Rpcs,           \* RPC lists
    Configs,        \* what the operator writes into provider.json
    MaxTroubles     \* bound on edits, failed calls, killed processes, changes outside
                    \* and migrations by hand, together

ASSUME OperationsAssumption ==
    /\ IsFiniteSet(Chains) /\ IsFiniteSet(DOMAIN ForeignOf)
    /\ Chains \cap DOMAIN ForeignOf = {} /\ \A f \in DOMAIN ForeignOf : ForeignOf[f] \in Chains
    /\ Configs \subseteq [Chains -> Rpcs \cup {"absent"}] /\ MaxTroubles \in Nat
    /\ \A config \in Configs : \E c \in Chains : config[c] # "absent"
    /\ "absent" \notin Rpcs /\ "none" \notin Chains \cup DOMAIN ForeignOf

\* The relayer that buildRelayerEntry asks for on chain c has the id c here.
Ids == Chains \cup DOMAIN ForeignOf
chainOf(id) == IF id \in Chains THEN id ELSE ForeignOf[id]

VARIABLES
    provider,       \* provider.json: RPC list of each chain
    files,          \* networks/evm.json and the relayers of config.json
    imported,       \* the OpenZeppelin service has taken the files over
    networks,       \* its networks
    relayers,       \* its relayers
    script, pc,     \* the script that runs and where it is
    desired,        \* provider.json as the script read it
    plan,           \* the actions left of its plan
    registry,       \* provider.json as the service read it
    bound,          \* relayerIdByChainId of the service
    \* history
    calm,           \* nothing changed and no call failed since the script began
    calmBoot,       \* the same since the service began to start
    troubles

oz == <<imported, networks, relayers>>
run == <<script, pc, desired, plan>>
app == <<registry, bound>>
opsVars == <<provider, files, oz, run, app, calm, calmBoot, troubles>>
vars == <<opsVars, migrationVars>>

Config == [Chains -> Rpcs \cup {"absent"}]
Nowhere == [c \in Chains |-> "absent"]
chainsIn(config) == { c \in Chains : config[c] # "absent" }
Unbound == [c \in Chains |-> "none"]

Status == { "absent", "active", "paused", "disabled" }

Init ==
    /\ provider \in Configs
    /\ files = Nowhere /\ imported = FALSE
    /\ networks = Nowhere /\ relayers = [id \in Ids |-> "absent"]
    /\ script = "none" /\ pc = "idle" /\ desired = Nowhere /\ plan = {}
    /\ registry = Nowhere /\ bound = Unbound
    /\ calm = TRUE /\ calmBoot = TRUE
    /\ troubles = 0
    /\ MigrationsInit

-----------------------------------------------------------------------------
(* Reading the relayers.                                                   *)

\* The relayers whose details are read: a listing that ends early and a relayer that
\* cannot be read leave some out, without an error.
existing == { id \in Ids : relayers[id] # "absent" }

Trouble == troubles < MaxTroubles /\ troubles' = troubles + 1

ReadRelayers(ids) ==
    /\ ids \subseteq existing
    /\ IF ids = existing THEN UNCHANGED troubles ELSE Trouble

active(ids, c) == { id \in ids : chainOf(id) = c /\ relayers[id] = "active" }

\* Faulty: takes the first of several.
bindsFirst(config, ids) == \A c \in chainsIn(config) : active(ids, c) # {}

\* bindRelayersToRegistry: exactly one active relayer per chain.
binds(config, ids) == \A c \in chainsIn(config) : Cardinality(active(ids, c)) = 1

-----------------------------------------------------------------------------
(* buildReconcilePlan.                                                     *)

Action(kind, on) == [kind |-> kind, on |-> on]

rank(a) ==
    CASE a.kind = "bootstrap_required" -> 0 [] a.kind = "patch_network_rpc" -> 1
      [] a.kind = "create_relayer" -> 2 [] a.kind = "patch_relayer_unpause" -> 3
      [] a.kind = "patch_relayer_pause" -> 4

live(config) == { c \in chainsIn(config) : networks[c] # "absent" }

\* Faulty: another active relayer is left to whoever made it.
refusesDisabled(config, ids) == \E c \in live(config) \cap ids : relayers[c] = "disabled"

\* What the operator has to resolve: two active relayers, another one than expected,
\* one that the service has disabled.
refuses(config, ids) ==
    \E c \in live(config) :
        \/ c \in ids /\ relayers[c] = "disabled"
        \/ active(ids, c) \ {c} # {}

\* Faulty: the RPC lists of existing networks are left alone.
patchesNothing(config) == {}

patches(config) ==
    { Action("patch_network_rpc", c) : c \in { d \in live(config) : networks[d] # config[d] } }

\* Faulty: a paused relayer is none.
unpausesNothing(config, ids) == {}

unpauses(config, ids) ==
    { Action("patch_relayer_unpause", c) :
        c \in { d \in live(config) \cap ids : relayers[d] = "paused" } }

actions(config, ids) ==
    { Action("bootstrap_required", c) : c \in chainsIn(config) \ live(config) }
    \cup patches(config)
    \cup { Action("create_relayer", c) : c \in live(config) \ ids }
    \cup unpauses(config, ids)

\* With --pause-removed-relayers.
pauses(config, ids) ==
    { Action("patch_relayer_pause", id) :
        id \in { i \in ids : chainOf(i) \notin chainsIn(config) /\ relayers[i] = "active" } }

-----------------------------------------------------------------------------
(* The scripts.                                                            *)

Same == UNCHANGED migrationVars
NoTrouble == UNCHANGED troubles

Goes(place) == pc' = place /\ UNCHANGED <<script, desired, plan>>

Ends ==
    /\ script' = "none" /\ pc' = "idle" /\ plan' = {} /\ desired' = Nowhere

Commands == { "prod:up", "prod:apply-config", "--pause-removed-relayers", "--dry-run" }

Start(command) ==
    /\ script = "none"
    /\ script' = command
    /\ pc' = IF command = "prod:up" THEN "validate" ELSE "plan"
    /\ desired' = provider
    /\ calm' = TRUE
    /\ UNCHANGED <<provider, files, oz, plan, app, calmBoot>> /\ Same /\ NoTrouble

\* prod:validate: the files are those of provider.json, the secrets are there, and the
\* signer has a balance. Then the service is started and, when its Redis is empty, takes
\* the files over.
Validate ==
    /\ pc = "validate"
    /\ \/ Ends /\ UNCHANGED oz
       \/ /\ files = provider
          /\ pc' = "verify" /\ desired' = provider /\ UNCHANGED <<script, plan>>
          /\ imported' = TRUE
          /\ IF imported THEN UNCHANGED <<networks, relayers>>
             ELSE /\ networks' = files
                  /\ relayers' = [id \in Ids |->
                                    IF id \in chainsIn(files) THEN "active" ELSE "absent"]
    /\ UNCHANGED <<provider, files, app, calm, calmBoot>> /\ Same /\ NoTrouble

matches(config) == \A c \in chainsIn(config) : networks[c] = config[c] /\ relayers[c] = "active"

\* prod:verify-oz-import: the networks and relayers match, and the relayers can be bound.
Verify ==
    /\ pc = "verify"
    /\ \E ids \in SUBSET Ids :
         /\ ReadRelayers(ids)
         /\ IF matches(desired) /\ binds(provider, ids) THEN Goes("plan") ELSE Ends
         /\ calm' = (calm /\ troubles' = troubles)
    /\ UNCHANGED <<provider, files, oz, app, calmBoot>> /\ Same

\* prod:apply-config reads provider.json and the live state.
Plan ==
    /\ pc = "plan"
    /\ \E ids \in SUBSET Ids :
         /\ ReadRelayers(ids)
         /\ calm' = (calm /\ troubles' = troubles)
         /\ IF refuses(provider, ids) \/ script = "--dry-run" THEN Ends
            ELSE /\ pc' = "apply" /\ desired' = provider /\ UNCHANGED script
                 /\ plan' = actions(provider, ids) \cup
                      IF script = "--pause-removed-relayers" THEN pauses(provider, ids) ELSE {}
    /\ UNCHANGED <<provider, files, oz, app, calmBoot>> /\ Same

\* What a call does to the service; an id that exists cannot be created again.
Effect(a) ==
    /\ networks' = IF a.kind = "patch_network_rpc" THEN [networks EXCEPT ![a.on] = desired[a.on]]
                   ELSE networks
    /\ relayers' = CASE a.kind \in {"create_relayer", "patch_relayer_unpause"} ->
                          [relayers EXCEPT ![a.on] = "active"]
                     [] a.kind = "patch_relayer_pause" -> [relayers EXCEPT ![a.on] = "paused"]
                     [] OTHER -> relayers
    /\ UNCHANGED imported

possible(a) ==
    CASE a.kind = "bootstrap_required" -> FALSE
      [] a.kind = "patch_network_rpc" -> networks[a.on] # "absent"
      [] a.kind = "create_relayer" -> relayers[a.on] = "absent" /\ networks[a.on] # "absent"
      [] a.kind = "patch_relayer_unpause" -> relayers[a.on] # "absent"
      [] a.kind = "patch_relayer_pause" -> relayers[a.on] # "absent"

\* applyReconcilePlan: one call after the other, in the order of their kinds; the first
\* that fails ends the script, and what was done stays done.
ApplyNext ==
    /\ pc = "apply" /\ plan # {}
    /\ \E a \in plan :
         /\ \A b \in plan : rank(a) <= rank(b)
         /\ \/ /\ possible(a) /\ Effect(a)
               /\ plan' = plan \ {a} /\ UNCHANGED <<script, pc, desired>> /\ NoTrouble
            \/ ~possible(a) /\ Ends /\ UNCHANGED oz /\ NoTrouble
            \/ /\ Trouble
               /\ Ends
               /\ UNCHANGED oz \/ (possible(a) /\ Effect(a))
    /\ calm' = (calm /\ troubles' = troubles)
    /\ UNCHANGED <<provider, files, app, calmBoot>> /\ Same

\* validateRelayerBinding, against provider.json as it is now.
CheckBinding ==
    /\ pc = "apply" /\ plan = {}
    /\ \E ids \in SUBSET Ids :
         /\ ReadRelayers(ids)
         /\ IF binds(provider, ids) THEN Goes("write") ELSE Ends
         /\ calm' = (calm /\ troubles' = troubles)
    /\ UNCHANGED <<provider, files, oz, app, calmBoot>> /\ Same

WriteFiles ==
    /\ pc = "write"
    /\ files' = desired
    /\ Goes("restart")
    /\ UNCHANGED <<provider, oz, app, calm, calmBoot>> /\ Same /\ NoTrouble

\* The service is stopped, and started again by Boot.
RestartApp ==
    /\ pc = "restart"
    /\ Ends
    /\ registry' = Nowhere /\ bound' = Unbound
    /\ Stops(Service)
    /\ UNCHANGED <<provider, files, oz, calm, calmBoot, troubles>>

-----------------------------------------------------------------------------
(* The service.                                                            *)

up == bound # Unbound

\* main: the registry is read and, unless RUN_MIGRATIONS_ON_START is false, the migrations
\* run.
Boot ==
    /\ registry' = provider
    /\ bound' = Unbound
    /\ calmBoot' = TRUE
    /\ RunMigrations(Service) \/ SkipMigrations(Service)
    /\ UNCHANGED <<provider, files, oz, run, calm, troubles>>

\* bindRelayersToRegistry, then listen. What it throws ends the process, and the
\* container is started again.
Bind ==
    /\ opened(Service) /\ ~up
    /\ \E ids \in SUBSET Ids :
         /\ ReadRelayers(ids)
         /\ calmBoot' = (calmBoot /\ troubles' = troubles)
         /\ IF binds(registry, ids)
              THEN /\ bound' = [c \in Chains |-> IF c \in chainsIn(registry)
                                   THEN CHOOSE id \in active(ids, c) : TRUE ELSE "none"]
                   /\ UNCHANGED <<registry, migrationVars>>
              ELSE /\ UNCHANGED bound /\ registry' = Nowhere /\ Stops(Service)
    /\ UNCHANGED <<provider, files, oz, run, calm>>

Serve ==
    /\ up /\ InsertExecution
    /\ UNCHANGED opsVars

MigrateNext ==
    /\ \E r \in Runners : Migrate(r)
    /\ UNCHANGED opsVars

\* pnpm run migrate, at any time.
MigrateByHand ==
    /\ Trouble
    /\ \E r \in Runners \ {Service} : RunMigrations(r)
    /\ UNCHANGED <<provider, files, oz, run, app, calm, calmBoot>>

-----------------------------------------------------------------------------
(* The operator and the outside.                                           *)

Edit ==
    /\ Trouble
    /\ provider' \in Configs \ {provider}
    /\ calm' = FALSE
    /\ UNCHANGED <<files, oz, run, app, calmBoot, migrationVars>>

\* prod:init writes the bootstrap files, and changes nothing that is live.
ProdInit ==
    /\ script = "none" /\ files # provider
    /\ files' = provider
    /\ UNCHANGED <<provider, oz, run, app, calm, calmBoot, troubles, migrationVars>>

\* The maintenance workflow: the Redis of the service is emptied, to be imported again.
EmptyRedis ==
    /\ imported /\ script = "none" /\ Trouble
    /\ imported' = FALSE /\ networks' = Nowhere /\ relayers' = [id \in Ids |-> "absent"]
    /\ calm' = FALSE /\ calmBoot' = FALSE
    /\ UNCHANGED <<provider, files, run, app, migrationVars>>

\* Somebody changes a relayer, or the service disables one.
RelayerChanges ==
    /\ imported /\ Trouble
    /\ \E id \in Ids, status \in Status \ {"absent"} :
         /\ networks[chainOf(id)] # "absent"
         /\ relayers[id] # "absent" \/ id \in DOMAIN ForeignOf
         /\ relayers[id] # status
         /\ relayers' = [relayers EXCEPT ![id] = status]
    /\ calm' = FALSE /\ calmBoot' = FALSE
    /\ UNCHANGED <<provider, files, imported, networks, run, app, migrationVars>>

\* A script or a process that migrates is killed.
Killed ==
    /\ Trouble
    /\ \/ /\ script # "none" /\ Ends
          /\ UNCHANGED <<app, migrationVars>>
       \/ \E r \in Runners : /\ at[r] # 0 /\ Stops(r)
                             /\ IF r = Service THEN registry' = Nowhere /\ bound' = Unbound
                                               ELSE UNCHANGED app
                             /\ UNCHANGED run
    /\ UNCHANGED <<provider, files, oz, calm, calmBoot>>

Script ==
    \/ Validate \/ Verify \/ Plan \/ ApplyNext \/ CheckBinding \/ WriteFiles \/ RestartApp

Next ==
    \/ (\E command \in Commands : Start(command)) \/ Script
    \/ Boot \/ Bind \/ Serve \/ MigrateNext \/ MigrateByHand
    \/ Edit \/ ProdInit \/ EmptyRedis \/ RelayerChanges \/ Killed

Spec == Init /\ [][Next]_vars

\* The operator runs prod:apply-config again and again, and a script that runs goes on.
Fairness == WF_vars(Script) /\ SF_vars(Start("prod:apply-config"))

FairSpec == Spec /\ Fairness

-----------------------------------------------------------------------------
(* Properties.                                                             *)

\* The types of the variables.
OperationsTypeOK ==
    /\ {provider, files, networks, desired, registry} \subseteq Config
    /\ relayers \in [Ids -> Status]
    /\ script \in Commands \cup {"none"}
    /\ pc \in {"idle", "validate", "verify", "plan", "apply", "write", "restart"}
    /\ \A a \in plan : a.on \in Ids /\ rank(a) \in 0..4
    /\ bound \in [Chains -> Ids \cup {"none"}]
    /\ {imported, calm, calmBoot} \subseteq BOOLEAN
    /\ MigrationsTypeOK

\* An apply that nothing disturbed and that came to its end has made the live state what
\* provider.json asks for, whatever an earlier run, killed or failed half way, left behind:
\* every network has its RPC list, and its relayer and no other is active.
ApplyReachesDesired ==
    pc \in {"write", "restart"} /\ calm =>
        /\ matches(desired)
        /\ \A c \in chainsIn(desired) : active(Ids, c) = {c}

\* No plan carried out on the state it was made for makes a second relayer active on a
\* chain, and none pauses the relayer of a chain that is asked for.
ApplyNeverDoubles ==
    [][pc = "apply" /\ calm' =>
         \A c \in Chains :
            /\ Cardinality(active(Ids, c)') > Cardinality(active(Ids, c)) =>
                 Cardinality(active(Ids, c)') = 1
            /\ c \in chainsIn(desired) => active(Ids, c) \subseteq active(Ids, c)']_vars

\* The service runs only with a relayer for each chain it knows, on that chain, and, when
\* every relayer could be read, with the only active one.
BindingIsExact ==
    [][~up /\ up' =>
         \A c \in chainsIn(registry) :
            /\ bound'[c] # "none" /\ chainOf(bound'[c]) = c
            /\ calmBoot' => active(Ids, c) = {bound'[c]}]_vars

\* What has to be resolved before an apply can succeed.
resolvable ==
    /\ live(provider) = chainsIn(provider)
    /\ ~refuses(provider, Ids)

\* Nothing but RPC lists differs from provider.json.
patchable == \A c \in chainsIn(provider) : networks[c] # "absent" /\ active(Ids, c) = {c}

\* README.md says of an edited provider.json that prod:up "is idempotent and applies live OZ
\* config before starting/restarting the app". So a prod:up whose bootstrap files are up to
\* date does not give up before that apply where only the RPC list of a network is still the
\* old one, and none of its calls fails.
UpApplies ==
    [][script = "prod:up" /\ pc = "verify" /\ calm /\ patchable /\ troubles' = troubles
         => script' = "prod:up"]_vars

\* What does apply it, prod:apply-config, run again after whatever failed, gets
\* there in the end, once provider.json and the world outside are left alone and leave it
\* nothing that it must not decide.
ApplyConverges == <>[]resolvable => <>[]matches(provider)

=============================================================================
