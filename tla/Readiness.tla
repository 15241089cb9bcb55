------------------------------- MODULE Readiness -------------------------------
(***************************************************************************)
(* GET /readyz and the readiness gauge: the evaluation of a chain          *)
(* (chain/readiness.ts), the cache that shares it (readinessCache.ts), the *)
(* handler that asks for all chains at once (api/routes.ts) and the        *)
(* sampler that asks for one after the other (readinessMetricsSampler.ts). *)
(*                                                                         *)
(* The evaluations of a chain are numbered in the order they begin.  The   *)
(* code between two awaits is one action; a Tick of the clock is the unit  *)
(* the TTLs are counted in.  The evaluator answers every failure of its    *)
(* calls with a reason, so it never rejects; and every chain of the        *)
(* registry has a relayer, or the service would not have started.          *)
(***************************************************************************)
EXTENDS Naturals, Sequences

CONSTANTS
    NChains,          \* the chains of the registry are 1..NChains
    Probes,           \* GET /readyz requests
    MaxSamples,       \* bound on the rounds of the sampler
    MaxChanges,       \* bound on the changes outside
    MaxAttempts,      \* readinessOzRetryMaxAttempts
    SuccessTtl, RateLimitedTtl

ASSUME ReadinessAssumption ==
    /\ NChains \in Nat \ {0} /\ MaxSamples \in Nat /\ MaxChanges \in Nat
    /\ MaxAttempts \in Nat \ {0}
    /\ SuccessTtl \in Nat /\ RateLimitedTtl \in Nat
    /\ SuccessTtl > 0 \/ RateLimitedTtl > 0      \* or there is no cache at all
    /\ "sampler" \notin Probes

Chains == 1..NChains
Askers == Probes \cup {"sampler"}

VARIABLES
    world,          \* the relayer service, and each chain's relayer and node
    cache,          \* the entries of the cache
    inflight,       \* the evaluation a chain's callers join, or 0
    eval,           \* per chain, its evaluations so far
    ask,            \* per asker and chain: the evaluation it waits for, or what it was told
    pc,             \* where the handler of a probe and the sampler are
    sampling,       \* the chain the sampler is at
    gauge,          \* per chain, the labels set: reasons, with value 1 for "none"
    \* history
    newest,         \* per chain, the youngest evaluation somebody was told of
    samples, changes

vars == <<world, cache, inflight, eval, ask, pc, sampling, gauge, newest, samples, changes>>

Reason == { "PROVIDER_NOT_READY", "RELAYER_UNAVAILABLE", "RELAYER_RATE_LIMITED" }
Result == Reason \cup {"none"}        \* "none": ready

Stage == { "ready", "relayer", "network", "balance", "done" }

Service == { "up", "limited", "down" }      \* "limited": every call gets a 429
World == [ service : Service,
           paused : SUBSET Chains,
           funded : SUBSET Chains ]      \* a node answers, with a balance

NoEntry == [ result |-> "none", of |-> 0, left |-> 0 ]
Nothing == [ of |-> 0, told |-> FALSE, result |-> "none" ]

Init ==
    /\ \E service \in Service : world = [ service |-> service, paused |-> {}, funded |-> Chains ]
    /\ cache = [c \in Chains |-> NoEntry]
    /\ inflight = [c \in Chains |-> 0]
    /\ eval = [c \in Chains |-> <<>>]
    /\ ask = [a \in Askers |-> [c \in Chains |-> Nothing]]
    /\ pc = [a \in Askers |-> "new"]
    /\ sampling = 1
    /\ gauge = [c \in Chains |-> {}]
    /\ newest = [c \in Chains |-> 0]
    /\ samples = 0 /\ changes = 0

-----------------------------------------------------------------------------
(* The cache: who asks, and what becomes of an answer.                     *)

\* Faulty: every caller evaluates.
neverJoins(c) == 0

joins(c) == inflight[c]

Begun == [ stage |-> "ready", tries |-> 0, seen |-> {world} ]

\* a asks for the chains of cs, all in one go.
Ask(a, cs) ==
    LET hit(c) == cache[c].left > 0
        new == { c \in cs : ~hit(c) /\ joins(c) = 0 }
        number(c) == IF c \in new THEN Len(eval[c]) + 1 ELSE joins(c)
    IN  /\ ask' = [ask EXCEPT ![a] = [c \in Chains |->
                     IF c \notin cs THEN @[c]
                     ELSE IF hit(c)
                       THEN [of |-> cache[c].of, told |-> TRUE, result |-> cache[c].result]
                     ELSE [of |-> number(c), told |-> FALSE, result |-> "none"]]]
        /\ eval' = [c \in Chains |-> IF c \in new THEN Append(eval[c], Begun) ELSE eval[c]]
        /\ inflight' = [c \in Chains |-> IF c \in new THEN number(c) ELSE inflight[c]]
        /\ newest' = [c \in Chains |->
                        IF c \in cs /\ hit(c) /\ cache[c].of > newest[c]
                          THEN cache[c].of ELSE newest[c]]
        /\ UNCHANGED cache

\* Faulty: bad news is kept like good news.
ttlOfAny(result) == SuccessTtl

ttl(result) ==
    CASE result = "none" -> SuccessTtl
      [] result = "RELAYER_RATE_LIMITED" -> RateLimitedTtl
      [] OTHER -> 0

\* Faulty: only the caller that began the evaluation is told.
tellsOne(c, n) ==
    { CHOOSE a \in Askers : ask[a][c].of = n /\ ~ask[a][c].told }

waiters(c, n) == { a \in Askers : ask[a][c].of = n /\ ~ask[a][c].told }

\* Evaluation n of chain c ends: its result is kept for its TTL, the evaluation is
\* nobody's to join any more, and those who wait are told.
Ends(c, n, result) ==
    /\ eval' = [eval EXCEPT ![c][n].stage = "done"]
    /\ cache' = IF ttl(result) > 0
                  THEN [cache EXCEPT ![c] = [result |-> result, of |-> n, left |-> ttl(result)]]
                  ELSE cache
    /\ inflight' = [inflight EXCEPT ![c] = 0]
    /\ ask' = [a \in Askers |->
                 IF a \in waiters(c, n)
                   THEN [ask[a] EXCEPT ![c] = [of |-> n, told |-> TRUE, result |-> result]]
                   ELSE ask[a]]
    /\ newest' = [newest EXCEPT ![c] = IF n > @ THEN n ELSE @]
    /\ UNCHANGED <<world, pc, sampling, gauge, samples, changes>>

-----------------------------------------------------------------------------
(* evaluateChainReadiness.                                                 *)

Following(stage) ==
    CASE stage = "ready" -> "relayer" [] stage = "relayer" -> "network"
      [] stage = "network" -> "balance"

GoOn(c, n, stage, tries) ==
    /\ eval' = [eval EXCEPT ![c][n].stage = stage, ![c][n].tries = tries]
    /\ UNCHANGED <<world, cache, inflight, ask, pc, sampling, gauge, newest, samples, changes>>

classifyOzReadinessFailure(service) ==
    IF service = "limited" THEN "RELAYER_RATE_LIMITED" ELSE "RELAYER_UNAVAILABLE"

\* Faulty: one retry too many.
retriesOnceMore(tries) == tries < MaxAttempts

retries(tries) == tries + 1 < MaxAttempts

\* A call of the relayer service is answered as the service is now; a 429 is tried again.
RelayerCallAnswered(c, n) ==
    LET e == eval[c][n] IN
    /\ e.stage \in {"ready", "relayer", "network"}
    /\ IF world.service = "limited" /\ retries(e.tries)
         THEN GoOn(c, n, e.stage, e.tries + 1)
       ELSE IF world.service # "up"
         THEN Ends(c, n, classifyOzReadinessFailure(world.service))
       ELSE IF e.stage = "relayer" /\ c \in world.paused
         THEN Ends(c, n, "RELAYER_UNAVAILABLE")
       ELSE GoOn(c, n, Following(e.stage), 0)

\* Faulty: a balance of zero will do.
balanceOrZero(c) == "none"

\* The signer's balance, read over the first RPC that answers.
balanceResult(c) == IF c \in world.funded THEN "none" ELSE "PROVIDER_NOT_READY"

BalanceKnown(c, n) ==
    /\ eval[c][n].stage = "balance"
    /\ Ends(c, n, balanceResult(c))

-----------------------------------------------------------------------------
(* Who asks.                                                               *)

ProbeArrives(p) ==
    /\ pc[p] = "new"
    /\ pc' = [pc EXCEPT ![p] = "waiting"]
    /\ Ask(p, Chains)
    /\ UNCHANGED <<world, sampling, gauge, samples, changes>>

\* Promise.all is through: 200 when every chain is ready, 503 otherwise.
ProbeAnswered(p) ==
    /\ pc[p] = "waiting" /\ \A c \in Chains : ask[p][c].told
    /\ pc' = [pc EXCEPT ![p] = IF \A c \in Chains : ask[p][c].result = "none"
                                 THEN "200" ELSE "503"]
    /\ UNCHANGED <<world, cache, inflight, eval, ask, sampling, gauge, newest,
                   samples, changes>>

\* sampleOnce, unless a round is under way.
SampleStarts ==
    /\ pc["sampler"] = "new" /\ samples < MaxSamples
    /\ samples' = samples + 1
    /\ pc' = [pc EXCEPT !["sampler"] = "waiting"]
    /\ sampling' = 1
    /\ Ask("sampler", {1})
    /\ UNCHANGED <<world, gauge, changes>>

\* setReadinessForChain: the label of the result replaces the others.
SampleTaken ==
    LET c == sampling IN
    /\ pc["sampler"] = "waiting" /\ ask["sampler"][c].told
    /\ gauge' = [gauge EXCEPT ![c] = {ask["sampler"][c].result}]
    /\ IF c < NChains
         THEN /\ sampling' = c + 1
              /\ Ask("sampler", {c + 1})
              /\ UNCHANGED pc
         ELSE /\ pc' = [pc EXCEPT !["sampler"] = "new"]
              /\ UNCHANGED <<sampling, cache, inflight, eval, ask, newest>>
    /\ UNCHANGED <<world, samples, changes>>

-----------------------------------------------------------------------------
(* The outside.                                                            *)

toggle(cs, c) == IF c \in cs THEN cs \ {c} ELSE cs \cup {c}

Changes ==
    /\ changes < MaxChanges /\ changes' = changes + 1
    /\ \/ \E service \in Service : world' = [world EXCEPT !.service = service]
       \/ \E c \in Chains : \/ world' = [world EXCEPT !.paused = toggle(@, c)]
                           \/ world' = [world EXCEPT !.funded = toggle(@, c)]
    /\ world' # world
    /\ eval' = [c \in Chains |-> [n \in DOMAIN eval[c] |->
                  IF eval[c][n].stage = "done" THEN eval[c][n]
                  ELSE [eval[c][n] EXCEPT !.seen = @ \cup {world'}]]]
    /\ UNCHANGED <<cache, inflight, ask, pc, sampling, gauge, newest, samples>>

Tick ==
    /\ \E c \in Chains : cache[c].left > 0
    /\ cache' = [c \in Chains |->
                   [cache[c] EXCEPT !.left = IF @ > 0 THEN @ - 1 ELSE 0]]
    /\ UNCHANGED <<world, inflight, eval, ask, pc, sampling, gauge, newest, samples, changes>>

Evaluate ==
    \E c \in Chains : \E n \in DOMAIN eval[c] :
        RelayerCallAnswered(c, n) \/ BalanceKnown(c, n)

Next ==
    \/ Evaluate \/ SampleStarts \/ SampleTaken \/ Changes \/ Tick
    \/ \E p \in Probes : ProbeArrives(p) \/ ProbeAnswered(p)

Spec == Init /\ [][Next]_vars

\* The calls of an evaluation end (each has a timeout), and the process runs.
Fairness ==
    /\ \A c \in Chains : WF_vars(\E n \in DOMAIN eval[c] :
                                    RelayerCallAnswered(c, n) \/ BalanceKnown(c, n))
    /\ WF_vars(SampleTaken) /\ \A p \in Probes : WF_vars(ProbeAnswered(p))

FairSpec == Spec /\ Fairness

-----------------------------------------------------------------------------
(* Properties.                                                             *)

\* The types of the variables.
ReadinessTypeOK ==
    /\ world \in World
    /\ \A c \in Chains :
         /\ cache[c] \in [ result : Result, of : 0..Len(eval[c]), left : 0..(SuccessTtl + RateLimitedTtl) ]
         /\ inflight[c] \in 0..Len(eval[c])
         /\ \A n \in DOMAIN eval[c] :
              /\ eval[c][n].stage \in Stage /\ eval[c][n].tries \in 0..(MaxAttempts - 1)
              /\ eval[c][n].seen \subseteq World
         /\ \A a \in Askers :
              ask[a][c] \in [ of : 0..Len(eval[c]), told : BOOLEAN, result : Result ]
         /\ gauge[c] = {} \/ \E result \in Result : gauge[c] = {result}
    /\ pc \in [Askers -> {"new", "waiting", "200", "503"}]
    /\ sampling \in Chains

running(c) == { n \in DOMAIN eval[c] : eval[c][n].stage # "done" }

\* "Concurrent probes for the same chainId while the cache is cold or expired share one
\* inner() call", whoever joins it and whenever it ends.
SingleFlight ==
    \A c \in Chains : running(c) = IF inflight[c] = 0 THEN {} ELSE {inflight[c]}

holds(w, reason, c) ==
    CASE reason = "RELAYER_RATE_LIMITED" -> w.service = "limited"
      [] reason = "RELAYER_UNAVAILABLE" -> w.service = "down" \/ c \in w.paused
      [] reason = "PROVIDER_NOT_READY" -> c \notin w.funded

grounded(c, n, result) ==
    IF result = "none"
      THEN \A reason \in Reason : \E w \in eval[c][n].seen : ~holds(w, reason, c)
      ELSE \E w \in eval[c][n].seen : holds(w, result, c)

\* What anybody is told of a chain was so while the evaluation it comes from ran: a reason
\* was there, and "ready" means that each of the reasons was absent at some time of it,
\* though not all at once: the calls of an evaluation are apart, and the world changes.
AnswersAreGrounded ==
    \A a \in Askers, c \in Chains :
        ask[a][c].told => grounded(c, ask[a][c].of, ask[a][c].result)

\* Nobody is told an older evaluation of a chain than somebody was told before, and bad
\* news other than a rate limit is told to those who waited for it and to nobody later:
\* the next who asks has the chain looked at again.
NewsOnlyGetsNewer ==
    [][\A a \in Askers, c \in Chains :
         ask'[a][c].told /\ ask'[a][c] # ask[a][c] =>
            /\ ask'[a][c].of >= newest[c]
            /\ ask'[a][c].result \in {"PROVIDER_NOT_READY", "RELAYER_UNAVAILABLE"} =>
                 ask'[a][c].of \in running(c)]_vars

\* Every probe is answered and every sample ends, whatever the service says: a relayer
\* that limits every call is not called for ever, and everybody who joined is told.
EveryoneIsAnswered == \A a \in Askers : pc[a] = "waiting" ~> pc[a] # "waiting"

=============================================================================
