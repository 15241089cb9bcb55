---------------------------- MODULE ReadinessProofs ----------------------------
(***************************************************************************)
(* Proofs about Readiness, for any number of chains, probes, rounds of the *)
(* sampler and changes outside, and any TTLs: an evaluation is shared by   *)
(* all who ask while it runs, what they are told was so, and news only     *)
(* gets newer.                                                             *)
(***************************************************************************)
EXTENDS Readiness, SequenceTheorems, TLAPS

Evaluation == [ stage : Stage, tries : 0..(MaxAttempts - 1), seen : SUBSET World ]
Entry == [ result : Result, of : Nat, left : Nat ]
Answer == [ of : Nat, told : BOOLEAN, result : Result ]

DataTypes ==
    /\ world \in World
    /\ cache \in [Chains -> Entry]
    /\ inflight \in [Chains -> Nat] /\ newest \in [Chains -> Nat]
    /\ eval \in [Chains -> Seq(Evaluation)]
    /\ ask \in [Askers -> [Chains -> Answer]]

ControlTypes ==
    /\ pc \in [Askers -> {"new", "waiting", "200", "503"}]
    /\ sampling \in Chains
    /\ gauge \in [Chains -> SUBSET Result]
    /\ \A c \in Chains : gauge[c] = {} \/ \E result \in Result : gauge[c] = {result}

\* grounded, of the worlds an evaluation has seen.
groundedIn(seen, c, result) ==
    IF result = "none"
      THEN \A reason \in Reason : \E w \in seen : ~holds(w, reason, c)
      ELSE \E w \in seen : holds(w, result, c)

\* What the calls of an evaluation that are over have shown.
passed(stage, seen, c) ==
    /\ stage \in {"relayer", "network", "balance"} => \E w \in seen : w.service = "up"
    /\ stage \in {"network", "balance"} => \E w \in seen : w.service = "up" /\ c \notin w.paused

\* The evaluation that callers join is the last one and the only one that runs, and it has
\* seen the world of now.
EvalOK(c) ==
    \A n \in 1..Len(eval[c]) :
        /\ eval[c][n].stage # "done" <=> n = inflight[c]
        /\ n = inflight[c] =>
             world \in eval[c][n].seen /\ passed(eval[c][n].stage, eval[c][n].seen, c)

\* While an entry of the cache is fresh nothing is evaluated, so the entry is of the last
\* evaluation, and nobody has been told of a later one.
FlightOK(c) ==
    /\ inflight[c] \in {0, Len(eval[c])}
    /\ newest[c] <= Len(eval[c]) /\ cache[c].of <= Len(eval[c])
    /\ cache[c].left > 0 =>
         /\ inflight[c] = 0 /\ cache[c].of = Len(eval[c]) /\ cache[c].of > 0
         /\ cache[c].left <= SuccessTtl + RateLimitedTtl
         /\ cache[c].result \in {"none", "RELAYER_RATE_LIMITED"}
         /\ groundedIn(eval[c][cache[c].of].seen, c, cache[c].result)

ToldOK(a, c) ==
    /\ ask[a][c].of <= Len(eval[c])
    /\ ask[a][c].told =>
         /\ ask[a][c].of > 0
         /\ groundedIn(eval[c][ask[a][c].of].seen, c, ask[a][c].result)

ChainInv == \A c \in Chains : EvalOK(c) /\ FlightOK(c)
ToldInv == \A a \in Askers, c \in Chains : ToldOK(a, c)

ReadinessInv == DataTypes /\ ControlTypes /\ ChainInv /\ ToldInv

-----------------------------------------------------------------------------
(* What was so stays so.                                                   *)

\* An evaluation that has seen more worlds still has seen those that ground an answer.
LEMMA SeenMore ==
    ASSUME NEW seen, NEW more, seen \subseteq more, NEW c, NEW result,
           groundedIn(seen, c, result)
    PROVE  groundedIn(more, c, result)
  BY DEF groundedIn

\* The worlds of the evaluations so far are kept, and may become more.
Recorded(c) ==
    /\ eval'[c] \in Seq(Evaluation) /\ Len(eval[c]) <= Len(eval'[c])
    /\ \A n \in 1..Len(eval[c]) :
         /\ n \in 1..Len(eval'[c])
         /\ eval[c][n].seen \subseteq eval'[c][n].seen

\* An answer that was given stays grounded while the evaluations are recorded.
LEMMA AnswerStays ==
    ASSUME DataTypes, NEW a \in Askers, NEW c \in Chains, ToldOK(a, c), Recorded(c),
           ask'[a][c] = ask[a][c]
    PROVE  ToldOK(a, c)'
<1>1. eval[c] \in Seq(Evaluation) /\ Len(eval[c]) \in Nat /\ ask[a][c] \in Answer
  BY LenProperties DEF DataTypes
<1>2. Len(eval'[c]) \in Nat /\ Len(eval[c]) <= Len(eval'[c])
  BY LenProperties DEF Recorded
<1>3. ask[a][c].of \in Nat /\ ask[a][c].of <= Len(eval[c])
  BY <1>1 DEF ToldOK, Answer
<1>4. ask'[a][c].of <= Len(eval'[c])
  BY <1>1, <1>2, <1>3
<1>5. ASSUME ask'[a][c].told
      PROVE  /\ ask'[a][c].of > 0
             /\ groundedIn(eval'[c][ask'[a][c].of].seen, c, ask'[a][c].result)
  <2> DEFINE n == ask[a][c].of
  <2>1. n > 0 /\ groundedIn(eval[c][n].seen, c, ask[a][c].result)
    BY <1>5 DEF ToldOK
  <2>2. n \in 1..Len(eval[c])
    BY <1>1, <1>3, <2>1
  <2>3. eval[c][n].seen \subseteq eval'[c][n].seen
    BY <2>2 DEF Recorded
  <2> HIDE DEF n
  <2>4. groundedIn(eval'[c][n].seen, c, ask[a][c].result)
    BY <2>1, <2>3, SeenMore
  <2> QED
    BY <2>1, <2>4 DEF n
<1> QED
  BY <1>4, <1>5 DEF ToldOK

\* An entry of the cache that stays, or becomes older, stays grounded.
LEMMA EntryStays ==
    ASSUME DataTypes, NEW c \in Chains, FlightOK(c), Recorded(c),
           Len(eval'[c]) = Len(eval[c]), inflight'[c] = inflight[c],
           newest'[c] \in Nat, newest'[c] <= Len(eval[c]),
           cache'[c] \in Entry, cache'[c].of = cache[c].of, cache'[c].result = cache[c].result,
           cache'[c].left <= cache[c].left
    PROVE  FlightOK(c)'
<1>1. eval[c] \in Seq(Evaluation) /\ Len(eval[c]) \in Nat /\ cache[c] \in Entry
  BY LenProperties DEF DataTypes
<1>2. cache[c].of \in Nat /\ cache[c].left \in Nat /\ cache'[c].left \in Nat
  BY <1>1 DEF Entry
<1>3. ASSUME cache'[c].left > 0
      PROVE  /\ cache[c].left > 0
             /\ cache'[c].left <= SuccessTtl + RateLimitedTtl
             /\ groundedIn(eval'[c][cache'[c].of].seen, c, cache'[c].result)
  <2>1. cache[c].left > 0
    BY <1>2, <1>3
  <2>2. /\ cache[c].of = Len(eval[c]) /\ cache[c].of > 0
        /\ cache[c].left <= SuccessTtl + RateLimitedTtl
        /\ groundedIn(eval[c][cache[c].of].seen, c, cache[c].result)
    BY <2>1 DEF FlightOK
  <2>3. cache[c].of \in 1..Len(eval[c])
    BY <1>1, <1>2, <2>2
  <2>4. eval[c][cache[c].of].seen \subseteq eval'[c][cache[c].of].seen
    BY <2>3 DEF Recorded
  <2>5. groundedIn(eval'[c][cache[c].of].seen, c, cache[c].result)
    BY <2>2, <2>4, SeenMore
  <2>6. cache'[c].left <= SuccessTtl + RateLimitedTtl
    BY <1>2, <2>2, ReadinessAssumption
  <2> QED
    BY <2>1, <2>5, <2>6
<1>4. /\ inflight'[c] \in {0, Len(eval'[c])}
      /\ newest'[c] <= Len(eval'[c]) /\ cache'[c].of <= Len(eval'[c])
  BY DEF FlightOK
<1> QED
  BY <1>3, <1>4 DEF FlightOK

-----------------------------------------------------------------------------
(* Asking.                                                                 *)

\* A chain that is asked for has a fresh entry, or an evaluation to join, or gets a new one.
AskedOne(a, c) ==
    \/ /\ cache[c].left > 0
       /\ ask'[a][c] = [of |-> cache[c].of, told |-> TRUE, result |-> cache[c].result]
       /\ eval'[c] = eval[c] /\ inflight'[c] = inflight[c]
       /\ newest'[c] = IF cache[c].of > newest[c] THEN cache[c].of ELSE newest[c]
    \/ /\ ~(cache[c].left > 0) /\ inflight[c] # 0
       /\ ask'[a][c] = [of |-> inflight[c], told |-> FALSE, result |-> "none"]
       /\ eval'[c] = eval[c] /\ inflight'[c] = inflight[c] /\ newest'[c] = newest[c]
    \/ /\ ~(cache[c].left > 0) /\ inflight[c] = 0
       /\ ask'[a][c] = [of |-> Len(eval[c]) + 1, told |-> FALSE, result |-> "none"]
       /\ eval'[c] = Append(eval[c], Begun) /\ inflight'[c] = Len(eval[c]) + 1
       /\ newest'[c] = newest[c]

\* What Ask does, chain by chain.
LEMMA AskParts ==
    ASSUME DataTypes, NEW a \in Askers, NEW cs \in SUBSET Chains, Ask(a, cs)
    PROVE  /\ cache' = cache
           /\ \A b \in Askers : b # a => ask'[b] = ask[b]
           /\ DOMAIN ask' = Askers /\ DOMAIN ask'[a] = Chains
           /\ DOMAIN eval' = Chains /\ DOMAIN inflight' = Chains /\ DOMAIN newest' = Chains
           /\ \A c \in cs : AskedOne(a, c)
           /\ \A c \in Chains \ cs :
                /\ ask'[a][c] = ask[a][c] /\ eval'[c] = eval[c]
                /\ inflight'[c] = inflight[c] /\ newest'[c] = newest[c]
<1> DEFINE hit(c) == cache[c].left > 0
           new == { c \in cs : ~hit(c) /\ joins(c) = 0 }
           number(c) == IF c \in new THEN Len(eval[c]) + 1 ELSE joins(c)
           asked == [c \in Chains |->
                     IF c \notin cs THEN ask[a][c]
                     ELSE IF hit(c)
                       THEN [of |-> cache[c].of, told |-> TRUE, result |-> cache[c].result]
                     ELSE [of |-> number(c), told |-> FALSE, result |-> "none"]]
<1>1. /\ ask' = [ask EXCEPT ![a] = asked]
      /\ eval' = [c \in Chains |-> IF c \in new THEN Append(eval[c], Begun) ELSE eval[c]]
      /\ inflight' = [c \in Chains |-> IF c \in new THEN number(c) ELSE inflight[c]]
      /\ newest' = [c \in Chains |->
                      IF c \in cs /\ hit(c) /\ cache[c].of > newest[c]
                        THEN cache[c].of ELSE newest[c]]
      /\ cache' = cache
  BY DEF Ask
<1>2. /\ ask'[a] = asked /\ DOMAIN ask' = Askers
      /\ \A b \in Askers : b # a => ask'[b] = ask[b]
  <2> HIDE DEF asked
  <2> QED
    BY <1>1 DEF DataTypes
<1>3. \A c \in cs : c \in Chains
  OBVIOUS
<1>4. ASSUME NEW c \in cs PROVE AskedOne(a, c)
  <2>1. ask'[a][c] = IF hit(c)
                       THEN [of |-> cache[c].of, told |-> TRUE, result |-> cache[c].result]
                       ELSE [of |-> number(c), told |-> FALSE, result |-> "none"]
    <3> HIDE DEF hit, number
    <3> QED
      BY <1>2, <1>3 DEF asked
  <2>2. /\ c \in new <=> ~hit(c) /\ inflight[c] = 0
        /\ number(c) = IF c \in new THEN Len(eval[c]) + 1 ELSE inflight[c]
    BY DEF joins
  <2>3. /\ eval'[c] = IF c \in new THEN Append(eval[c], Begun) ELSE eval[c]
        /\ inflight'[c] = IF c \in new THEN number(c) ELSE inflight[c]
        /\ newest'[c] = IF hit(c) /\ cache[c].of > newest[c] THEN cache[c].of ELSE newest[c]
    <3> HIDE DEF hit, number, new, asked
    <3> QED
      BY <1>1, <1>3
  <2> HIDE DEF new, number
  <2> QED
    BY <2>1, <2>2, <2>3 DEF AskedOne
<1>5. ASSUME NEW c \in Chains \ cs
      PROVE  /\ ask'[a][c] = ask[a][c] /\ eval'[c] = eval[c]
             /\ inflight'[c] = inflight[c] /\ newest'[c] = newest[c]
  <2>1. c \notin new
    OBVIOUS
  <2> HIDE DEF hit, number, new
  <2> QED
    BY <1>1, <1>2, <2>1 DEF asked
<1>6. /\ DOMAIN ask'[a] = Chains
      /\ DOMAIN eval' = Chains /\ DOMAIN inflight' = Chains /\ DOMAIN newest' = Chains
  <2> HIDE DEF hit, number, new
  <2> QED
    BY <1>1, <1>2 DEF asked
<1> HIDE DEF asked
<1> QED
  BY <1>1, <1>2, <1>4, <1>5, <1>6

\* The values of a chain.
LEMMA ChainValues ==
    ASSUME DataTypes, NEW c \in Chains
    PROVE  /\ eval[c] \in Seq(Evaluation) /\ Len(eval[c]) \in Nat
           /\ cache[c] \in Entry /\ inflight[c] \in Nat /\ newest[c] \in Nat
           /\ cache[c].of \in Nat /\ cache[c].left \in Nat /\ cache[c].result \in Result
  BY LenProperties DEF DataTypes, Entry

\* A chain that nothing happens to.
LEMMA SameChain ==
    ASSUME DataTypes, NEW c \in Chains, EvalOK(c), FlightOK(c), UNCHANGED world,
           eval'[c] = eval[c], inflight'[c] = inflight[c], newest'[c] = newest[c],
           cache'[c] = cache[c]
    PROVE  Recorded(c) /\ EvalOK(c)' /\ FlightOK(c)'
<1>1. eval[c] \in Seq(Evaluation) /\ Len(eval[c]) \in Nat
  BY ChainValues
<1>2. Recorded(c)
  BY <1>1 DEF Recorded
<1>3. EvalOK(c)'
  BY DEF EvalOK
<1>4. FlightOK(c)'
  BY DEF FlightOK
<1> QED
  BY <1>2, <1>3, <1>4

\* A new evaluation has seen the world of now, and nothing else is running.
LEMMA BegunKeeps ==
    ASSUME ReadinessAssumption, DataTypes, NEW c \in Chains, EvalOK(c), FlightOK(c),
           UNCHANGED world, cache'[c] = cache[c], ~(cache[c].left > 0), inflight[c] = 0,
           eval'[c] = Append(eval[c], Begun), inflight'[c] = Len(eval[c]) + 1,
           newest'[c] = newest[c]
    PROVE  Recorded(c) /\ EvalOK(c)' /\ FlightOK(c)'
<1>1. /\ eval[c] \in Seq(Evaluation) /\ Len(eval[c]) \in Nat /\ newest[c] \in Nat
      /\ cache[c].of \in Nat
  BY ChainValues
<1>2. Begun \in Evaluation
  BY DEF Begun, Evaluation, Stage, DataTypes, ReadinessAssumption
<1>3. /\ eval'[c] \in Seq(Evaluation) /\ Len(eval'[c]) = Len(eval[c]) + 1
      /\ \A n \in 1..Len(eval[c]) : eval'[c][n] = eval[c][n]
      /\ eval'[c][Len(eval[c]) + 1] = Begun
  BY <1>1, <1>2, AppendProperties
<1>4. Begun.stage = "ready" /\ Begun.seen = {world}
  BY DEF Begun
<1>5. Recorded(c)
  BY <1>1, <1>3 DEF Recorded
<1>6. EvalOK(c)'
  <2> SUFFICES ASSUME NEW n \in 1..Len(eval'[c])
               PROVE  /\ eval'[c][n].stage # "done" <=> n = inflight'[c]
                      /\ n = inflight'[c] =>
                           /\ world' \in eval'[c][n].seen
                           /\ passed(eval'[c][n].stage, eval'[c][n].seen, c)
    BY DEF EvalOK
  <2>1. CASE n = Len(eval[c]) + 1
    BY <1>3, <1>4, <2>1 DEF passed
  <2>2. CASE n # Len(eval[c]) + 1
    <3>1. n \in 1..Len(eval[c]) /\ n # 0
      BY <1>1, <1>3, <2>2
    <3>2. eval[c][n].stage = "done"
      BY <3>1 DEF EvalOK
    <3> QED
      BY <1>3, <2>2, <3>1, <3>2
  <2> QED
    BY <2>1, <2>2
<1>7. FlightOK(c)'
  <2>1. newest[c] <= Len(eval[c]) /\ cache[c].of <= Len(eval[c])
    BY DEF FlightOK
  <2>2. newest[c] <= Len(eval'[c]) /\ cache[c].of <= Len(eval'[c])
    BY <1>1, <1>3, <2>1
  <2> QED
    BY <1>3, <2>2 DEF FlightOK
<1> QED
  BY <1>5, <1>6, <1>7

\* A chain that is asked for. What the asker is told at once is the last evaluation there
\* is, and no bad news but a rate limit.
LEMMA AskedKeeps ==
    ASSUME ReadinessAssumption, DataTypes, NEW a \in Askers, NEW c \in Chains, EvalOK(c),
           FlightOK(c), UNCHANGED world, cache' = cache, AskedOne(a, c)
    PROVE  /\ Recorded(c) /\ EvalOK(c)' /\ FlightOK(c)' /\ ToldOK(a, c)'
           /\ ask'[a][c] \in Answer /\ inflight'[c] \in Nat /\ newest'[c] \in Nat
           /\ ask'[a][c].told =>
                /\ ask'[a][c].of >= newest[c]
                /\ ask'[a][c].result \in {"none", "RELAYER_RATE_LIMITED"}
<1>1. /\ eval[c] \in Seq(Evaluation) /\ Len(eval[c]) \in Nat
      /\ cache[c] \in Entry /\ inflight[c] \in Nat /\ newest[c] \in Nat
      /\ cache[c].of \in Nat /\ cache[c].left \in Nat /\ cache[c].result \in Result
  BY ChainValues
<1>2. "none" \in Result
  BY DEF Result
<1>3. ASSUME cache[c].left > 0,
             ask'[a][c] = [of |-> cache[c].of, told |-> TRUE, result |-> cache[c].result],
             eval'[c] = eval[c], inflight'[c] = inflight[c],
             newest'[c] = IF cache[c].of > newest[c] THEN cache[c].of ELSE newest[c]
      PROVE  /\ Recorded(c) /\ EvalOK(c)' /\ FlightOK(c)' /\ ToldOK(a, c)'
             /\ ask'[a][c] \in Answer /\ inflight'[c] \in Nat /\ newest'[c] \in Nat
             /\ ask'[a][c].of >= newest[c]
             /\ ask'[a][c].result \in {"none", "RELAYER_RATE_LIMITED"}
  <2>1. /\ cache[c].of = Len(eval[c]) /\ cache[c].of > 0 /\ newest[c] <= Len(eval[c])
        /\ cache[c].result \in {"none", "RELAYER_RATE_LIMITED"}
        /\ groundedIn(eval[c][cache[c].of].seen, c, cache[c].result)
    BY <1>3 DEF FlightOK
  <2>2. newest'[c] \in Nat /\ newest'[c] <= Len(eval[c])
    BY <1>1, <1>3, <2>1
  <2>3. Recorded(c)
    BY <1>1, <1>3 DEF Recorded
  <2>4. EvalOK(c)'
    BY <1>3 DEF EvalOK
  <2>5. FlightOK(c)'
    BY <1>1, <1>3, <2>2, <2>3, EntryStays
  <2>6. /\ ask'[a][c].of = cache[c].of /\ ask'[a][c].result = cache[c].result
        /\ ask'[a][c] \in Answer
    BY <1>1, <1>3 DEF Answer
  <2>7. ToldOK(a, c)'
    <3>1. cache[c].of <= Len(eval'[c])
      BY <1>1, <1>3, <2>1
    <3> QED
      BY <1>3, <2>1, <2>6, <3>1 DEF ToldOK
  <2>8. ask'[a][c].of >= newest[c]
    BY <1>1, <2>1, <2>6
  <2> QED
    BY <1>1, <1>3, <2>1, <2>2, <2>3, <2>4, <2>5, <2>6, <2>7, <2>8
<1>4. ASSUME ~(cache[c].left > 0), inflight[c] # 0,
             ask'[a][c] = [of |-> inflight[c], told |-> FALSE, result |-> "none"],
             eval'[c] = eval[c], inflight'[c] = inflight[c], newest'[c] = newest[c]
      PROVE  /\ Recorded(c) /\ EvalOK(c)' /\ FlightOK(c)' /\ ToldOK(a, c)'
             /\ ask'[a][c] \in Answer /\ inflight'[c] \in Nat /\ newest'[c] \in Nat
             /\ ~ask'[a][c].told
  <2>1. Recorded(c) /\ EvalOK(c)' /\ FlightOK(c)'
    BY <1>4, SameChain
  <2>2. ask'[a][c].of = inflight[c] /\ ~ask'[a][c].told /\ ask'[a][c] \in Answer
    BY <1>1, <1>2, <1>4 DEF Answer
  <2>3. inflight[c] = Len(eval[c])
    BY <1>4 DEF FlightOK
  <2>4. ToldOK(a, c)'
    BY <1>1, <1>4, <2>2, <2>3 DEF ToldOK
  <2> QED
    BY <1>1, <1>4, <2>1, <2>2, <2>4
<1>5. ASSUME ~(cache[c].left > 0), inflight[c] = 0,
             ask'[a][c] = [of |-> Len(eval[c]) + 1, told |-> FALSE, result |-> "none"],
             eval'[c] = Append(eval[c], Begun), inflight'[c] = Len(eval[c]) + 1,
             newest'[c] = newest[c]
      PROVE  /\ Recorded(c) /\ EvalOK(c)' /\ FlightOK(c)' /\ ToldOK(a, c)'
             /\ ask'[a][c] \in Answer /\ inflight'[c] \in Nat /\ newest'[c] \in Nat
             /\ ~ask'[a][c].told
  <2>1. Recorded(c) /\ EvalOK(c)' /\ FlightOK(c)'
    BY <1>5, BegunKeeps
  <2>2. ask'[a][c].of = Len(eval[c]) + 1 /\ ~ask'[a][c].told /\ ask'[a][c] \in Answer
    BY <1>1, <1>2, <1>5 DEF Answer
  <2>3. Len(eval'[c]) = Len(eval[c]) + 1
    <3>1. Begun \in Evaluation
      BY DEF Begun, Evaluation, Stage, DataTypes, ReadinessAssumption
    <3> QED
      BY <1>1, <1>5, <3>1, AppendProperties
  <2>4. ToldOK(a, c)'
    BY <1>1, <2>2, <2>3 DEF ToldOK
  <2> QED
    BY <1>1, <1>5, <2>1, <2>2, <2>4
<1> QED
  BY <1>3, <1>4, <1>5 DEF AskedOne

\* What a step may tell: nothing older than what was told before, and bad news other than
\* a rate limit only from an evaluation that was running.
NewsOf(a, c) ==
    ask'[a][c].told /\ ask'[a][c] # ask[a][c] =>
       /\ ask'[a][c].of >= newest[c]
       /\ ask'[a][c].result \in {"PROVIDER_NOT_READY", "RELAYER_UNAVAILABLE"} =>
            ask'[a][c].of \in running(c)

News == \A a \in Askers, c \in Chains : NewsOf(a, c)

\* Asking for any chains keeps the invariant.
LEMMA AskKeeps ==
    ASSUME ReadinessAssumption, DataTypes, ChainInv, ToldInv, NEW a \in Askers,
           NEW cs \in SUBSET Chains, Ask(a, cs), UNCHANGED world
    PROVE  DataTypes' /\ ChainInv' /\ ToldInv' /\ News
<1>1. /\ cache' = cache
      /\ \A b \in Askers : b # a => ask'[b] = ask[b]
      /\ DOMAIN ask' = Askers /\ DOMAIN ask'[a] = Chains
      /\ DOMAIN eval' = Chains /\ DOMAIN inflight' = Chains /\ DOMAIN newest' = Chains
      /\ \A c \in cs : AskedOne(a, c)
      /\ \A c \in Chains \ cs :
           /\ ask'[a][c] = ask[a][c] /\ eval'[c] = eval[c]
           /\ inflight'[c] = inflight[c] /\ newest'[c] = newest[c]
  BY AskParts
<1>2. ASSUME NEW c \in Chains
      PROVE  /\ Recorded(c) /\ EvalOK(c)' /\ FlightOK(c)' /\ ToldOK(a, c)' /\ NewsOf(a, c)
             /\ ask'[a][c] \in Answer /\ inflight'[c] \in Nat /\ newest'[c] \in Nat
  <2>1. EvalOK(c) /\ FlightOK(c) /\ ToldOK(a, c)
    BY DEF ChainInv, ToldInv
  <2>2. CASE c \in cs
    <3>1. /\ Recorded(c) /\ EvalOK(c)' /\ FlightOK(c)' /\ ToldOK(a, c)'
          /\ ask'[a][c] \in Answer /\ inflight'[c] \in Nat /\ newest'[c] \in Nat
          /\ ask'[a][c].told =>
               /\ ask'[a][c].of >= newest[c]
               /\ ask'[a][c].result \in {"none", "RELAYER_RATE_LIMITED"}
      BY <1>1, <2>1, <2>2, AskedKeeps
    <3>2. NewsOf(a, c)
      BY <3>1 DEF NewsOf
    <3> QED
      BY <3>1, <3>2
  <2>3. CASE c \notin cs
    <3>1. /\ ask'[a][c] = ask[a][c] /\ eval'[c] = eval[c]
          /\ inflight'[c] = inflight[c] /\ newest'[c] = newest[c] /\ cache'[c] = cache[c]
      BY <1>1, <2>3
    <3>2. Recorded(c) /\ EvalOK(c)' /\ FlightOK(c)'
      BY <2>1, <3>1, SameChain
    <3>3. ToldOK(a, c)'
      BY <2>1, <3>1, <3>2, AnswerStays
    <3>4. ask[a][c] \in Answer /\ inflight[c] \in Nat /\ newest[c] \in Nat
      BY DEF DataTypes
    <3> QED
      BY <3>1, <3>2, <3>3, <3>4 DEF NewsOf
  <2> QED
    BY <2>2, <2>3
<1>3. ASSUME NEW b \in Askers, NEW c \in Chains PROVE ToldOK(b, c)' /\ NewsOf(b, c)
  <2>1. CASE b = a
    BY <1>2, <2>1
  <2>2. CASE b # a
    <3>1. ask'[b][c] = ask[b][c] /\ ToldOK(b, c) /\ Recorded(c)
      BY <1>1, <1>2, <2>2 DEF ToldInv
    <3> QED
      BY <3>1, AnswerStays DEF NewsOf
  <2> QED
    BY <2>1, <2>2
<1>4. ask' \in [Askers -> [Chains -> Answer]]
  <2>1. ask'[a] \in [Chains -> Answer]
    <3>1. \E f : f = [c \in Chains |-> f[c]] /\ ask'[a] = f
      BY DEF Ask, DataTypes
    <3> QED
      BY <1>2, <3>1
  <2>2. ask' = [ask EXCEPT ![a] = ask'[a]]
    BY DEF Ask, DataTypes
  <2> QED
    BY <2>1, <2>2 DEF DataTypes
<1>5. /\ eval' = [c \in Chains |-> eval'[c]] /\ inflight' = [c \in Chains |-> inflight'[c]]
      /\ newest' = [c \in Chains |-> newest'[c]]
  BY DEF Ask
<1>6. /\ eval' \in [Chains -> Seq(Evaluation)] /\ inflight' \in [Chains -> Nat]
      /\ newest' \in [Chains -> Nat]
  BY <1>2, <1>5 DEF Recorded
<1>7. DataTypes'
  BY <1>1, <1>4, <1>6 DEF DataTypes
<1> QED
  BY <1>2, <1>3, <1>7 DEF ChainInv, ToldInv, News

-----------------------------------------------------------------------------
(* An evaluation goes on, or ends.                                         *)

written(c, n, x) == [eval EXCEPT ![c] = [eval[c] EXCEPT ![n] = x]]

\* One evaluation of a chain is written, and sees what it saw.
LEMMA EvaluationWritten ==
    ASSUME DataTypes, NEW c \in Chains, NEW n \in 1..Len(eval[c]), NEW x \in Evaluation,
           x.seen = eval[c][n].seen, eval' = written(c, n, x)
    PROVE  /\ eval' \in [Chains -> Seq(Evaluation)] /\ Len(eval'[c]) = Len(eval[c])
           /\ eval'[c][n] = x
           /\ \A m \in 1..Len(eval[c]) : m # n => eval'[c][m] = eval[c][m]
           /\ \A d \in Chains : d # c => eval'[d] = eval[d]
           /\ Recorded(c)
<1> DEFINE q == [eval[c] EXCEPT ![n] = x]
<1>1. eval[c] \in Seq(Evaluation) /\ Len(eval[c]) \in Nat
  BY ChainValues
<1>2. /\ q \in Seq(Evaluation) /\ Len(q) = Len(eval[c])
      /\ \A m \in 1..Len(eval[c]) : q[m] = IF m = n THEN x ELSE eval[c][m]
  BY <1>1, ExceptSeq
<1> HIDE DEF q
<1>3. eval'[c] = q /\ \A d \in Chains : d # c => eval'[d] = eval[d]
  BY DEF q, DataTypes, written
<1>4. eval' \in [Chains -> Seq(Evaluation)]
  BY <1>2 DEF q, DataTypes, written
<1>5. \A m \in 1..Len(eval[c]) : eval[c][m].seen \subseteq eval'[c][m].seen
  BY <1>2, <1>3
<1>6. Recorded(c)
  BY <1>1, <1>2, <1>3, <1>5 DEF Recorded
<1> QED
  BY <1>2, <1>3, <1>4, <1>6

\* The evaluation that runs is the last one, and everybody joins it.
LEMMA RunningIsLast ==
    ASSUME DataTypes, NEW c \in Chains, EvalOK(c), FlightOK(c), NEW n \in DOMAIN eval[c],
           eval[c][n].stage # "done"
    PROVE  /\ n \in 1..Len(eval[c]) /\ n = Len(eval[c]) /\ n = inflight[c] /\ n > 0
           /\ n \in running(c) /\ n >= newest[c]
           /\ eval[c][n] \in Evaluation
           /\ world \in eval[c][n].seen /\ passed(eval[c][n].stage, eval[c][n].seen, c)
<1>1. /\ eval[c] \in Seq(Evaluation) /\ Len(eval[c]) \in Nat /\ newest[c] \in Nat
      /\ DOMAIN eval[c] = 1..Len(eval[c])
  BY ChainValues, LenProperties
<1>2. n \in 1..Len(eval[c]) /\ n > 0
  BY <1>1
<1>3. /\ n = inflight[c] /\ world \in eval[c][n].seen
      /\ passed(eval[c][n].stage, eval[c][n].seen, c)
  BY <1>2 DEF EvalOK
<1>4. n = Len(eval[c]) /\ newest[c] <= Len(eval[c])
  BY <1>2, <1>3 DEF FlightOK
<1>5. eval[c][n] \in Evaluation
  BY <1>1, <1>2, ElementOfSeq
<1> QED
  BY <1>1, <1>2, <1>3, <1>4, <1>5 DEF running

\* The evaluation goes on to a stage that what it has seen bears out.
LEMMA GoOnKeeps ==
    ASSUME ReadinessAssumption, ReadinessInv, NEW c \in Chains, NEW n \in DOMAIN eval[c],
           eval[c][n].stage # "done", NEW stage \in Stage \ {"done"},
           NEW tries \in 0..(MaxAttempts - 1), passed(stage, eval[c][n].seen, c),
           GoOn(c, n, stage, tries)
    PROVE  ReadinessInv' /\ News
<1> DEFINE x == [eval[c][n] EXCEPT !.stage = stage, !.tries = tries]
<1>1. DataTypes /\ EvalOK(c) /\ FlightOK(c)
  BY DEF ReadinessInv, ChainInv
<1>2. /\ n \in 1..Len(eval[c]) /\ n = inflight[c] /\ n > 0 /\ eval[c][n] \in Evaluation
      /\ world \in eval[c][n].seen
  BY <1>1, RunningIsLast
<1>3. /\ UNCHANGED <<world, cache, inflight, ask, pc, sampling, gauge, newest, samples, changes>>
      /\ eval' = written(c, n, x)
  BY <1>1, <1>2 DEF GoOn, DataTypes, Evaluation, written
<1>4. x \in Evaluation /\ x.seen = eval[c][n].seen /\ x.stage = stage
  BY <1>2 DEF Evaluation
<1> HIDE DEF x
<1>5. /\ eval' \in [Chains -> Seq(Evaluation)] /\ Len(eval'[c]) = Len(eval[c])
      /\ eval'[c][n] = x
      /\ \A m \in 1..Len(eval[c]) : m # n => eval'[c][m] = eval[c][m]
      /\ \A d \in Chains : d # c => eval'[d] = eval[d]
      /\ Recorded(c)
  BY <1>1, <1>2, <1>3, <1>4, EvaluationWritten
<1>6. EvalOK(c)'
  <2> SUFFICES ASSUME NEW m \in 1..Len(eval[c])
               PROVE  /\ eval'[c][m].stage # "done" <=> m = inflight[c]
                      /\ m = inflight[c] =>
                           /\ world \in eval'[c][m].seen
                           /\ passed(eval'[c][m].stage, eval'[c][m].seen, c)
    BY <1>3, <1>5 DEF EvalOK
  <2>1. CASE m = n
    BY <1>2, <1>4, <1>5, <2>1
  <2>2. CASE m # n
    BY <1>1, <1>5, <2>2 DEF EvalOK
  <2> QED
    BY <2>1, <2>2
<1>7. FlightOK(c)'
  <2>1. /\ cache'[c] = cache[c] /\ cache[c] \in Entry /\ cache[c].left \in Nat
        /\ newest'[c] = newest[c] /\ newest[c] \in Nat /\ inflight'[c] = inflight[c]
    BY <1>1, <1>3, ChainValues
  <2>2. newest[c] <= Len(eval[c])
    BY <1>1 DEF FlightOK
  <2>3. cache'[c].left <= cache[c].left
    BY <2>1
  <2> QED
    BY <1>1, <1>5, <2>1, <2>2, <2>3, EntryStays
<1>8. ASSUME NEW d \in Chains PROVE Recorded(d) /\ EvalOK(d)' /\ FlightOK(d)'
  <2>1. CASE d = c
    BY <1>5, <1>6, <1>7, <2>1
  <2>2. CASE d # c
    <3>1. EvalOK(d) /\ FlightOK(d)
      BY DEF ReadinessInv, ChainInv
    <3> QED
      BY <1>1, <1>3, <1>5, <2>2, <3>1, SameChain
  <2> QED
    BY <2>1, <2>2
<1>9. ToldInv'
  <2> SUFFICES ASSUME NEW a \in Askers, NEW d \in Chains PROVE ToldOK(a, d)'
    BY DEF ToldInv
  <2>1. ToldOK(a, d) /\ ask'[a][d] = ask[a][d]
    BY <1>3 DEF ReadinessInv, ToldInv
  <2> QED
    BY <1>1, <1>8, <2>1, AnswerStays
<1>10. DataTypes' /\ ControlTypes'
  BY <1>3, <1>5 DEF ReadinessInv, DataTypes, ControlTypes
<1>11. News
  BY <1>3 DEF News, NewsOf
<1> QED
  BY <1>8, <1>9, <1>10, <1>11 DEF ReadinessInv, ChainInv

\* An evaluation ends with a result that what it has seen bears out: everybody who waits
\* for it is told, and the cache keeps it for its time.
LEMMA EndsKeeps ==
    ASSUME ReadinessAssumption, ReadinessInv, NEW c \in Chains, NEW n \in DOMAIN eval[c],
           eval[c][n].stage # "done", NEW result \in Result,
           groundedIn(eval[c][n].seen, c, result), Ends(c, n, result)
    PROVE  ReadinessInv' /\ News
<1> DEFINE x == [eval[c][n] EXCEPT !.stage = "done"]
           news == [of |-> n, told |-> TRUE, result |-> result]
<1>1. DataTypes /\ EvalOK(c) /\ FlightOK(c)
  BY DEF ReadinessInv, ChainInv
<1>2. /\ n \in 1..Len(eval[c]) /\ n = Len(eval[c]) /\ n = inflight[c] /\ n > 0
      /\ n \in running(c) /\ n >= newest[c] /\ eval[c][n] \in Evaluation
  BY <1>1, RunningIsLast
<1>3. n \in Nat /\ Len(eval[c]) \in Nat
  BY <1>1, <1>2, ChainValues
<1>4. /\ UNCHANGED <<world, pc, sampling, gauge, samples, changes>>
      /\ eval' = written(c, n, x)
      /\ inflight' = [inflight EXCEPT ![c] = 0]
      /\ newest' = [newest EXCEPT ![c] = IF n > newest[c] THEN n ELSE newest[c]]
      /\ cache' = IF ttl(result) > 0
                    THEN [cache EXCEPT ![c] = [result |-> result, of |-> n, left |-> ttl(result)]]
                    ELSE cache
  BY <1>1, <1>2 DEF Ends, DataTypes, Evaluation, written
<1>5. x \in Evaluation /\ x.seen = eval[c][n].seen /\ x.stage = "done"
  BY <1>2 DEF Evaluation, Stage
<1> HIDE DEF x
<1>6. /\ eval' \in [Chains -> Seq(Evaluation)] /\ Len(eval'[c]) = Len(eval[c])
      /\ eval'[c][n] = x
      /\ \A m \in 1..Len(eval[c]) : m # n => eval'[c][m] = eval[c][m]
      /\ \A d \in Chains : d # c => eval'[d] = eval[d]
      /\ Recorded(c)
  BY <1>1, <1>2, <1>4, <1>5, EvaluationWritten
<1>7. /\ inflight'[c] = 0 /\ newest'[c] \in Nat /\ newest'[c] <= Len(eval[c])
      /\ \A d \in Chains : d # c => inflight'[d] = inflight[d] /\ newest'[d] = newest[d]
      /\ inflight' \in [Chains -> Nat] /\ newest' \in [Chains -> Nat]
  <2>1. inflight \in [Chains -> Nat] /\ newest \in [Chains -> Nat]
    BY <1>1 DEF DataTypes
  <2>2. newest'[c] = IF n > newest[c] THEN n ELSE newest[c]
    BY <1>4, <2>1
  <2>3. newest[c] <= Len(eval[c]) /\ newest[c] \in Nat
    BY <1>1, <2>1 DEF FlightOK
  <2> QED
    BY <1>2, <1>3, <1>4, <2>1, <2>2, <2>3
<1>8. /\ ttl(result) \in Nat /\ ttl(result) <= SuccessTtl + RateLimitedTtl
      /\ ttl(result) > 0 => result \in {"none", "RELAYER_RATE_LIMITED"}
  BY ReadinessAssumption DEF ttl, Result, Reason
<1>9. /\ cache' \in [Chains -> Entry]
      /\ \A d \in Chains : d # c => cache'[d] = cache[d]
      /\ \/ cache'[c] = cache[c]
         \/ /\ cache'[c] = [result |-> result, of |-> n, left |-> ttl(result)]
            /\ ttl(result) > 0
  <2>1. cache \in [Chains -> Entry]
    BY <1>1 DEF DataTypes
  <2>2. [result |-> result, of |-> n, left |-> ttl(result)] \in Entry
    BY <1>3, <1>8 DEF Entry
  <2> QED
    BY <1>4, <2>1, <2>2
<1>10. EvalOK(c)'
  <2> SUFFICES ASSUME NEW m \in 1..Len(eval[c])
               PROVE  /\ eval'[c][m].stage # "done" <=> m = inflight'[c]
                      /\ m = inflight'[c] =>
                           /\ world' \in eval'[c][m].seen
                           /\ passed(eval'[c][m].stage, eval'[c][m].seen, c)
    BY <1>6 DEF EvalOK
  <2>1. m # 0
    BY <1>3
  <2>2. eval'[c][m].stage = "done"
    BY <1>1, <1>2, <1>5, <1>6 DEF EvalOK
  <2> QED
    BY <1>7, <2>1, <2>2
<1>11. FlightOK(c)'
  <2>1. cache[c].of <= Len(eval[c]) /\ (cache[c].left > 0 => inflight[c] = 0)
    BY <1>1 DEF FlightOK
  <2>2. CASE cache'[c] = cache[c]
    <3>1. ~(cache[c].left > 0)
      BY <1>2, <1>3, <2>1
    <3> QED
      BY <1>6, <1>7, <2>1, <2>2, <3>1 DEF FlightOK
  <2>3. ASSUME cache'[c] = [result |-> result, of |-> n, left |-> ttl(result)], ttl(result) > 0
        PROVE  FlightOK(c)'
    <3>1. cache'[c].result = result /\ cache'[c].of = n /\ cache'[c].left = ttl(result)
      BY <2>3
    <3>2. groundedIn(eval'[c][n].seen, c, result)
      BY <1>5, <1>6
    <3>3. n <= Len(eval[c])
      BY <1>2, <1>3
    <3> QED
      BY <1>2, <1>6, <1>7, <1>8, <2>3, <3>1, <3>2, <3>3 DEF FlightOK
  <2> QED
    BY <1>9, <2>2, <2>3
<1>12. ASSUME NEW d \in Chains PROVE Recorded(d) /\ EvalOK(d)' /\ FlightOK(d)'
  <2>1. CASE d = c
    BY <1>6, <1>10, <1>11, <2>1
  <2>2. CASE d # c
    <3>1. EvalOK(d) /\ FlightOK(d)
      BY DEF ReadinessInv, ChainInv
    <3>2. /\ eval'[d] = eval[d] /\ inflight'[d] = inflight[d] /\ newest'[d] = newest[d]
          /\ cache'[d] = cache[d] /\ UNCHANGED world
      BY <1>4, <1>6, <1>7, <1>9, <2>2
    <3> QED
      BY <1>1, <3>1, <3>2, SameChain
  <2> QED
    BY <2>1, <2>2
<1>13. /\ ask' = [a \in Askers |-> IF a \in waiters(c, n) THEN [ask[a] EXCEPT ![c] = news]
                                                          ELSE ask[a]]
       /\ ask \in [Askers -> [Chains -> Answer]]
  BY <1>1 DEF Ends, DataTypes
<1>14. news \in Answer /\ news.of = n /\ news.told /\ news.result = result
  BY <1>3 DEF Answer
<1> HIDE DEF news
<1>15. ASSUME NEW a \in Askers, NEW d \in Chains
       PROVE  ask'[a][d] = ask[a][d] \/ (d = c /\ ask'[a][d] = news)
  <2>1. ask[a] \in [Chains -> Answer]
    BY <1>13
  <2>2. ask'[a] = ask[a] \/ ask'[a] = [ask[a] EXCEPT ![c] = news]
    BY <1>13
  <2> QED
    BY <2>1, <2>2
<1>16. ask' \in [Askers -> [Chains -> Answer]]
  <2>1. ASSUME NEW a \in Askers
        PROVE  (IF a \in waiters(c, n) THEN [ask[a] EXCEPT ![c] = news] ELSE ask[a])
                 \in [Chains -> Answer]
    BY <1>13, <1>14
  <2> QED
    BY <1>13, <2>1
<1>17. ASSUME NEW a \in Askers, NEW d \in Chains PROVE ToldOK(a, d)' /\ NewsOf(a, d)
  <2>1. CASE ask'[a][d] = ask[a][d]
    <3>1. ToldOK(a, d)
      BY DEF ReadinessInv, ToldInv
    <3> QED
      BY <1>1, <1>12, <2>1, <3>1, AnswerStays DEF NewsOf
  <2>2. ASSUME d = c, ask'[a][d] = news PROVE ToldOK(a, d)' /\ NewsOf(a, d)
    <3>1. n <= Len(eval'[c])
      BY <1>2, <1>3, <1>6
    <3>2. groundedIn(eval'[c][n].seen, c, result)
      BY <1>5, <1>6
    <3>3. ToldOK(a, d)'
      BY <1>2, <1>14, <2>2, <3>1, <3>2 DEF ToldOK
    <3>4. NewsOf(a, d)
      BY <1>2, <1>14, <2>2 DEF NewsOf
    <3> QED
      BY <3>3, <3>4
  <2> QED
    BY <1>15, <2>1, <2>2
<1>18. DataTypes' /\ ControlTypes'
  BY <1>4, <1>6, <1>7, <1>9, <1>16 DEF ReadinessInv, DataTypes, ControlTypes
<1> QED
  BY <1>12, <1>17, <1>18 DEF ReadinessInv, ChainInv, ToldInv, News

\* A call of an evaluation is answered.
LEMMA EvaluateKeeps ==
    ASSUME ReadinessAssumption, ReadinessInv, Evaluate
    PROVE  ReadinessInv' /\ News
<1>1. PICK c \in Chains : \E n \in DOMAIN eval[c] :
        RelayerCallAnswered(c, n) \/ BalanceKnown(c, n)
  BY DEF Evaluate
<1>2. PICK n \in DOMAIN eval[c] : RelayerCallAnswered(c, n) \/ BalanceKnown(c, n)
  BY <1>1
<1> DEFINE e == eval[c][n]
<1>3. e.stage # "done"
  BY <1>2 DEF RelayerCallAnswered, BalanceKnown
<1>4. /\ e \in Evaluation /\ world \in e.seen /\ passed(e.stage, e.seen, c) /\ world \in World
  BY <1>3, RunningIsLast DEF ReadinessInv, ChainInv, DataTypes
<1>5. e.tries \in 0..(MaxAttempts - 1) /\ e.stage \in Stage
  BY <1>4 DEF Evaluation
<1>6. ASSUME NEW stage \in Stage \ {"done"}, NEW tries \in 0..(MaxAttempts - 1),
             passed(stage, e.seen, c), GoOn(c, n, stage, tries)
      PROVE  ReadinessInv' /\ News
  BY <1>3, <1>6, GoOnKeeps
<1>7. ASSUME NEW result \in Result, groundedIn(e.seen, c, result), Ends(c, n, result)
      PROVE  ReadinessInv' /\ News
  BY <1>3, <1>7, EndsKeeps
<1> HIDE DEF e
<1>8. ASSUME RelayerCallAnswered(c, n) PROVE ReadinessInv' /\ News
  <2>1. /\ e.stage \in {"ready", "relayer", "network"}
        /\ \/ /\ retries(e.tries) /\ GoOn(c, n, e.stage, e.tries + 1)
           \/ /\ world.service # "up"
              /\ Ends(c, n, classifyOzReadinessFailure(world.service))
           \/ /\ e.stage = "relayer" /\ c \in world.paused
              /\ Ends(c, n, "RELAYER_UNAVAILABLE")
           \/ /\ world.service = "up" /\ ~(e.stage = "relayer" /\ c \in world.paused)
              /\ GoOn(c, n, Following(e.stage), 0)
    BY <1>8 DEF RelayerCallAnswered, e
  <2>2. ASSUME retries(e.tries), GoOn(c, n, e.stage, e.tries + 1)
        PROVE  ReadinessInv' /\ News
    <3>1. e.tries + 1 \in 0..(MaxAttempts - 1)
      BY <1>5, <2>2, ReadinessAssumption DEF retries
    <3> QED
      BY <1>3, <1>4, <1>5, <1>6, <2>2, <3>1
  <2>3. ASSUME world.service # "up", Ends(c, n, classifyOzReadinessFailure(world.service))
        PROVE  ReadinessInv' /\ News
    <3>1. world.service \in {"limited", "down"}
      BY <1>4, <2>3 DEF World, Service
    <3>2. /\ classifyOzReadinessFailure(world.service) \in Result \ {"none"}
          /\ holds(world, classifyOzReadinessFailure(world.service), c)
      BY <3>1 DEF classifyOzReadinessFailure, holds, Result, Reason
    <3>3. groundedIn(e.seen, c, classifyOzReadinessFailure(world.service))
      BY <1>4, <3>2 DEF groundedIn
    <3> QED
      BY <1>7, <2>3, <3>2, <3>3
  <2>4. ASSUME c \in world.paused, Ends(c, n, "RELAYER_UNAVAILABLE") PROVE ReadinessInv' /\ News
    <3>1. "RELAYER_UNAVAILABLE" \in Result /\ groundedIn(e.seen, c, "RELAYER_UNAVAILABLE")
      BY <1>4, <2>4 DEF groundedIn, holds, Result, Reason
    <3> QED
      BY <1>7, <2>4, <3>1
  <2>5. ASSUME world.service = "up", ~(e.stage = "relayer" /\ c \in world.paused),
               GoOn(c, n, Following(e.stage), 0)
        PROVE  ReadinessInv' /\ News
    <3>1. 0 \in 0..(MaxAttempts - 1)
      BY ReadinessAssumption
    <3>2. Following(e.stage) \in Stage \ {"done"}
      BY <2>1 DEF Following, Stage
    <3>3. passed(Following(e.stage), e.seen, c)
      BY <1>4, <2>1, <2>5 DEF passed, Following
    <3> QED
      BY <1>6, <2>5, <3>1, <3>2, <3>3
  <2> QED
    BY <2>1, <2>2, <2>3, <2>4, <2>5
<1>9. ASSUME BalanceKnown(c, n) PROVE ReadinessInv' /\ News
  <2>1. e.stage = "balance" /\ Ends(c, n, balanceResult(c))
    BY <1>9 DEF BalanceKnown, e
  <2>2. balanceResult(c) \in Result
    BY DEF balanceResult, Result, Reason
  <2>3. groundedIn(e.seen, c, balanceResult(c))
    <3>1. CASE c \in world.funded
      <4>1. /\ \E w \in e.seen : ~holds(w, "RELAYER_RATE_LIMITED", c)
            /\ \E w \in e.seen : ~holds(w, "RELAYER_UNAVAILABLE", c)
            /\ \E w \in e.seen : ~holds(w, "PROVIDER_NOT_READY", c)
        BY <1>4, <2>1, <3>1 DEF passed, holds
      <4> QED
        BY <3>1, <4>1 DEF groundedIn, balanceResult, Reason
    <3>2. CASE c \notin world.funded
      BY <1>4, <3>2 DEF groundedIn, balanceResult, holds
    <3> QED
      BY <3>1, <3>2
  <2> QED
    BY <1>7, <2>1, <2>2, <2>3
<1> QED
  BY <1>2, <1>8, <1>9

-----------------------------------------------------------------------------
(* The outside, and the clock of the cache.                                *)

\* The world changes, and every evaluation that runs sees the change.
LEMMA ChangesKeep ==
    ASSUME ReadinessInv, Changes
    PROVE  ReadinessInv' /\ News
<1>1. /\ DataTypes
      /\ UNCHANGED <<cache, inflight, ask, pc, sampling, gauge, newest, samples>>
      /\ eval' = [c \in Chains |-> [n \in DOMAIN eval[c] |->
                    IF eval[c][n].stage = "done" THEN eval[c][n]
                    ELSE [eval[c][n] EXCEPT !.seen = @ \cup {world'}]]]
  BY DEF ReadinessInv, Changes
<1>2. world' \in World
  <2>1. \/ \E service \in Service : world' = [world EXCEPT !.service = service]
        \/ \E c \in Chains : \/ world' = [world EXCEPT !.paused = toggle(@, c)]
                            \/ world' = [world EXCEPT !.funded = toggle(@, c)]
    BY DEF Changes
  <2>2. ASSUME NEW cs \in SUBSET Chains, NEW c \in Chains PROVE toggle(cs, c) \in SUBSET Chains
    BY DEF toggle
  <2>3. /\ world \in [ service : Service, paused : SUBSET Chains, funded : SUBSET Chains ]
        /\ world.paused \in SUBSET Chains /\ world.funded \in SUBSET Chains
    BY <1>1 DEF DataTypes, World
  <2>4. \A c \in Chains : /\ toggle(world.paused, c) \in SUBSET Chains
                          /\ toggle(world.funded, c) \in SUBSET Chains
    BY <2>2, <2>3
  <2> QED
    BY <2>1, <2>3, <2>4 DEF World
<1>3. ASSUME NEW c \in Chains
      PROVE  /\ eval'[c] \in Seq(Evaluation) /\ Len(eval'[c]) = Len(eval[c]) /\ Recorded(c)
             /\ \A n \in 1..Len(eval[c]) :
                  /\ eval'[c][n].stage = eval[c][n].stage
                  /\ eval[c][n].seen \subseteq eval'[c][n].seen
                  /\ eval[c][n].stage # "done" => world' \in eval'[c][n].seen
  <2> DEFINE later(n) == IF eval[c][n].stage = "done" THEN eval[c][n]
                         ELSE [eval[c][n] EXCEPT !.seen = @ \cup {world'}]
             q == [n \in 1..Len(eval[c]) |-> later(n)]
  <2>1. /\ eval[c] \in Seq(Evaluation) /\ Len(eval[c]) \in Nat
        /\ DOMAIN eval[c] = 1..Len(eval[c])
    BY <1>1, ChainValues, LenProperties
  <2>2. eval'[c] = q
    BY <1>1, <2>1
  <2>3. ASSUME NEW n \in 1..Len(eval[c])
        PROVE  /\ later(n) \in Evaluation /\ later(n).stage = eval[c][n].stage
               /\ eval[c][n].seen \subseteq later(n).seen
               /\ eval[c][n].stage # "done" => world' \in later(n).seen
    <3>1. eval[c][n] \in Evaluation
      BY <2>1, ElementOfSeq
    <3> QED
      BY <1>2, <3>1 DEF Evaluation
  <2> HIDE DEF later
  <2>4. q \in Seq(Evaluation)
    BY <2>1, <2>3, IsASeq
  <2>5. Len(q) = Len(eval[c])
    <3>1. DOMAIN q = 1..Len(eval[c])
      OBVIOUS
    <3>2. DOMAIN q = 1..Len(q) /\ Len(q) \in Nat
      BY <2>4, LenProperties
    <3> HIDE DEF q
    <3> QED
      BY <2>1, <3>1, <3>2
  <2>6. \A n \in 1..Len(eval[c]) : q[n] = later(n)
    OBVIOUS
  <2> HIDE DEF q
  <2>7. Recorded(c)
    BY <2>1, <2>2, <2>3, <2>4, <2>5, <2>6 DEF Recorded
  <2> QED
    BY <2>2, <2>3, <2>4, <2>5, <2>6, <2>7
<1>4. ASSUME NEW c \in Chains PROVE EvalOK(c)' /\ FlightOK(c)'
  <2>1. EvalOK(c) /\ FlightOK(c)
    BY DEF ReadinessInv, ChainInv
  <2>2. EvalOK(c)'
    <3> SUFFICES ASSUME NEW n \in 1..Len(eval[c])
                 PROVE  /\ eval'[c][n].stage # "done" <=> n = inflight[c]
                        /\ n = inflight[c] =>
                             /\ world' \in eval'[c][n].seen
                             /\ passed(eval'[c][n].stage, eval'[c][n].seen, c)
      BY <1>1, <1>3 DEF EvalOK
    <3>1. /\ eval[c][n].stage # "done" <=> n = inflight[c]
          /\ n = inflight[c] => passed(eval[c][n].stage, eval[c][n].seen, c)
      BY <2>1 DEF EvalOK
    <3>2. /\ eval'[c][n].stage = eval[c][n].stage
          /\ eval[c][n].seen \subseteq eval'[c][n].seen
          /\ eval[c][n].stage # "done" => world' \in eval'[c][n].seen
      BY <1>3
    <3>3. ASSUME passed(eval[c][n].stage, eval[c][n].seen, c)
          PROVE  passed(eval'[c][n].stage, eval'[c][n].seen, c)
      BY <3>2, <3>3 DEF passed
    <3> QED
      BY <3>1, <3>2, <3>3
  <2>3. FlightOK(c)'
    <3>1. /\ cache'[c] = cache[c] /\ cache[c] \in Entry /\ cache[c].left \in Nat
          /\ newest'[c] = newest[c] /\ newest[c] \in Nat /\ inflight'[c] = inflight[c]
      BY <1>1, ChainValues
    <3>2. newest[c] <= Len(eval[c])
      BY <2>1 DEF FlightOK
    <3>3. cache'[c].left <= cache[c].left
      BY <3>1
    <3> QED
      BY <1>1, <1>3, <2>1, <3>1, <3>2, <3>3, EntryStays
  <2> QED
    BY <2>2, <2>3
<1>5. ToldInv'
  <2> SUFFICES ASSUME NEW a \in Askers, NEW c \in Chains PROVE ToldOK(a, c)'
    BY DEF ToldInv
  <2>1. ToldOK(a, c) /\ ask'[a][c] = ask[a][c]
    BY <1>1 DEF ReadinessInv, ToldInv
  <2> QED
    BY <1>1, <1>3, <2>1, AnswerStays
<1>6. eval' \in [Chains -> Seq(Evaluation)]
  <2>1. eval' = [c \in Chains |-> eval'[c]]
    BY <1>1
  <2> QED
    BY <1>3, <2>1
<1>7. DataTypes' /\ ControlTypes'
  BY <1>1, <1>2, <1>6 DEF ReadinessInv, DataTypes, ControlTypes
<1>8. News
  BY <1>1 DEF News, NewsOf
<1> QED
  BY <1>4, <1>5, <1>7, <1>8 DEF ReadinessInv, ChainInv

\* The entries of the cache grow old.
LEMMA TickKeeps ==
    ASSUME ReadinessAssumption, ReadinessInv, Tick
    PROVE  ReadinessInv' /\ News
<1>1. /\ DataTypes
      /\ cache' = [c \in Chains |-> [cache[c] EXCEPT !.left = IF @ > 0 THEN @ - 1 ELSE 0]]
      /\ UNCHANGED <<world, inflight, eval, ask, pc, sampling, gauge, newest, samples, changes>>
  BY DEF ReadinessInv, Tick
<1>2. ASSUME NEW c \in Chains
      PROVE  /\ cache'[c] \in Entry /\ cache'[c].of = cache[c].of
             /\ cache'[c].result = cache[c].result /\ cache'[c].left <= cache[c].left
  <2>1. cache[c] \in Entry /\ cache[c].left \in Nat
    BY <1>1, ChainValues
  <2>2. (IF cache[c].left > 0 THEN cache[c].left - 1 ELSE 0) \in 0..cache[c].left
    BY <2>1
  <2>3. cache'[c] = [cache[c] EXCEPT !.left = IF cache[c].left > 0 THEN cache[c].left - 1 ELSE 0]
    BY <1>1
  <2> QED
    BY <2>1, <2>2, <2>3 DEF Entry
<1>3. ASSUME NEW c \in Chains PROVE Recorded(c) /\ EvalOK(c)' /\ FlightOK(c)'
  <2>1. EvalOK(c) /\ FlightOK(c)
    BY DEF ReadinessInv, ChainInv
  <2>2. /\ eval[c] \in Seq(Evaluation) /\ Len(eval[c]) \in Nat /\ newest[c] \in Nat
        /\ newest[c] <= Len(eval[c])
    BY <1>1, <2>1, ChainValues DEF FlightOK
  <2>3. Recorded(c)
    BY <1>1, <2>2 DEF Recorded
  <2>4. EvalOK(c)'
    BY <1>1, <2>1 DEF EvalOK
  <2>5. FlightOK(c)'
    BY <1>1, <1>2, <2>1, <2>2, <2>3, EntryStays
  <2> QED
    BY <2>3, <2>4, <2>5
<1>4. ToldInv'
  BY <1>1 DEF ReadinessInv, ToldInv, ToldOK
<1>5. cache' \in [Chains -> Entry]
  <2>1. cache' = [c \in Chains |-> cache'[c]]
    BY <1>1
  <2> QED
    BY <1>2, <2>1
<1>6. DataTypes' /\ ControlTypes'
  BY <1>1, <1>5 DEF ReadinessInv, DataTypes, ControlTypes
<1>7. News
  BY <1>1 DEF News, NewsOf
<1> QED
  BY <1>3, <1>4, <1>6, <1>7 DEF ReadinessInv, ChainInv

-----------------------------------------------------------------------------
(* Who asks.                                                               *)

\* The probes and the sampler.
LEMMA AskersKeep ==
    ASSUME ReadinessAssumption, ReadinessInv,
           \/ SampleStarts \/ SampleTaken
           \/ \E p \in Probes : ProbeArrives(p) \/ ProbeAnswered(p)
    PROVE  ReadinessInv' /\ News
<1>1. /\ DataTypes /\ ChainInv /\ ToldInv
      /\ pc \in [Askers -> {"new", "waiting", "200", "503"}] /\ sampling \in Chains
      /\ ask \in [Askers -> [Chains -> Answer]]
      /\ gauge \in [Chains -> SUBSET Result]
      /\ \A c \in Chains : gauge[c] = {} \/ \E result \in Result : gauge[c] = {result}
  BY DEF ReadinessInv, DataTypes, ControlTypes
<1>2. 1 \in Chains /\ NChains \in Nat
  BY ReadinessAssumption DEF Chains
<1>3. ASSUME UNCHANGED <<world, cache, inflight, eval, ask, newest>>
      PROVE  DataTypes' /\ ChainInv' /\ ToldInv' /\ News
  BY <1>1, <1>3 DEF DataTypes, ChainInv, EvalOK, FlightOK, ToldInv, ToldOK, News, NewsOf
<1>4. ASSUME NEW p \in Probes, ProbeArrives(p) PROVE ReadinessInv' /\ News
  <2>1. p \in Askers /\ Chains \in SUBSET Chains
    BY DEF Askers
  <2>2. DataTypes' /\ ChainInv' /\ ToldInv' /\ News
    BY <1>1, <1>4, <2>1, AskKeeps DEF ProbeArrives
  <2>3. ControlTypes'
    BY <1>1, <1>4, <2>1 DEF ProbeArrives, ControlTypes
  <2> QED
    BY <2>2, <2>3 DEF ReadinessInv
<1>5. ASSUME NEW p \in Probes, ProbeAnswered(p) PROVE ReadinessInv' /\ News
  <2>1. ControlTypes'
    BY <1>1, <1>5 DEF ProbeAnswered, ControlTypes
  <2> QED
    BY <1>3, <1>5, <2>1 DEF ProbeAnswered, ReadinessInv
<1>6. "sampler" \in Askers
  BY DEF Askers
<1>7. ASSUME SampleStarts PROVE ReadinessInv' /\ News
  <2>1. DataTypes' /\ ChainInv' /\ ToldInv' /\ News
    BY <1>1, <1>2, <1>6, <1>7, AskKeeps DEF SampleStarts
  <2>2. ControlTypes'
    BY <1>1, <1>2, <1>7 DEF SampleStarts, ControlTypes
  <2> QED
    BY <2>1, <2>2 DEF ReadinessInv
<1>8. ASSUME SampleTaken PROVE ReadinessInv' /\ News
  <2>1. ask["sampler"][sampling].result \in Result
    <3>1. ask["sampler"][sampling] \in Answer
      BY <1>1, <1>6
    <3> QED
      BY <3>1 DEF Answer
  <2>2. /\ gauge' \in [Chains -> SUBSET Result]
        /\ \A c \in Chains : gauge'[c] = {} \/ \E result \in Result : gauge'[c] = {result}
    <3>1. gauge' = [gauge EXCEPT ![sampling] = {ask["sampler"][sampling].result}]
      BY <1>8 DEF SampleTaken
    <3> QED
      BY <1>1, <2>1, <3>1
  <2>3. ASSUME sampling < NChains, sampling' = sampling + 1, Ask("sampler", {sampling + 1}),
               UNCHANGED pc
        PROVE  ReadinessInv' /\ News
    <3>1. sampling + 1 \in Chains
      BY <1>1, <1>2, <2>3 DEF Chains
    <3>2. UNCHANGED world
      BY <1>8 DEF SampleTaken
    <3>3. DataTypes' /\ ChainInv' /\ ToldInv' /\ News
      BY <1>1, <1>6, <2>3, <3>1, <3>2, AskKeeps
    <3>4. ControlTypes'
      BY <1>1, <2>2, <2>3, <3>1 DEF ControlTypes
    <3> QED
      BY <3>3, <3>4 DEF ReadinessInv
  <2>4. ASSUME pc' = [pc EXCEPT !["sampler"] = "new"],
               UNCHANGED <<sampling, cache, inflight, eval, ask, newest>>
        PROVE  ReadinessInv' /\ News
    <3>1. UNCHANGED world
      BY <1>8 DEF SampleTaken
    <3>2. DataTypes' /\ ChainInv' /\ ToldInv' /\ News
      BY <1>3, <2>4, <3>1
    <3>3. ControlTypes'
      BY <1>1, <2>2, <2>4 DEF ControlTypes
    <3> QED
      BY <3>2, <3>3 DEF ReadinessInv
  <2> QED
    BY <1>8, <2>3, <2>4 DEF SampleTaken
<1> QED
  BY <1>4, <1>5, <1>7, <1>8

-----------------------------------------------------------------------------
(* The theorems.                                                           *)

\* In the initial states nobody has asked.
LEMMA ReadinessInit == ASSUME ReadinessAssumption, Init PROVE ReadinessInv
<1>1. /\ cache = [c \in Chains |-> NoEntry] /\ inflight = [c \in Chains |-> 0]
      /\ eval = [c \in Chains |-> <<>>] /\ newest = [c \in Chains |-> 0]
      /\ ask = [a \in Askers |-> [c \in Chains |-> Nothing]]
      /\ pc = [a \in Askers |-> "new"] /\ sampling = 1 /\ gauge = [c \in Chains |-> {}]
  BY DEF Init
<1>2. world \in World
  BY DEF Init, World
<1>3. <<>> \in Seq(Evaluation) /\ Len(<<>>) = 0
  OBVIOUS
<1>4. NoEntry \in Entry /\ NoEntry.left = 0 /\ NoEntry.of = 0
  BY DEF NoEntry, Entry, Result
<1>5. Nothing \in Answer /\ Nothing.of = 0 /\ ~Nothing.told
  BY DEF Nothing, Answer, Result
<1>6. DataTypes
  BY <1>1, <1>2, <1>3, <1>4, <1>5 DEF DataTypes
<1>7. ControlTypes
  BY <1>1, ReadinessAssumption DEF ControlTypes, Chains
<1>8. ChainInv
  BY <1>1, <1>3, <1>4 DEF ChainInv, EvalOK, FlightOK
<1>9. ToldInv
  BY <1>1, <1>3, <1>5 DEF ToldInv, ToldOK
<1> QED
  BY <1>6, <1>7, <1>8, <1>9 DEF ReadinessInv

\* Every step keeps the invariant and tells only news.
LEMMA ReadinessStep ==
    ASSUME ReadinessAssumption, ReadinessInv, Next
    PROVE  ReadinessInv' /\ News
  BY EvaluateKeeps, ChangesKeep, TickKeeps, AskersKeep DEF Next

\* Whoever asks whenever, whatever ends or changes in between: the shared evaluation is the
\* last one and the only one that runs, a fresh entry of the cache is of the last one, and
\* what was told is grounded in what its evaluation saw.
THEOREM EvaluationsAreShared == Spec => []ReadinessInv
<1>1. Init => ReadinessInv
  BY ReadinessAssumption, ReadinessInit
<1>2. ASSUME ReadinessInv, [Next]_vars PROVE ReadinessInv'
  <2>1. CASE Next
    BY <1>2, <2>1, ReadinessAssumption, ReadinessStep
  <2>2. CASE UNCHANGED vars
    BY <1>2, <2>2 DEF vars, ReadinessInv, DataTypes, ControlTypes, ChainInv, EvalOK, FlightOK,
                      ToldInv, ToldOK
  <2> QED
    BY <1>2, <2>1, <2>2
<1>3. ReadinessInv /\ [Next]_vars => ReadinessInv'
  BY <1>2
<1> QED
  BY <1>1, <1>3, PTL DEF Spec

\* The variables have their types: every answer is of an evaluation that began, a retry
\* stays under its limit, and a gauge has one reason at a time.
THEOREM ReadinessTypes == Spec => []ReadinessTypeOK
<1>1. ASSUME ReadinessInv PROVE ReadinessTypeOK
  <2>1. ASSUME NEW c \in Chains
        PROVE  /\ cache[c] \in [ result : Result, of : 0..Len(eval[c]),
                                 left : 0..(SuccessTtl + RateLimitedTtl) ]
               /\ inflight[c] \in 0..Len(eval[c])
               /\ \A n \in DOMAIN eval[c] :
                    /\ eval[c][n].stage \in Stage /\ eval[c][n].tries \in 0..(MaxAttempts - 1)
                    /\ eval[c][n].seen \subseteq World
               /\ \A a \in Askers :
                    ask[a][c] \in [ of : 0..Len(eval[c]), told : BOOLEAN, result : Result ]
               /\ gauge[c] = {} \/ \E result \in Result : gauge[c] = {result}
    <3>1. /\ DataTypes /\ ControlTypes /\ FlightOK(c)
          /\ \A a \in Askers : ToldOK(a, c)
      BY <1>1 DEF ReadinessInv, ChainInv, ToldInv
    <3>2. /\ eval[c] \in Seq(Evaluation) /\ Len(eval[c]) \in Nat
          /\ cache[c] \in Entry /\ inflight[c] \in Nat
          /\ cache[c].of \in Nat /\ cache[c].left \in Nat
      BY <3>1, ChainValues
    <3>3. cache[c].of \in 0..Len(eval[c]) /\ inflight[c] \in 0..Len(eval[c])
      BY <3>1, <3>2 DEF FlightOK
    <3>4. cache[c].left \in 0..(SuccessTtl + RateLimitedTtl)
      <4>1. CASE cache[c].left > 0
        BY <3>1, <3>2, <4>1, ReadinessAssumption DEF FlightOK
      <4>2. CASE ~(cache[c].left > 0)
        BY <3>2, <4>2, ReadinessAssumption
      <4> QED
        BY <4>1, <4>2
    <3>5. cache[c] \in [ result : Result, of : 0..Len(eval[c]),
                         left : 0..(SuccessTtl + RateLimitedTtl) ]
      BY <3>2, <3>3, <3>4 DEF Entry
    <3>6. ASSUME NEW n \in DOMAIN eval[c]
          PROVE  /\ eval[c][n].stage \in Stage /\ eval[c][n].tries \in 0..(MaxAttempts - 1)
                 /\ eval[c][n].seen \subseteq World
      <4>1. eval[c][n] \in Evaluation
        BY <3>2, LenProperties, ElementOfSeq
      <4> QED
        BY <4>1 DEF Evaluation
    <3>7. ASSUME NEW a \in Askers
          PROVE  ask[a][c] \in [ of : 0..Len(eval[c]), told : BOOLEAN, result : Result ]
      <4>1. ask[a][c] \in Answer /\ ask[a][c].of <= Len(eval[c])
        BY <3>1 DEF DataTypes, ToldOK
      <4>2. ask[a][c].of \in 0..Len(eval[c])
        BY <3>2, <4>1 DEF Answer
      <4> QED
        BY <4>1, <4>2 DEF Answer
    <3> QED
      BY <3>1, <3>3, <3>5, <3>6, <3>7 DEF ControlTypes
  <2>2. /\ world \in World /\ pc \in [Askers -> {"new", "waiting", "200", "503"}]
        /\ sampling \in Chains
    BY <1>1 DEF ReadinessInv, DataTypes, ControlTypes
  <2> QED
    BY <2>1, <2>2 DEF ReadinessTypeOK
<1>2. ReadinessInv => ReadinessTypeOK
  BY <1>1
<1> QED
  BY <1>2, EvaluationsAreShared, PTL

\* Callers of a chain share one evaluation: no two of a chain run at a time.
THEOREM FlightsAreSingle == Spec => []SingleFlight
<1>1. ASSUME ReadinessInv PROVE SingleFlight
  <2> SUFFICES ASSUME NEW c \in Chains
               PROVE  running(c) = IF inflight[c] = 0 THEN {} ELSE {inflight[c]}
    BY DEF SingleFlight
  <2>1. EvalOK(c) /\ FlightOK(c) /\ DataTypes
    BY <1>1 DEF ReadinessInv, ChainInv
  <2>2. /\ eval[c] \in Seq(Evaluation) /\ Len(eval[c]) \in Nat /\ inflight[c] \in Nat
        /\ DOMAIN eval[c] = 1..Len(eval[c])
    BY <2>1, ChainValues, LenProperties
  <2>3. \A n \in DOMAIN eval[c] : n \in running(c) <=> n = inflight[c]
    BY <2>1, <2>2 DEF EvalOK, running
  <2>4. running(c) \subseteq DOMAIN eval[c]
    BY DEF running
  <2>5. CASE inflight[c] = 0
    <3>1. inflight[c] \notin DOMAIN eval[c]
      BY <2>2, <2>5
    <3> QED
      BY <2>3, <2>4, <2>5, <3>1
  <2>6. CASE inflight[c] # 0
    <3>1. inflight[c] = Len(eval[c])
      BY <2>1, <2>6 DEF FlightOK
    <3>2. inflight[c] \in DOMAIN eval[c]
      BY <2>2, <2>6, <3>1
    <3> QED
      BY <2>3, <2>4, <2>6, <3>2
  <2> QED
    BY <2>5, <2>6
<1>2. ReadinessInv => SingleFlight
  BY <1>1
<1> QED
  BY <1>2, EvaluationsAreShared, PTL

\* Whoever is told a reason is told one that was there while the evaluation ran, and who is
\* told that a chain is ready, that each of the reasons was absent at some time of it.
THEOREM AnswersHaveGrounds == Spec => []AnswersAreGrounded
<1>1. ReadinessInv => AnswersAreGrounded
  BY DEF ReadinessInv, ToldInv, ToldOK, AnswersAreGrounded, grounded, groundedIn
<1> QED
  BY <1>1, EvaluationsAreShared, PTL

\* Nobody is told older news of a chain than somebody before, and no bad news but a rate
\* limit outlives its evaluation.
THEOREM NewsIsNew == Spec => NewsOnlyGetsNewer
<1>1. ReadinessInv /\ [Next]_vars => [News]_vars
  BY ReadinessAssumption, ReadinessStep
<1>2. Spec => [][News]_vars
  BY <1>1, EvaluationsAreShared, PTL DEF Spec
<1> QED
  BY <1>2 DEF NewsOnlyGetsNewer, News, NewsOf

=============================================================================
