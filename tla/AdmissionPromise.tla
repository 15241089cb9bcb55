--------------------------- MODULE AdmissionPromise ---------------------------
(***************************************************************************)
(* What POST /v1/relay-executions promises, without its checks and waits:  *)
(* an intent is owned by the client that created its execution first, and  *)
(* every answer is decided by the owner at the moment it is given.         *)
(***************************************************************************)
CONSTANTS Requests, Intents, Asks, nobody

VARIABLES asks, owner, told

promiseVars == <<asks, owner, told>>

PromiseInit ==
    /\ asks \in [Requests -> Asks]
    /\ owner = [k \in Intents |-> nobody]
    /\ told = [r \in Requests |-> "nothing"]

Tell(r, what) ==
    /\ told[r] = "nothing" /\ told' = [told EXCEPT ![r] = what]
    /\ UNCHANGED asks

\* The execution comes to be even when the answer is an error of the provider, or none.
Create(r) ==
    /\ owner[asks[r].intent] = nobody
    /\ owner' = [owner EXCEPT ![asks[r].intent] = asks[r].client]
    /\ \/ Tell(r, "created") \/ Tell(r, "refused")
       \/ told[r] = "nothing" /\ UNCHANGED <<asks, told>>

Replay(r) == owner[asks[r].intent] = asks[r].client /\ Tell(r, "replayed") /\ UNCHANGED owner

Hide(r) ==
    /\ owner[asks[r].intent] \notin {nobody, asks[r].client}
    /\ Tell(r, "conflict") /\ UNCHANGED owner

Refuse(r) == Tell(r, "refused") /\ UNCHANGED owner

\* The client asks again.
Ask(r) ==
    /\ told[r] # "nothing" /\ told' = [told EXCEPT ![r] = "nothing"]
    /\ UNCHANGED <<asks, owner>>

PromiseNext ==
    \E r \in Requests : Create(r) \/ Replay(r) \/ Hide(r) \/ Refuse(r) \/ Ask(r)

PromiseSpec == PromiseInit /\ [][PromiseNext]_promiseVars

=============================================================================
