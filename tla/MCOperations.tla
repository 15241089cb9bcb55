----------------------------- MODULE MCOperations -----------------------------
(* The instance of Operations that TLC checks: two chains, a relayer that   *)
(* somebody made by hand for the first, and three configurations: the      *)
(* second changes the RPC list of the first, the third adds a chain.       *)
EXTENDS Operations, TLC

ByHand == "handmade" :> "c1"

SomeConfigs == { "c1" :> "r1" @@ "c2" :> "absent",
                 "c1" :> "r2" @@ "c2" :> "absent",
                 "c1" :> "r1" @@ "c2" :> "r1" }

=============================================================================
