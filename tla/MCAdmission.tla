----------------------------- MODULE MCAdmission -----------------------------
(* The instance of Admission that TLC checks: every pair of the requests   *)
(* below.  Two clients may ask for the same intent, in different ways.     *)
EXTENDS Admission

PairsOfClients ==
    { p \in Profile :
        /\ p.force => p.client = "alice" /\ p.method = "signature"
        /\ p.method = "permit2" <=> p.intent = "permit" }

=============================================================================
