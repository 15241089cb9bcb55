--------------------------- MODULE MCRelayWorker ---------------------------
(* The instances of RelayWorker that TLC checks: the rows that are admitted. *)
EXTENDS RelayWorker

AllProfiles == Kind \X BOOLEAN
SignedOnly  == { <<"clearMacroV1", FALSE>> }
Permit2Only == { <<"clearMacroPermit2V1", FALSE>> }

=============================================================================
