SPECIFICATION Spec
CONSTANTS
  N = 1
  RetryCount = 2
  MaxHash = 1
  BatchSize = 1
  Profiles <- SignedOnly
  ErrorKinds = {"timeout", "connect_failed"}
  WaitConfirmed = FALSE
  LoseReplies = FALSE
  HashlessRevert = FALSE
  ChainRemoval = FALSE
  MaxCrashes = 0
  MaxFaults = 0
INVARIANTS
  OutageEndsNothing
