SPECIFICATION Spec
CONSTANTS
  N = 1
  RetryCount = 2
  MaxHash = 1
  BatchSize = 1
  Profiles <- SignedOnly
  ErrorKinds = {"rate_limited", "timeout"}
  WaitConfirmed = FALSE
  LoseReplies = TRUE
  HashlessRevert = FALSE
  ChainRemoval = FALSE
  MaxCrashes = 0
  MaxFaults = 0
PROPERTIES
  NoDeniedAcceptance
