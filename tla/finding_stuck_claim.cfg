SPECIFICATION FairSpec
CONSTANTS
  N = 1
  RetryCount = 2
  MaxHash = 1
  BatchSize = 1
  Profiles <- SignedOnly
  ErrorKinds = {"rate_limited"}
  WaitConfirmed = FALSE
  LoseReplies = FALSE
  HashlessRevert = FALSE
  ChainRemoval = FALSE
  MaxCrashes = 1
  MaxFaults = 0
PROPERTIES
  Progress
