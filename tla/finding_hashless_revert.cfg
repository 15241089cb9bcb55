SPECIFICATION FairSpec
CONSTANTS
  N = 1
  RetryCount = 2
  MaxHash = 1
  BatchSize = 1
  Profiles <- SignedOnly
  ErrorKinds = {"rate_limited"}
  WaitConfirmed = FALSE
  LoseReplies = FALSE
  HashlessRevert = TRUE
  ChainRemoval = FALSE
  MaxCrashes = 0
  MaxFaults = 0
PROPERTIES
  Progress
