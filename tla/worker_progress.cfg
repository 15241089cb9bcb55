SPECIFICATION FairSpec
CONSTANTS
  N = 2
  RetryCount = 1
  MaxHash = 1
  BatchSize = 1
  Profiles <- Permit2Only
  ErrorKinds = {"rate_limited"}
  WaitConfirmed = FALSE
  LoseReplies = FALSE
  HashlessRevert = FALSE
  ChainRemoval = FALSE
  MaxCrashes = 0
  MaxFaults = 0
PROPERTIES
  Progress
