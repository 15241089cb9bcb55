SPECIFICATION Spec
CONSTANTS
  N = 2
  RetryCount = 2
  MaxHash = 1
  BatchSize = 2
  Profiles <- SignedOnly
  ErrorKinds = {"rate_limited", "client_error"}
  WaitConfirmed = FALSE
  LoseReplies = FALSE
  HashlessRevert = FALSE
  ChainRemoval = FALSE
  MaxCrashes = 1
  MaxFaults = 0
INVARIANTS
  HandOverInv
  AtMostOneIntent
  OutcomeIsGrounded
  CancelStopsRelaying
  TickFailsOnlyOnCancel
