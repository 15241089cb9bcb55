SPECIFICATION Spec
CONSTANTS
  N = 1
  RetryCount = 2
  MaxHash = 2
  BatchSize = 1
  Profiles <- AllProfiles
  ErrorKinds = {"rate_limited", "timeout"}
  WaitConfirmed = TRUE
  LoseReplies = TRUE
  HashlessRevert = FALSE
  ChainRemoval = TRUE
  MaxCrashes = 2
  MaxFaults = 1
INVARIANTS
  TypeOK
  ClaimIsInFlight
  NoResubmission
  SubmitBudget
  OutcomeIsGrounded
PROPERTIES
  KeepsPromise
  TerminalIsFinal
  TerminalRecordIsFinal
  LinkIsKept
  ClaimIsTimely
