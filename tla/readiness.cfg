SPECIFICATION FairSpec
CONSTANTS
    NChains = 2
    Probes = {probe}
    MaxSamples = 2
    MaxChanges = 1
    MaxAttempts = 2
    SuccessTtl = 2
    RateLimitedTtl = 1
INVARIANTS
    ReadinessTypeOK
    SingleFlight
    AnswersAreGrounded
PROPERTIES
    NewsOnlyGetsNewer
    EveryoneIsAnswered
CHECK_DEADLOCK FALSE
