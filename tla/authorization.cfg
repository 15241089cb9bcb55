SPECIFICATION FairSpec
CONSTANTS
    N = 2
    BatchSize = 1
    MaxAttempts = 2
    MaxCrashes = 1
    Removable = {1}
    Served = {2}
INVARIANTS
    AuthorizationTypeOK
    RoundsDoNotOverlap
PROPERTIES
    DecisionIsFinal
    TickFailsOnlyOnCancel
    PromotionHasConsent
    AwaitingIsServed
