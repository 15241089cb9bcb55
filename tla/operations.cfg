SPECIFICATION FairSpec
CONSTANTS
    Chains = {"c1", "c2"}
    ForeignOf <- ByHand
    Rpcs = {"r1", "r2"}
    Configs <- SomeConfigs
    MaxTroubles = 2
    Runners = {"service", "migrate"}
    Service = "service"
    MaxRows = 1
    Releases = {0, 2}
INVARIANTS
    OperationsTypeOK
    ApplyReachesDesired
    SchemaMatchesRecord
PROPERTIES
    ApplyNeverDoubles
    BindingIsExact
    RowsAreKept
    ApplyConverges
CHECK_DEADLOCK FALSE
