SPECIFICATION Spec
CONSTANTS
    Requests = {1, 2}
    Clients = {"alice", "bob"}
    Intents = {"macro", "permit"}
    Profiles <- PairsOfClients
    MaxTries = 2
    MaxCrashes = 1
    MaxFaults = 1
INVARIANTS
    AdmissionTypeOK
    OneExecutionPerIntent
    AnswersMatchRows
    AuditMatchesAnswer
    MetricsMatchAnswer
PROPERTIES
    DecidesAtOnce
CHECK_DEADLOCK FALSE
