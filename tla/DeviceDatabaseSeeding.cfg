SPECIFICATION Spec
CONSTANTS
    Seeders = {cli}
    Servers = {svc}
    Ids = {"PLC-001", "PLC-002"}
    Values = {1, 2, unknown}
    Null = null
    Unknown = unknown
    Files <- SomeFiles
    RunLimit = 5
INVARIANTS
    TypeOK
    FailedRunsAreWhole
PROPERTIES
    CommitStoresTheFile
    SeedingAgainChangesNothing
    ReadsFindTheSchema
CHECK_DEADLOCK FALSE
