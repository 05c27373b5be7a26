SPECIFICATION Spec
CONSTANTS
    Runners = {r1}
    Names = {"device", "manual"}
    Tools = {"device", "manual"}
    Intents = {"diagnosis", "status"}
    CaseIds = {"a", "b"}
    None = none
    Datasets <- SomeDatasets
    Plans <- SomePlans
    Options <- SomeOptions
    RunLimit = 3
    EditLimit = 1
INVARIANTS
    DigestNamesTheInput
CHECK_DEADLOCK FALSE
