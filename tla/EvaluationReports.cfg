SPECIFICATION Spec
CONSTANTS
    Runners = {r1, r2}
    Names = {"device", "manual"}
    Tools = {"device", "manual"}
    Intents = {"diagnosis", "status"}
    CaseIds = {"a", "b"}
    None = none
    Datasets <- SomeDatasets
    Plans <- SomePlans
    Options <- SomeOptions
    RunLimit = 3
    EditLimit = 1
CONSTRAINT LongRunsAreAlone
SYMMETRY Interchangeable
INVARIANTS
    TypeOK
    SuccessMeansNoFailure
    MetricsAreProportions
    FailuresTellTheirCase
    ComparesLikeWithLike
PROPERTIES
    FinishedReportsAgree
CHECK_DEADLOCK FALSE
