SPECIFICATION Spec
CONSTANTS
    Threads = {t1, t2}
    Loop = loop
    None = none
    Planners <- SomePlanners
    Tools = {"query_alarm_code"}
    RagNames = {"local"}
    LlmNames = {"openai_compatible"}
    RecordLimit = 1
    ScrapeLimit = 2
INVARIANTS
    TypeOK
    SeriesAreDeclared
    EveryEventIsCounted
    DurationsFollowCounts
PROPERTIES
    SettledRegistryStays
    OneRegistryGrows
SYMMETRY Workers
CHECK_DEADLOCK FALSE
