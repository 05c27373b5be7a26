SPECIFICATION Spec
CONSTANTS
    Threads = {t1, t2}
    Loop = loop
    None = none
    Planners <- SomePlanners
    Tools = {}
    RagNames = {}
    LlmNames = {}
    RecordLimit = 1
    ScrapeLimit = 2
PROPERTIES
    CountersAreMonotone
CHECK_DEADLOCK FALSE
