SPECIFICATION SafeSpec
CONSTANTS
    Requests = {r1}
    ThreadLimit = 1
    Modes = {"rule", "llm", "auto"}
    Queries <- SomeQueries
    Plans <- LongPlans
INVARIANT
    EveryOutageIsReported
