SPECIFICATION Spec
CONSTANTS
    Requests = {r1, r2}
    ThreadLimit = 1
    Modes = {"rule", "llm", "auto"}
    Queries <- OneQuery
    Plans <- FewPlans
PROPERTIES
    ImplementsContract
    EveryRequestEnds
