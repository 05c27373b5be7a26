SPECIFICATION SafeSpec
CONSTANTS
    Requests = {r1}
    ThreadLimit = 1
    Modes = {"rule", "llm", "auto"}
    Queries <- EveryQuery
    Plans <- MostPlans
INVARIANTS
    TypeOK
    PlansRunWhole
    ModeHonoured
    FallbackIsBaseline
    RefusedPlanRunsNothing
    OperationsAreClosed
    AnswerTellsOutcomes
