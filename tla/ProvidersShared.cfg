SPECIFICATION Spec
CONSTANTS
    w1 = w1
    w2 = w2
    Workers = {w1, w2}
    None = None
    Engine = Engine
    Odd = Odd
    RawCounts <- SomeCounts
    Fragments <- SomeFragments
    CallLimit = 3
SYMMETRY Symmetry
CHECK_DEADLOCK FALSE
INVARIANTS
    TypeOK
    LateCallersShare
    LabelsTellTheSide
    EmptyIsUpstreams
PROPERTIES
    SharedObjectsSettle
