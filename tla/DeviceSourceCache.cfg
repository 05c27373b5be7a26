SPECIFICATION SafeSpec
CONSTANTS
    Readers = {r1, r2}
    CacheSize = 1
    Contents <- AnyContents
    MaxFiles = 2
    MaxLength = 6
    Tears = TRUE
    Replaces = TRUE
INVARIANTS
    TypeOK
    CacheIsCoherent
    AnswersMoveForward
