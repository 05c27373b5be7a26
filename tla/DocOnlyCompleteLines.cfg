SPECIFICATION SafeSpec
CONSTANTS
    Readers = {r1, r2}
    CacheSize = 2
    Contents <- GoodContents
    MaxFiles = 2
    MaxLength = 7
    Tears = TRUE
    Replaces = FALSE
INVARIANT
    OnlyCompleteLines
