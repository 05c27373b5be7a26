SPECIFICATION Spec
CONSTANTS
    Readers = {r1, r2}
    CacheSize = 1
    Contents <- GoodContents
    MaxFiles = 1
    MaxLength = 10
    Tears = FALSE
    Replaces = FALSE
PROPERTIES
    ImplementsRegister
