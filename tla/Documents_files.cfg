\* Plain documents of up to 9 characters; files of up to 4 to 6 items.
SPECIFICATION DocumentsFairSpec
CONSTANTS
    MaxLength = 9
    ChunkSize = 7
    Overlap = 4
    MinSize = 3
    Files <- SomeFiles
    MaxOcrPages = 2
    LinesPerChunk = 3
    ParasPerChunk = 2
INVARIANTS
    Lossless
    SectionsDistinct
    NoSliver
    TextKept
    CitedRight
    IdsDistinct
PROPERTIES
    Terminates
CHECK_DEADLOCK FALSE
