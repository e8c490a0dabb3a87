\* One API worker, two files, a content that dispatch raises on and one that
\* the upsert raises on, one crash or encode failure.
SPECIFICATION FairSpec
CONSTANTS
    NumFiles = 2
    Workers = {w1}
    Reindexers = {}
    MaxVersion = 4
    MaxFaults = 1
    ChunkCount <- ShrinkingChunks
    Unreadable = {}
    Raising = {2}
    Doubled = {3}
    AllowRestore = FALSE
INVARIANTS
    TypeOK
    ManifestTruthful
PROPERTIES
    EventuallyIndexed
