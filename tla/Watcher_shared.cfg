\* The command line and the watcher on one firm, a content whose chunks share
\* an id and one that yields no text.
SPECIFICATION WatchFairSpec
CONSTANTS
    NumFiles = 1
    Workers = {}
    Reindexers = {cli, watch}
    Observer = watch
    MaxVersion = 4
    MaxFaults = 2
    MaxEvents = 2
    ChunkCount <- ThreeContents
    Unreadable = {4}
    Raising = {}
    Doubled = {2}
    AllowRestore = TRUE
INVARIANTS
    BM25Grounded
PROPERTIES
    EventuallyIndexed
