\* The API process and a sequence of commands; one crash or failing save.
SPECIFICATION FairSpec
CONSTANTS
    Server = api
    Commands = {c1}
    MaxEdits = 1
    MaxPrompts = 1
    MaxFaults = 1
    MaxKeys = 2
INVARIANTS
    RootKept
    Recoverable
PROPERTIES
    ServesAnyway
