\* Three processes create, open and patch one slug; a save fails, a process dies.
SPECIFICATION SetupSpec
CONSTANTS
    Workers = {p1, p2, p3}
    Requests = {"post", "cli", "get", "patch"}
    MaxFailures = 1
    MaxCrashes = 1
    Unset = Unset
INVARIANTS
    CreatedOnce
    CreationStands
