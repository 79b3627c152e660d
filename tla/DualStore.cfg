\* The defaults of the watcher: Hazelcast first, MongoDB second.
SPECIFICATION FairSpec
CONSTANTS
    a = a
    b = b
    c = c
    i = i
    j = j
    Names = {a, b, c}
    Ids = {i, j}
    Versions = {1, 2}
    NoId = NoId
    Absent = Absent
    PrimaryType = "hazelcast"
    SecondaryType = "mongo"
    Callers = {"informer", "fallback"}
    WriteSet <- LifeCycle
    MaxWrites = 3
    Faults = {"primary", "secondary", "crash"}
INVARIANTS TypeOK LegsObey
PROPERTIES MirrorSpec WritesReplicate
