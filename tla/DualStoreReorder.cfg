\* One caller, no failure: only the goroutines are free to move.
SPECIFICATION Spec
CONSTANTS
    a = a
    b = b
    c = c
    i = i
    j = j
    Names = {a, b, c}
    Ids = {i, j}
    Versions = {1, 2}
    NoId = NoId
    Absent = Absent
    PrimaryType = "mongo"
    SecondaryType = "hazelcast"
    Callers = {"request"}
    WriteSet <- PutTwice
    MaxWrites = 2
    Faults = {}
INVARIANT StoresAgreeWhenQuiet
