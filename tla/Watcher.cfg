\* The default store, and everything that can go wrong once.
SPECIFICATION FairSpec
CONSTANTS
    a = a
    b = b
    Names = {a, b}
    Ids = {1, 2, 3, 4}
    Versions = {1, 2, 3, 4}
    NoId = NoId
    Absent = Absent
    PrimaryType = "hazelcast"
    Labels = {"even", "odd"}
    LabelOf <- SomeLabels
    Initially = {a}
    MaxRv = 4
    MaxOutages = 1
    MaxExpiries = 1
    MaxExits = 1
    MaxErrors = 1
INVARIANTS TypeOK StoreFollowsInformer GaugeCounts
PROPERTY CatchesUp
