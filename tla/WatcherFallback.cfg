\* The API is gone when Quasar starts.
SPECIFICATION FairSpec
CONSTANTS
    a = a
    b = b
    Names = {a}
    Ids = {1, 2}
    Versions = {1, 2}
    NoId = NoId
    Absent = Absent
    PrimaryType = "hazelcast"
    Labels = {"even", "odd"}
    LabelOf <- FixedLabel
    Initially = {a}
    MaxRv = 2
    MaxOutages = 1
    MaxExpiries = 0
    MaxExits = 0
    MaxErrors = 0
PROPERTY FallbackRestores
