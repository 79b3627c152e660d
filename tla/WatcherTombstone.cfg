\* One watch that expires, and nothing else.
SPECIFICATION FairSpec
CONSTANTS
    a = a
    b = b
    Names = {a}
    Ids = {1, 2}
    Versions = {1, 2}
    NoId = NoId
    Absent = Absent
    PrimaryType = "hazelcast"
    Labels = {"even", "odd"}
    LabelOf <- FixedLabel
    Initially = {a}
    MaxRv = 2
    MaxOutages = 0
    MaxExpiries = 1
    MaxExits = 0
    MaxErrors = 0
PROPERTY DeletedDisappear
