\* mongoId is not configured and bodies carry no UID; nothing fails.
SPECIFICATION Spec
CONSTANTS
    a = a
    b = b
    NoUid = NoUid
    Names = {a, b}
    Ids = {NoUid}
    Versions = {1, 2}
    NoId = NoId
    Absent = Absent
    PrimaryType = "mongo"
    SecondaryType = "hazelcast"
    Requests <- ByUid
    WrittenSet = "subscriptions"
    ConfiguredSet = "subscriptions"
    MaxWrites = 2
    MaxStops = 0
    MaxErrors = 0
    Faults = {"crash"}
    Unsettled = Unsettled
INVARIANT AcknowledgedReadable

