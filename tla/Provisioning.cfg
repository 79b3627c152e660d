\* The defaults of the provisioning mode, with mongoId set to the name.
SPECIFICATION FairSpec
CONSTANTS
    a = a
    b = b
    NoUid = NoUid
    Names = {a, b}
    Ids = {a, b}
    Versions = {1, 2}
    NoId = NoId
    Absent = Absent
    PrimaryType = "mongo"
    SecondaryType = "hazelcast"
    Requests <- ByName
    WrittenSet = "subscriptions"
    ConfiguredSet = "subscriptions"
    MaxWrites = 2
    MaxStops = 1
    MaxErrors = 1
    Faults = {"primary", "secondary", "crash"}
    Unsettled = Unsettled
INVARIANTS TypeOK AcknowledgedReadable
PROPERTIES CacheConverges StopsWhenTold RestockSpec
