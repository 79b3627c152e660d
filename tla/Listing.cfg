\* Both stores and Redis, a client of the API and the metrics goroutine.
SPECIFICATION FairSpec
CONSTANTS
    a = a
    b = b
    Names = {a, b}
    Ids = {a, b}
    Versions = {1, 2}
    NoId = NoId
    Absent = Absent
    NoKey = NoKey
    Types = {"hazelcast", "mongo", "redis"}
    Readers = {"api", "metrics"}
    Writable <- Versioned
    Requests <- Queries
    Field <- Fields
    Mentions <- Texts
    Labels = {"first", "second"}
    LabelOf <- SomeLabels
    MaxWrites = 4
    MaxErrors = 1
INVARIANTS TypeOK ListSound ListComplete
PROPERTY GaugeComesTrue
