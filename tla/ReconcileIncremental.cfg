\* Incremental mode without deletes.
SPECIFICATION FairSpec
CONSTANTS
    a = a
    b = b
    Names = {a, b}
    Mode = "watcher"
    ReconcileMode = "incremental"
    Deletable = {}
    MaxRv = 2
    MaxFlaps = 1
    MaxLosses = 1
    MaxErrors = 1
PROPERTIES NothingMissing ReconcileNeverRegresses
