\* Full mode behind the API: the changes travel in any order.
SPECIFICATION FairSpec
CONSTANTS
    a = a
    b = b
    Names = {a, b}
    Mode = "provisioning"
    ReconcileMode = "full"
    Deletable = {a, b}
    MaxRv = 3
    MaxFlaps = 1
    MaxLosses = 0
    MaxErrors = 1
INVARIANTS TypeOK OneReconcileAtATime NeverStuckDisconnected
PROPERTIES ReconcileNeverRegresses LockReleased EverythingRestored MirrorSpec
