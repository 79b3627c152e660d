\* Full mode without any failure.
SPECIFICATION InStepSpec
CONSTANTS
    a = a
    b = b
    Names = {a, b}
    Mode = "watcher"
    ReconcileMode = "full"
    Deletable = {a}
    MaxRv = 3
    MaxFlaps = 0
    MaxLosses = 0
    MaxErrors = 0
PROPERTY DeletedDisappear
