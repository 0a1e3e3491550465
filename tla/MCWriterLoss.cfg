SPECIFICATION Spec
CONSTANTS
    File = {f1}
    UnknownType = {}
    Fates = {"kept"}
    MaxOutages = 1
    MaxErrors = 0
    MaxWrites = 3
    MaxTime = 3
INVARIANTS NothingLost
CHECK_DEADLOCK FALSE
