SPECIFICATION Spec
CONSTANTS
    File = {f1, f2, f3}
    UnknownType = {f3}
    Fates = {"kept", "lost"}
    MaxOutages = 2
    MaxErrors = 1
    MaxWrites = 4
    MaxTime = 4
INVARIANTS TypeOK LossExplained RejectedOnlyIfStored NothingLostBefore DurableBefore
SYMMETRY Symmetry
CHECK_DEADLOCK FALSE
