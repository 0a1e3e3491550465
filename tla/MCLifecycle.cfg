\* The timeouts and the default interval are the ones of the code.
SPECIFICATION LiveSpec
CONSTANTS
    Interval = 5
    PollTimeout = 1
    IoTimeout = 5
    MaxWork = 2
    MaxSends = 2
    MaxSignals = 2
    MaxConnects = 2
INVARIANTS TypeOK CollectorPrompt ExitBounded
PROPERTIES CyclesApart StopLeadsToExit ClientAccepted CollectionGoesOn
