SPECIFICATION Spec
CONSTANTS
    NPids = 2
    Comm = {a}
    NULL = NULL
    MaxComms = 1
    MaxCpu = 1
    MaxSkips = 0
PROPERTIES CounterMonotone
