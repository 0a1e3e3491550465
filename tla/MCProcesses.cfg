\* Two names for one slot: a full table.  Two numbers: numbers are used again.
SPECIFICATION Spec
CONSTANTS
    NPids = 2
    Comm = {a, b}
    NULL = NULL
    MaxComms = 1
    MaxCpu = 1
    MaxSkips = 2
SYMMETRY Symmetric
INVARIANTS TypeOK CountBounded
PROPERTIES RegressExplained
