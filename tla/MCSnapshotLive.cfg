\* No symmetry: temporal properties.
SPECIFICATION LiveSpec
CONSTANTS
    Metric = {m1}
    Ruled = {m1}
    Buffer = {b1, b2}
    NULL = NULL
    InitCap = 1
    Tags = 2
    MaxAdds = 1
PROPERTIES ScrapeAnswered CycleCompletes
