\* One metric or more of every rule, in snapshots of up to three: two of a family
\* with one of another between them.
SPECIFICATION Spec
CONSTANTS
    Emitted <- SomeMetrics
    MaxMetrics = 3
    MaxFailures = 1
INVARIANTS FamiliesAnnounced TypesRight SeriesDistinct AllShown
