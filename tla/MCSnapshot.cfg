\* Two metrics, one of them without a rule; three addresses, one more than the
\* two buffers the code may own; capacity 1 so that the second add doubles it;
\* three tags: the cycle collected, the one published, the one being rendered.
SPECIFICATION Spec
CONSTANTS
    Metric = {m1, m2}
    Ruled = {m1}
    Buffer = {b1, b2, b3}
    NULL = NULL
    InitCap = 1
    Tags = 3
    MaxAdds = 2
SYMMETRY Symmetric
INVARIANTS TypeOK MemorySafe BuffersOwned ScrapeExact
PROPERTIES PublishedImmutable ImplementsAtomic
