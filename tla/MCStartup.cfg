\* Four slots and up to five names: duplicates, unknown names and one name too many.
SPECIFICATION Spec
CONSTANTS
    Registry <- FourReaders
    Unknown = {"bogus"}
    MaxReaders = 4
    MaxOut = 4
    MaxNames = 5
INVARIANTS TypeOK EnabledOnce EnabledExact
