\* The default interval; a second lost, and more seconds than a step has.
SPECIFICATION Spec
CONSTANTS
    Boot <- BootStat
    Advance <- Advances
    Enabled <- AllReaders
    Usual <- UsualSource
    Odd <- OddSource
    UsualTicks <- Usually
    Interval = 5
    Delays = {1, 6}
    MaxOdd = 2
    MaxCycles = 3
INVARIANTS TypeOK BusyAccounted PercentExplained SharedFileExplained GapExplained ShownAsRead
