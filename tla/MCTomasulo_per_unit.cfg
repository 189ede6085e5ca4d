\* ./schedulersim -a 2 -d 2 -m 2 on the test traces and on short ones.
CONSTANTS
    Reg <- Registers
    AddLatency = 2
    DivLatency = 15
    MemLatency = 20
    RsType = "F"
    RsSize = 6
    RsSizes <- SizesTwoEach
    NextLines <- TestOrShortLines
    Eof = Eof
    MaxLines = 3
    MaxCycles = 85
SPECIFICATION BoundedFairSpec
INVARIANT PrintsExpectedStatistics
PROPERTIES
    ImplementsDataflow
    EveryTraceEndsOrIsRefused
    EntriesAreFreed
CHECK_DEADLOCK FALSE
