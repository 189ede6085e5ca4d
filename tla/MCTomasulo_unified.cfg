\* Every trace of up to four lines, with two sources or none, through one station of three.
CONSTANTS
    Reg = {r1, r2}
    AddLatency = 1
    DivLatency = 2
    MemLatency = 3
    RsType = "U"
    RsSize = 3
    RsSizes <- SizesOneEach
    NextLines <- AnyBinaryLines
    Eof = Eof
    MaxLines = 4
    Kinds = {"ADD", "MEM"}
SYMMETRY Symmetry
SPECIFICATION Spec
INVARIANTS
    TypeOK
    SlotsHoldOutstanding
    SourcesNameProducers
    RatNamesYoungestWriter
    UnitsArePipelined
    StatsWithinUnits
    CyclesAreIssuesOrStalls
    ScheduleIsLegal
    NeverSlowerThanSerial
    CompletionLoopIsSetwise
    FiringLoopIsSetwise
CHECK_DEADLOCK FALSE
