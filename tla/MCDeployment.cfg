SPECIFICATION MCSpec
CONSTANTS
    User = {"alice", "bob"}
    Pin = {p1, p2}
    Amount = {5, 100000000}
    INT_MAX = 100000006
    Bin = {0}
    hash <- OneBin
    NULL = NULL
    NameLength <- LengthOf
    MessageSize = 256
    Lengths <- ShortAndCut
    MaxLines = 1
    MaxTyped = 5
    MaxFaults = 3
INVARIANT
    InitIsAllOrNothing
PROPERTY
    EveryCommandIsAnswered
    NobodySwallowsACommand
CHECK_DEADLOCK FALSE
