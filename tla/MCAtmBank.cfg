SPECIFICATION MCSpec
CONSTANTS
    User = {"alice", "bob"}
    Pin = {p1, p2}
    Amount = {5, 100000000}
    INT_MAX = 100000006
    Bin = {0}
    hash <- OneBin
    NULL = NULL
    NameLength <- LengthOf
    MessageSize = 256
    Lengths <- ShortAndLongest
    MaxLines = 2
    MaxTyped = 5
    MaxFaults = 2
INVARIANTS
    TypeOK
    OneAnswerPerCommand
    AnswersBelongToTheCommand
    CashWasDebited
PROPERTIES
    DebitsWhatWasTyped
SYMMETRY Symmetry
CHECK_DEADLOCK FALSE
