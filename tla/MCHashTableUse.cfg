SPECIFICATION BoundedSpec
CONSTANTS
    Bin = {0, 1}
    hash <- ThreeCollide
    NULL = NULL
    Key = {"alice", "bob", "carol", "dave"}
    Val = {v1, v2}
    MaxSize = 6
INVARIANTS
    NoStaleAnswer
    CountersCoverTheBins
PROPERTY
    LosesOnlyBehindTail
