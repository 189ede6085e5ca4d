SPECIFICATION BankSpec
CONSTANTS
    User = {"alice", "bob"}
    Pin = {p1, p2}
    Amount = {0, 1, 2, 4}
    INT_MAX = 3
    Bin = {0}
    hash <- OneBin
    NULL = NULL
INVARIANT
    AccountsHaveTheirCards
PROPERTY
    KeepsTheLedger
