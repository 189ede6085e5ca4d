\* Three requests, database failures and the stop command.
SPECIFICATION MCSpec
CONSTANTS
    Request = {1, 2, 3}
    Email = {"e1", "e2"}
    Gpa = {"3.5"}
    rank <- RankOf
    Faults = TRUE
    NULL = NULL
INVARIANTS
    TypeOK
    ReviewsShowTheirOwn
    RemovalsCountOnce
PROPERTIES
    EveryFormIsAnswered
    ConfirmedIsStored
    ClientsAreClosed
CHECK_DEADLOCK FALSE
