SPECIFICATION FairSpec
CONSTANTS
    Calls = {c1, c2, c3, c4}
    Unit = 3
    Rate = 2
    Capacity = 2
    MaxNow = 4
    MaxDelay = 1
CHECK_DEADLOCK FALSE
INVARIANTS
    TypeOK
    RateBound
PROPERTIES
    IsIdeal
    EveryoneServed
