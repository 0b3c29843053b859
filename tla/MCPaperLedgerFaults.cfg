SPECIFICATION Spec
CONSTANTS
    Trades = {t1}
    Requests = {c1}
    Servers = {s1, s2}
    Watches = {w1, w2}
    NoWatch = NoWatch
    NoTrade = NoTrade
    UserOps = {"stop_watch", "reset"}
    MaxCrashes = 1
    MaxFaults = 1
SYMMETRY SessionSymmetry
CHECK_DEADLOCK FALSE
INVARIANTS
    ClosedMeansClosed
PROPERTIES
    DecidedOnce
    WatchesKeepContract
