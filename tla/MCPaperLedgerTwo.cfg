SPECIFICATION Spec
CONSTANTS
    Trades = {t1, t2}
    Requests = {c1, c2}
    Servers = {s1}
    Watches = {w1, w2, w3, w4}
    NoWatch = NoWatch
    NoTrade = NoTrade
    UserOps = {}
    MaxCrashes = 1
    MaxFaults = 0
SYMMETRY TradeSymmetry
CHECK_DEADLOCK FALSE
INVARIANTS
    RunningIsWatched
    OneWatchPerTrade
    ReasonIsTrue
