SPECIFICATION FairSpec
CONSTANTS
    Trades = {t1}
    Requests = {c1, c2}
    Servers = {s1}
    Watches = {w1, w2}
    NoWatch = NoWatch
    NoTrade = NoTrade
    UserOps = {"set_bankroll"}
    MaxCrashes = 1
    MaxFaults = 0
CHECK_DEADLOCK FALSE
INVARIANTS
    TypeOK
PROPERTIES
    HitDecides
    CloseEnds
    ResumeFinishes
