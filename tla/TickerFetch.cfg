SPECIFICATION FairSpec
CONSTANTS
    Requests = {c1, c2}
    Ttl = 2
    MaxAttempts = 2
    PruneAge = 1
    Channels = 1
    MaxNow = 3
    MaxFailures = 1
    MaxLosses = 1
    MaxGates = 1
CHECK_DEADLOCK FALSE
INVARIANTS
    TypeOK
    RecentAnswers
    CachedIsAnnounced
PROPERTIES
    FetchEnds
