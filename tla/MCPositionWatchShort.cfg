SPECIFICATION FairSpec
CONSTANTS
    Side = "short"
    Entry = 20
    StopPrice = 30
    TakePrice = 15
    Prices <- ShortPrices
    Times <- TradeTimes
    Deadline = 9
    EventBufferCap = 4
    Readers = {r1, r2}
    Stoppers = {s1}
INVARIANTS
    MilestonesOnTheRightSide
PROPERTIES
    KeepsContract
    StopCompletes
    LoopersLearn
