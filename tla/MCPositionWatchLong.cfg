SPECIFICATION Spec
CONSTANTS
    Side = "long"
    Entry = 20
    StopPrice = 10
    TakePrice = 40
    Prices <- LongPrices
    Times <- TradeTimes
    Deadline = 9
    EventBufferCap = 4
    Readers = {r1, r2}
    Stoppers = {s1, s2}
SYMMETRY Symmetry
INVARIANTS
    TypeOK
    OneShotEvents
    StatusMatchesEvents
    NoLostWakeup
    ReadersMissNothing
    ToldIsFinal
    StoppedForGood
