SPECIFICATION Spec
CONSTANTS
    Null = Null
    None = None
    NaN = NaN
    FastPeriod = 1
    Histories <- MCHistories
    Scenarios <- MCScenarios
    Requests <- MCRequests
    InitialEquity = 14000
    Slippage = 10
    Fee = 2
    MinNotional = Null
INVARIANTS BooksBalance NoLookAhead ExitsInTime
