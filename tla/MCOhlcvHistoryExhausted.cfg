SPECIFICATION Spec
CONSTANTS
    None = None
    ErrorsBeforeDegraded = 2
    SuccessesBeforeHealthy = 2
    Calls = {h1, h2}
    Windows <- MCWindows
    First = 2
    MaxLatest = 3
INVARIANT ExhaustedEnds
