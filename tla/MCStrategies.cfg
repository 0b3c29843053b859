SPECIFICATION Spec
CONSTANTS
    Null = Null
    MaxRows = 3
    Payloads <- MCPayloads
INVARIANTS SavedIsKept DiffIsComplete
