SPECIFICATION Spec
CONSTANTS
    a = a
    b = b
    x = x
    y = y
    NoSession = NoSession
    Calls = {a, b}
    Kids = {x, y}
    MaxTokens = 2
SYMMETRY Interchangeable
CHECK_DEADLOCK FALSE
INVARIANTS PublishedKeysAreKnown AloneStaysSignedIn
PROPERTY FailClosed
