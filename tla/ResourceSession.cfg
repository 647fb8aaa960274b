\* Two calls, two clears, a dispose and an abort over two keys; the resolver
\* may never answer.
SPECIFICATION LoopSpec
CONSTANTS
    c1 = c1
    c2 = c2
    a = a
    b = b
    x = x
    y = y
    NoEntry = NoEntry
    Calls = {c1, c2}
    Keys = {a, b}
    Commitments = {x, y}
    Length <- Lengths
    Requests <- Asked
    MaxResources = 2
    MaxBytes = 3
    MaxClears = 2
INVARIANTS LiveReadersAreIntact CountersMatchEntries NoBufferLeaks
PROPERTIES ImplementsVerifiedStore EveryCallSettles
CHECK_DEADLOCK FALSE
