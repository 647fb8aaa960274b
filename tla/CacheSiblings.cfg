\* Three operations without a signal on two sibling sessions over one key: the third
\* operation of a session exceeds maxOperations, and siblings interleave store calls.
SPECIFICATION CacheSpec
CONSTANTS
    o1 = o1
    o2 = o2
    o3 = o3
    s1 = s1
    s2 = s2
    k1 = k1
    k2 = k2
    NoTurn = NoTurn
    NoSession = NoSession
    MalformedKey = MalformedKey
    NoRecord = NoRecord
    MalformedRecord = MalformedRecord
    Ops = {o1, o2, o3}
    Sessions = {s1, s2}
    Signalled = {}
    Keys = {k1}
    PayloadBytes = {2}
    Supplied <- Known
    MaxOperations = 2
    MaxEntryBytes = 2
    MaxTotalReadBytes = 3
    MaxTotalWriteBytes = 2
SYMMETRY SiblingSymmetry
INVARIANT WithinLimits
CHECK_DEADLOCK FALSE
