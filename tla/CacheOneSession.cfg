\* Two operations on one session: every kind, every mode, every content of a
\* store of two keys; the byte limits are reached by two payloads and the
\* entry limit refuses the larger payload.
SPECIFICATION CacheSpec
CONSTANTS
    o1 = o1
    o2 = o2
    o3 = o3
    s1 = s1
    s2 = s2
    k1 = k1
    k2 = k2
    NoTurn = NoTurn
    NoSession = NoSession
    MalformedKey = MalformedKey
    NoRecord = NoRecord
    MalformedRecord = MalformedRecord
    Ops = {o1, o2}
    Sessions = {s1}
    Signalled = {o1, o2}
    Keys = {k1, k2}
    PayloadBytes = {2, 3}
    Supplied <- Foreign
    MaxOperations = 2
    MaxEntryBytes = 2
    MaxTotalReadBytes = 3
    MaxTotalWriteBytes = 2
SYMMETRY CacheSymmetry
INVARIANTS HitIsIntact EveryBytePaid
PROPERTIES StoreStaysIntact AbortIsHeeded
CHECK_DEADLOCK FALSE
