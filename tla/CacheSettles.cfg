\* Two cancellable operations on one session, any of which may get stuck behind
\* the other, under the fairness of the event loop and of the store.
SPECIFICATION FairCacheSpec
CONSTANTS
    o1 = o1
    o2 = o2
    o3 = o3
    s1 = s1
    s2 = s2
    k1 = k1
    k2 = k2
    NoTurn = NoTurn
    NoSession = NoSession
    MalformedKey = MalformedKey
    NoRecord = NoRecord
    MalformedRecord = MalformedRecord
    Ops = {o1, o2}
    Sessions = {s1}
    Signalled = {o1, o2}
    Keys = {k1}
    PayloadBytes = {2}
    Supplied <- Known
    MaxOperations = 2
    MaxEntryBytes = 2
    MaxTotalReadBytes = 3
    MaxTotalWriteBytes = 2
PROPERTY EveryTaskSettles
CHECK_DEADLOCK FALSE
