\* Four operations on two sessions, one of them without a signal, any of which
\* may hang: queues of up to four turns, two sessions at once.
SPECIFICATION HangingQueueSpec
CONSTANTS
    o1 = o1
    o2 = o2
    o3 = o3
    o4 = o4
    s1 = s1
    s2 = s2
    NoTurn = NoTurn
    NoSession = NoSession
    Ops = {o1, o2, o3, o4}
    Sessions = {s1, s2}
    Signalled = {o1, o2, o3}
PROPERTIES ReleasedInOrder ImplementsSerialTurns PromptCancellation
CHECK_DEADLOCK FALSE
