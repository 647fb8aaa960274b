\* Timeouts served by one timer, by one full timer and by chains of two and three.
SPECIFICATION WorkerFairSpec
CONSTANTS
    Timeouts = {1, 2, 3, 5}
    MaxTimerDelay = 2
    MaxStartTime = 4
    Lateness = 1
INVARIANTS TerminatedBeforeSettled OutcomeIsReported TimeoutIsNotEarly
           NothingUnobserved
PROPERTIES SlowStartFails CallSettles
CHECK_DEADLOCK FALSE
