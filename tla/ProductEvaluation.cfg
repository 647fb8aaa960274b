\* Two batches of two and one solids on a kernel that may return any shape twice.
SPECIFICATION FairSpec
CONSTANTS
    Shapes = {s1, s2, s3, s4}
    Plan <- TwoBatches
INVARIANTS ReleasedOnceAndLate FailureFreesEverything ResultOwnsItsShapes
PROPERTIES NothingStartsAfterAbort AbortedEvaluationEnds
CHECK_DEADLOCK FALSE
