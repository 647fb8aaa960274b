SPECIFICATION Spec
CONSTANTS
    Worlds <- MCWorlds
    Root = "root"
    Base = "base"
    PathBound = 6
INVARIANTS
    FailsForCause
    OccurrencesAreActiveParts
CHECK_DEADLOCK FALSE
