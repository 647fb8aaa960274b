SPECIFICATION PlanSpec
CONSTANTS
    Worlds <- MCWorlds
    Root = "root"
    Base = "base"
    PathBound = 3
INVARIANTS
    NoInternalFailure
    EveryViewIsItsOwn
    GeometryIsPaidOnce
CHECK_DEADLOCK FALSE
