SPECIFICATION Spec
CONSTANTS
    Worlds <- MCWorlds
    Base = "base"
INVARIANTS
    ImpactIsExact
    BlameIsExact
    ReasonsLeadToChanges
CHECK_DEADLOCK FALSE
