\* Three loads that overlap, on each of the three hosts; the hook thread may
\* hang at any time.
SPECIFICATION FairSpec
CONSTANTS
    a = a
    b = b
    c = c
    Loads = {a, b, c}
INVARIANT SourcesServeOneLoad
PROPERTY InstallationSettles
CHECK_DEADLOCK FALSE
