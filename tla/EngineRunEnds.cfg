CONSTANTS
    None = None
    e1 = e1
    e2 = e2
    Engines = {e1, e2}
    CaseLists <- MCCaseLists
    Profiles = 2
    Warmup = 1
    Measured = 1
    Asks = 3
    Bound <- MCBound
SPECIFICATION FairSpec
CHECK_DEADLOCK FALSE
INVARIANTS
    MeasuredAlone
    NothingLeft
    RestartsBounded
    CaseFitsContext
PROPERTY
    RunEnds
