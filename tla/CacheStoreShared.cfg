CONSTANTS
    None = None
    small = small
    large = large
    Procs = {p1, p2}
    Artifacts <- MCArtifacts
    Size <- MCSize
    Weight <- MCWeight
    Limits <- MCLimits
    Requests <- MCRequests
    Bound <- MCBound
SPECIFICATION FairSpec
CHECK_DEADLOCK FALSE
INVARIANTS
    OwnedWithinLimit
PROPERTIES
    ReaderKeepsFile
    KeptIsPreserved
    ForeignIsPreserved
    OperationsEnd
