CONSTANTS
    None = None
    NCases = 3
    Versions = {v1, v2}
    Recovers = TRUE
    OpenTails = FALSE
    Bound <- MCResumeBound
SPECIFICATION Spec
CHECK_DEADLOCK FALSE
INVARIANTS
    OneProtocol
    ScoreHasEvidence
PROPERTIES
    ResumeReuses
    RemovedOnlyWhenDurable
