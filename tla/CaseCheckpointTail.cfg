CONSTANTS
    None = None
    NCases = 2
    Versions = {v1, v2}
    Recovers = TRUE
    OpenTails = TRUE
    Bound <- MCKillBound
SPECIFICATION Spec
CHECK_DEADLOCK FALSE
PROPERTY
    ResumeReuses
