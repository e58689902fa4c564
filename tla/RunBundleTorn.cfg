CONSTANTS
    None = None
    Builds = {b1, b2, b3}
    Profiles <- MCOneProfile
    Restores = FALSE
    Bound <- MCKillBound
SPECIFICATION Spec
CHECK_DEADLOCK FALSE
INVARIANT
    StoppedIsResumable
