CONSTANTS
    None = None
    Builds = {b1, b2, b3}
    Profiles <- MCProfiles
    Restores = FALSE
    Bound <- MCBound
SPECIFICATION Spec
CHECK_DEADLOCK FALSE
INVARIANTS
    CompletedBundleIsWhole
    ReceiptIsHonest
PROPERTIES
    ImplementsContract
