CONSTANTS
    None = None
    Torn = Torn
    Tasks = {t1, t2, t3}
    MaxOps = 3
    MaxFaults = 2
    MaxKills = 1
SPECIFICATION FairSpec
CHECK_DEADLOCK FALSE
INVARIANTS
    RestAgrees
    ObservedSeesOnePairing
PROPERTIES
    LateAnswerChangesNothing
    ButtonsComeBack
