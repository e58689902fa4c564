CONSTANTS
    None = None
    Commands = {c1, c2}
    Pids = {p1, p2}
    Kinds <- MCEndKinds
    MaxLost = 0
SPECIFICATION FairSpec
CHECK_DEADLOCK FALSE
PROPERTIES
    CommandsReturn
    ClosedQuits
