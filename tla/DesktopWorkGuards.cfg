CONSTANTS
    None = None
    Commands = {c1, c2}
    Pids = {p1, p2}
    Kinds <- MCGuardKinds
    MaxLost = 1
SPECIFICATION Spec
SYMMETRY Symmetry
CHECK_DEADLOCK FALSE
INVARIANTS
    NoOrphan
    StopIsAdmitted
    CleanupSeesNoWork
PROPERTIES
    StoppedMeansIdle
    ImplementsGate
