CONSTANTS
    w1 = w1
    w2 = w2
    m1 = m1
    m2 = m2
    r1 = r1
    r2 = r2
    None = None
    Workers = {w1, w2}
    Machines = {m1}
    Runs = {r1}
    Home <- MCShared
    MaxJobs = 1
    Bound <- MCOneFaultBound
SPECIFICATION Spec
CHECK_DEADLOCK FALSE
PROPERTY
    HeartbeatNeverInvalidates
