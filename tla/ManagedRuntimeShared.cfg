CONSTANTS
    None = None
    Torn = Torn
    Own = Own
    p1 = p1
    p2 = p2
    a = a
    b = b
    c = c
    d = d
    good = good
    bad = bad
    Procs = {p1, p2}
    Generations <- MCGenerations
    File <- MCFile
    PinnedRoot = 1
    Builds = {a, b, c, d}
    Sound = {a, b, c}
    Entries = {a, d}
    Targets = {good, bad}
    Claim <- MCClaim
    Archive <- MCArchive
    Fallback <- MCFallback
    Offered <- MCOffered
    Budgets <- MCBudgets
SPECIFICATION Spec
SYMMETRY Symmetry
CHECK_DEADLOCK FALSE
INVARIANTS
    ActiveIsOneGeneration
    SelectedIsSound
    UnclaimedIsTemporary
    FallbackStays
PROPERTIES
    ActiveOnlyMovesForward
    LoadedIsCurrent
