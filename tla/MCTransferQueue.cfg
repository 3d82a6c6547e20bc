SPECIFICATION Spec
CONSTANTS
    JobIds = {j1, j2}
    Sites = {s1}
    AnySite = AnySite
    a = a
    b = b
    c = c
    Paths = {a, b}
    NoPath = NoPath
    ParentOf <- MCParentOf
    InsideRoot = {a, b}
    NoTotal = NoTotal
    MaxBytes = 1
    MaxAttempt = 1
    MaxRank = 2
SYMMETRY MCSymmetry
INVARIANTS
    DestinationsCollisionFree
    SnapshotRestorable
