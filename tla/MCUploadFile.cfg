SPECIFICATION Spec
CONSTANTS
    Jobs = {j1, j2}
    Guarded = {j1}
    Files = {f1, f2}
    First = f1
    Size = 2
    MaxVersion = 2
    MaxRuns = 2
    MaxAttempts = 3
    MaxForeign = 1
INVARIANTS
    TemporariesAreAccounted
PROPERTIES
    UploadsAreWhole
    NothingReplacedUnasked
    EditsReplaceWhatWasSeen
