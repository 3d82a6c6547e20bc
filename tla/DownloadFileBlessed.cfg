SPECIFICATION Spec
CONSTANTS
    Jobs = {j1}
    SftpJobs = {j1}
    Files = {f1}
    First = f1
    Size = 2
    MaxRuns = 2
    MaxAttempts = 2
    MaxForeign = 1
INVARIANT ResumesAreVerified
