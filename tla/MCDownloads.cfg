SPECIFICATION SceneSpec
CONSTANTS
    Jobs = {sftp, ftp}
    SftpJobs = {sftp}
    Files = {f1, f2}
    First = f1
    Size = 2
    MaxRuns = 2
    MaxAttempts = 3
    MaxForeign = 1
    Sessions = {edit}
    None = None
    Sizes = {1, 2}
    MaxSaves = 2
    MaxRevision = 4
    MaxGeneration = 2
    MaxRetries = 1
    MaxEvents = 3
CHECK_DEADLOCK FALSE
INVARIANTS CheckpointsAreHonest DownloadsAreWhole EditsArrive
PROPERTIES NothingReplacedUnasked
