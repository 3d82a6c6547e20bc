SPECIFICATION StorageSpec
CONSTANTS
    Absent = Absent
    Wrong = Wrong
    Bad = Bad
    Missing = Missing
    Garbage = Garbage
    NoId = NoId
    NoNote = NoNote
    s1 = s1
    s2 = s2
    d1 = d1
    d2 = d2
    t1 = t1
    t2 = t2
    p1 = p1
    p2 = p2
    n1 = n1
    n2 = n2
    n3 = n3
    Fold <- MCFold
    Widths <- MCWidths
    Documents <- MCDocuments
    Changes <- MCChanges
    Defaults <- MCDefaults
    MaxHistory = 2
    MaxTabs = 2
    MaxSaves = 3
    f1 = f1
    f2 = f2
    f3 = f3
    f4 = f4
    f5 = f5
    f6 = f6
    j1 = j1
    j2 = j2
    j3 = j3
    job1 = job1
    site1 = site1
    quick2 = quick2
    Within <- MCWithin
    ParentOf <- MCParentOf
    NamesFor <- MCNamesFor
    Plan <- MCPlan
    NewJobs <- MCNewJobs
    OpenTabs <- MCOpenTabs
    SavedSites <- MCSavedSites
    QueueDocuments <- MCQueueDocuments
    FreshIds = {f1, f2, f3, f4, f5, f6}
    Errors <- MCErrors
    MaximumQueueItems = 3
    MaximumResumeRecordsPerItem = 2
    MaximumDestinationOverridesPerItem = 1
    MaximumErrorMessageLength = 47
    MaxQueued = 1
INVARIANT StoredIsUsable
PROPERTIES UsersOwnStays QueuedWorkSurvives
