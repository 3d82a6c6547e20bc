SPECIFICATION Spec
CONSTANTS
    Sessions = {s1}
    None = None
    SizeOf <- MCSizeOf
    Sizes = {1, 2}
    MaxSaves = 1
    MaxRevision = 3
    MaxGeneration = 2
    MaxRetries = 1
    MaxEvents = 3
INVARIANT InspectionsCome
CHECK_DEADLOCK FALSE
