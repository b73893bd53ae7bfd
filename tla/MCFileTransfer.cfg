SPECIFICATION Spec
CONSTANTS
    SingleFile = FALSE
    Size <- MCFolder
    ChunkSize = 2
    Foreign = Foreign
    MaxAttempts = 4
    MaxFaults = 2
    MaxChanges = 2
    MaxCancels = 1
    MaxForeign = 1
PROPERTIES
    Delivers
    NoOverwrite
    AttemptEnds
    SucceedsDespiteFaults
CHECK_DEADLOCK FALSE
