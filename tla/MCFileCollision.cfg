SPECIFICATION Spec
CONSTANTS
    SingleFile = TRUE
    Size <- MCFile
    ChunkSize = 2
    Foreign = Foreign
    MaxAttempts = 1
    MaxFaults = 0
    MaxChanges = 0
    MaxCancels = 0
    MaxForeign = 1
PROPERTIES
    NoOverwrite
CHECK_DEADLOCK FALSE
