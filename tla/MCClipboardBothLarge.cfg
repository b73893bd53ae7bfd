SPECIFICATION Spec
CONSTANTS
    Device = {1, 2}
    Value = {"photo", "scan"}
    Image = {"photo", "scan"}
    Large = {"photo", "scan"}
    Split = {}
    Unreadable = {}
    Copies <- MCBothLarge
    Wall <- MCWall
    LogicalMax = 20
    SeenCapacity = 10
    NoEvent = NoEvent
    Nothing = Nothing
    DebugAssertions = TRUE
    MaxCopies = 2
    MaxSessions = 1
    MaxFaults = 0
PROPERTIES
    TimeoutAbandonsNoOffer
CHECK_DEADLOCK FALSE
