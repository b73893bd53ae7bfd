SPECIFICATION Spec
CONSTANTS
    Device = {1, 2}
    Value = {"note", "page"}
    Image = {}
    Large = {}
    Split = {}
    Unreadable = {}
    Copies <- MCText
    Wall <- MCWall
    LogicalMax = 20
    SeenCapacity = 10
    NoEvent = NoEvent
    Nothing = Nothing
    DebugAssertions = FALSE
    MaxCopies = 2
    MaxSessions = 1
    MaxFaults = 0
INVARIANTS
    QuiescentConvergence
CHECK_DEADLOCK FALSE
