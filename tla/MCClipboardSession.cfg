SPECIFICATION Spec
CONSTANTS
    Device = {1, 2}
    Value = {"photo", "note", "page", "files"}
    Image = {"photo"}
    Large = {"photo"}
    Split = {"page"}
    Unreadable = {"files"}
    Copies <- MCCopies
    Wall <- MCWall
    LogicalMax = 20
    SeenCapacity = 10
    NoEvent = NoEvent
    Nothing = Nothing
    DebugAssertions = TRUE
    MaxCopies = 2
    MaxSessions = 2
    MaxFaults = 1
INVARIANTS
    AckedIsDurable
    OfferedBlobIsServable
    QuiescentConvergence
PROPERTIES
    NoEcho
    OfferAnswered
CHECK_DEADLOCK FALSE
