SPECIFICATION Spec
CONSTANTS
    Device = {1, 2}
    Id = {1, 2}
    Wall = {1, 2}
    LogicalMax = 3
    SeenCapacity = 1
    Retention = 0
    MaxRestarts = 1
    NoEvent = NoEvent
INVARIANTS
    SeenIsBoundedHistory
    CurrentIsNewestProcessed
    Convergence
PROPERTIES
    LocalCopiesSucceedProcessed
    AppliesOnce
    PendingUntilAcknowledged
