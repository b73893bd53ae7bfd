SPECIFICATION Spec
CONSTANTS
    new = new
    old = old
    listener = listener
    None = None
    Devices <- MCDevices
    Listener = listener
    PairedBefore <- MCPairedBefore
    MaxHandshakes = 1
    MaxEvents = 1
    MaxChanges = 1
PROPERTIES
    RevokedReceivesNothing
CHECK_DEADLOCK FALSE
