\* A channel of one event, so that the receiver can lag.
SPECIFICATION FairOverlaySpec
CONSTANTS
    LocalVms = {v1, v2}
    RemoteVms = {r}
    Local = here
    Others = {h1, h2}
    ChannelLen = 1
    MaxPlacements = 4
    MaxChanges = 2
    Absent = Absent
PROPERTIES
    
    BridgeReturns
    
CHECK_DEADLOCK FALSE
