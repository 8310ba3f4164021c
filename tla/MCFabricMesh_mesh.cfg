SPECIFICATION FairMeshSpec
CONSTANTS
    a = a
    b = b
    c = c
    Nodes <- MCNodes
    Keys <- MCKeys
    Members <- MCMembers
    MaxPending = 1
    MaxPeers = 2
    MaxVersion = 1
    MaxEvents = 1
    None = none
CHECK_DEADLOCK FALSE
PROPERTIES
    
    
    GonePeersFade
