\* Two requests, lost writes and one administrative command.
SPECIFICATION FairProvisionSpec
CONSTANTS
    Nodes = {a, b}
    Requests = {r, s}
    Networked = {r}
    Names = {v}
    Addrs = {3}
    Total = 1
    MaxEvents = 1
    None = None
    Absent = Absent
PROPERTIES
    IntentSettles
    
    CapacityConverges
CHECK_DEADLOCK FALSE
