\* Two requests for two VMs on two hypervisors, no fault.
SPECIFICATION ProvisionSpec
CONSTANTS
    Nodes = {a, b}
    Requests = {r, s}
    Networked = {r, s}
    Names = {v, w}
    Addrs = {3}
    Total = 1
    MaxEvents = 0
    None = None
    Absent = Absent
INVARIANT NoDuplicateIps
CHECK_DEADLOCK FALSE
