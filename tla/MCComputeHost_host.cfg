\* Two VMs on a host of two units, one delete request at a time, three events.
SPECIFICATION FairHostSpec
CONSTANTS
    Vms = {v, w}
    Deletes = {d}
    Total = 2
    MaxEvents = 3
    None = None
INVARIANTS
    RegisteredKeepsResources
    StoppedIsDead
PROPERTIES
    CrashNoticed
    RunningIsAdopted
CHECK_DEADLOCK FALSE
