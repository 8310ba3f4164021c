SPECIFICATION FairGcSpec
CONSTANTS
    v1 = v1
    a = a
    b = b
    Nodes = {n1, n2}
    IdContains = {}
    MaxDeletes = 1
    MaxFaults = 1
    Volumes = {v1}
    Snapshots = {s1}
    Ssts = {a}
    Hypervisors = {h1}
    VMs = {m1}
    Zones = {}
    Projects = {p1}
    Org = org
    Names = {n}
    Types = {"Data"}
    Sizes = {1}
    WalPositions = {1, 2}
    Times = {0}
    VmGenerations = {1}
    None = none
    MaxGeneration = 2
    MaxVersion = 0
    MaxLives = 1
    Quotas <- MCNoQuotas
    Origin <- MCOrigin
PROPERTIES
    CompletedIsGone
    PendingIsCollected
