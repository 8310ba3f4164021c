SPECIFICATION Spec
CONSTANTS
    Volumes = {v1, v2}
    Snapshots = {s1, s2}
    Ssts = {a, b}
    Hypervisors = {}
    VMs = {}
    Zones = {}
    Projects = {p1}
    Org = org
    Names = {n1, n2}
    Types = {"Data"}
    Sizes = {1, 2}
    WalPositions = {1}
    Times = {0}
    VmGenerations = {1}
    None = none
    MaxGeneration = 0
    MaxVersion = 0
    MaxLives = 1
    Quotas <- MCQuotas
SYMMETRY Symmetry
INVARIANTS
    
    NamesUnique
PROPERTIES
    RestoreBlocksDelete
    QuotaRespected
