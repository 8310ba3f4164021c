SPECIFICATION Spec
CONSTANTS
    Volumes = {v1}
    Snapshots = {}
    Ssts = {}
    Hypervisors = {h1, h2}
    VMs = {m1}
    Zones = {z1, z2}
    Projects = {p1}
    Org = org
    Names = {n1}
    Types = {"Root", "Data"}
    Sizes = {1}
    WalPositions = {}
    Times = {0}
    VmGenerations = {1}
    None = none
    MaxGeneration = 3
    MaxVersion = 2
    MaxLives = 2
    Quotas <- MCNoQuotas
SYMMETRY Symmetry
INVARIANTS
    TypeOK
    OneWriterPerGeneration
    ManifestFenced
    PlacementConsistent
PROPERTIES
    NewAssigneeIsNewer
    ImplementsPlacement
