SPECIFICATION FairSpec
CONSTANTS
    Volumes = {v1}
    Hypervisors = {h1, h2}
    VMs = {m1}
    None = none
    Wired = TRUE
    MaxGeneration = 3
    MaxLives = 1
    MaxLog = 4
    MaxFaults = 1
INVARIANTS
    TypeOK
    OneWriterPerPrefix
    ServesWhatWasGranted
PROPERTIES
    BoundIsServed
    LoserStops
