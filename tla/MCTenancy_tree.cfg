\* CHECK_DEADLOCK is off because the bounds on ids are used up in the end.
SPECIFICATION TenancySpec
CONSTANTS
    OrgNames = {1, 2}
    ProjectNames = {p}
    EnvNames = {e}
    VpcNames = {a, b}
    VpcCidrs <- MCVpcCidrs
    None = none
    MaxOrgs = 2
    MaxProjects = 2
    MaxEnvs = 2
    MaxVpcs = 2
SYMMETRY VpcSymmetry
CHECK_DEADLOCK FALSE
INVARIANTS
    ParentsExist
    NamesResolve
    PeeringsConnect

    
