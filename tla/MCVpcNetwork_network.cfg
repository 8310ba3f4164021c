\* CHECK_DEADLOCK is off because the bounds on ids are used up in the end.
SPECIFICATION NetworkSpec
CONSTANTS
    v1 = v1
    v2 = v2
    OrgNames = {1}
    ProjectNames = {"p"}
    EnvNames = {"e"}
    VpcNames = {v1, v2}
    VpcCidrs <- MCSlash23s
    None = none
    MaxOrgs = 1
    MaxProjects = 1
    MaxEnvs = 1
    MaxVpcs = 2
    SubnetNames = {s, u}
    SubnetCidrs <- MCUpperHalf
    GroupNames = {"web"}
    TableNames = {"t"}
    GatewayNames = {"g"}
    RuleBodies = {"ssh"}
    Destinations <- MCUpperHalf
    VMs = {"m"}
    DefaultOwner <- MCDefaultOwner
    DefaultCidr <- MCSlash23
    MaxSubnets = 2
    MaxMade = 2
SYMMETRY SubnetSymmetry
CHECK_DEADLOCK FALSE
INVARIANTS
    SubnetsDisjoint
    SubnetsRouted
    AssociationsResolve
    
