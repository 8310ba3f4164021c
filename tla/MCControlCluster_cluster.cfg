\* Four nodes, two crashes and one manual change.
SPECIFICATION FairClusterSpec
CONSTANTS
    Nodes = {a, b, c, d}
    Founder = a
    MaxVoters = 3
    MaxCrashes = 2
    MaxAdmin = 1
    None = None
INVARIANTS
    SentinelIsMember
PROPERTY MembersServe
CHECK_DEADLOCK FALSE
