SPECIFICATION FairSpec
CONSTANTS
    d1 = d1
    d2 = d2
    d3 = d3
    Devices = {d1, d2, d3}
    Founders = {d1, d2}
    MaxOps = 2
    MaxCommits = 2
    MaxRevoked = 1
    OneAtATime = TRUE
    OwnApplies = FALSE
    Calm = TRUE
    None = None
INVARIANTS
    CommittedFits
PROPERTY
    Converges
