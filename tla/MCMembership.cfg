SPECIFICATION MembershipSpec
CONSTANTS
    d1 = d1
    d2 = d2
    d3 = d3
    r1 = r1
    r2 = r2
    r3 = r3
    Devices = {d1, d2, d3}
    Founders = {d1, d2}
    MaxOps = 2
    MaxCommits = 2
    MaxRevoked = 1
    OneAtATime = FALSE
    OwnApplies = TRUE
    Calm = FALSE
    None = None
INVARIANTS
    TypeOK
    NoFork
    RekeyInv
    OwnCommitKept
    NobodyStranded
    JoinedKeep
    GroupsTaken
    HistoryArrives
    ResumesAsSent
SYMMETRY Symmetry
CHECK_DEADLOCK FALSE
