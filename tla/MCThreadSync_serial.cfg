SPECIFICATION FairSpec
CONSTANTS
    t1 = t1
    t2 = t2
    Calls = {t1}
    PageSize = 2
    MaxSends = 2
    MaxPeer = 3
    Overlap = FALSE
    Release = FALSE
    Faults = TRUE
    Gone = Gone
INVARIANTS
    TypeOK
    FreshGenerations
    PeerKept
    OwnKept
    AppendsExtend
PROPERTY
    HistoryGrows
    PeerDelivered
