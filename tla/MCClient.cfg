SPECIFICATION ClientSpec
CONSTANTS
    p1 = p1
    p2 = p2
    r1 = r1
    r2 = r2
    None = None
    Absent = Absent
    Nothing = Nothing
    Torn = Torn
    Pages = {p1, p2}
    MaxGeneration = 1
    MaxLogin = 2
    MaxToken = 2
    MaxChain = 1
    Retains = TRUE
    Faults = TRUE
INVARIANTS
    TypeOK
    NothingOutlivesLogout
    NoStaleSession
    SavedSession
    NoTokenRespent
    StoreSweepsOrphans
    DownloadsKept
    SessionsApart
PROPERTY
    OutboxOwed
    SurfaceReturns
SYMMETRY Symmetry
CHECK_DEADLOCK FALSE
