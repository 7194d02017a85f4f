SPECIFICATION FocusSpec
CONSTANTS
    i1 = i1
    w1 = w1
    w2 = w2
    c1 = c1
    c2 = c2
    k1 = k1
    k2 = k2
    e1 = e1
    e2 = e2
    e3 = e3
    None = None
    NoDirectory = NoDirectory
    NoStatement = NoStatement
    Ids = {i1}
    MaxItems = 1
    Faults = TRUE
    Witnesses = {w1, w2}
    Clients = {c1, c2}
    Observers = {c1, c2}
    Identities = {k1, k2}
    Entries = {e1, e2, e3}
    Directories <- ShownDirectories
    Threshold = 2
    MaxAttempts = 2
    MaxFetches = 2
    Times = {1, 2}
    MaxObserved = 3
INVARIANTS
    TypeOK
    ToldOfEvents
    ClientsAgree
    AcceptedIsFresh
    EvidenceKept
PROPERTY
    Settles
CHECK_DEADLOCK FALSE
