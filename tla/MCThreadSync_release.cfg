SPECIFICATION Spec
CONSTANTS
    t1 = t1
    t2 = t2
    Calls = {t1, t2}
    PageSize = 2
    MaxSends = 1
    MaxPeer = 1
    Overlap = FALSE
    Release = TRUE
    Faults = FALSE
    Gone = Gone
INVARIANTS
    IdentitySurvives
