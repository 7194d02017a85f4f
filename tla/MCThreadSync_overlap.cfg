SPECIFICATION Spec
CONSTANTS
    t1 = t1
    t2 = t2
    Calls = {t1, t2}
    PageSize = 2
    MaxSends = 1
    MaxPeer = 2
    Overlap = TRUE
    Release = FALSE
    Faults = FALSE
    Gone = Gone
INVARIANTS
    AppendsExtend
