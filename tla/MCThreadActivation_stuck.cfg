SPECIFICATION Spec
CONSTANTS
    d1 = d1
    d2 = d2
    None = None
    Devices = {d1, d2}
    MaxGroups = 3
    MaxExpiries = 1
INVARIANT
    Recoverable
SYMMETRY Symmetry
CHECK_DEADLOCK FALSE
