SPECIFICATION LiveSpec
CONSTANTS
    p1 = p1
    p2 = p2
    None = None
    Pages = {p1, p2}
    MaxGeneration = 1
    MaxLogin = 1
    MaxToken = 1
    MaxChain = 1
    Retains = FALSE
    Faults = TRUE
PROPERTY
    OwnersLetGo
