SPECIFICATION PagesSpec
CONSTANTS
    p1 = p1
    p2 = p2
    None = None
    Pages = {p1}
    MaxGeneration = 1
    MaxLogin = 2
    MaxToken = 3
    MaxChain = 1
    Retains = TRUE
    Faults = FALSE
PROPERTY
    LogoutRemoves
