CONSTANTS
    c1 = c1
    c2 = c2
    c3 = c3
    c4 = c4
    c5 = c5
    c6 = c6
    e1 = e1
    e2 = e2
    None = None
    Client <- Clients2
    Entry <- Entries
    Solo <- SameSolo
    Offers <- BothOffers
    Composite <- NoEntry
    MayStall <- NoClient
    Crashing = {}
    Many = {}
    One = {c1, c2}
    MaxRound = 2
SPECIFICATION SpecNoExit
PROPERTY StagedUpdateReturns
CHECK_DEADLOCK FALSE
