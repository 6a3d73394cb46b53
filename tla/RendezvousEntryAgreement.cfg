CONSTANTS
    c1 = c1
    c2 = c2
    c3 = c3
    c4 = c4
    c5 = c5
    c6 = c6
    e1 = e1
    e2 = e2
    None = None
    Client <- Clients2
    Entry <- Entries
    Solo <- MCSolo
    Offers <- BothOffers
    Composite <- NoEntry
    MayStall <- NoClient
    Crashing = {}
    Many = {}
    One = {c1, c2}
    MaxRound = 4
SPECIFICATION SpecReliable
INVARIANT EntryAgreement
CHECK_DEADLOCK FALSE
