CONSTANTS
    c1 = c1
    c2 = c2
    c3 = c3
    c4 = c4
    c5 = c5
    c6 = c6
    e1 = e1
    e2 = e2
    None = None
    Client <- Everybody
    Entry <- Entries
    Solo <- RoundsSolo
    Offers <- RoundsOffers
    Composite <- Entries
    MayStall = {c4, c5}
    Crashing = {c4, c5}
    Many = {c1, c2, c3}
    One = {c1, c2, c6}
    MaxRound = 4
SPECIFICATION SpecRounds
INVARIANTS TypeOK OneCommitter StagedIsCurrent NoBackwardRound OneProposerAgrees OneProposerClean
PROPERTIES CommitIsStaged ImplementsSharedStack EveryParticipantAcked
CHECK_DEADLOCK FALSE
