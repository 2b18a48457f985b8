\* A recovery rate below one published step per poll.
SPECIFICATION FairSpec
CONSTANTS
    Profile <- Slow
    Explicit = TRUE
    Quantum = 100
    Readings <- Few
    Polls <- Mixed
    NoData = NoData
PROPERTIES
    LimitRecovers
