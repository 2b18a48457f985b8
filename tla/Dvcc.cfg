\* The default profile, configured explicitly: all curves, ramp, hold and recovery.
SPECIFICATION FairSpec
CONSTANTS
    Profile <- Default
    Explicit = TRUE
    Quantum = 100
    Readings <- Sweep
    Polls <- Paced
    NoData = NoData
INVARIANTS
    WithinEveryCeiling
    StopsAtOnce
PROPERTIES
    WorseNeverAllowsMore
    LimitRecovers
