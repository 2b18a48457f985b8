\* Hangs of the lock and of D-Bus, errors, SIGTERM and restarts.
SPECIFICATION FairSpec
CONSTANTS
    CallTimeout = 2
    Threshold = 3
    Cooldown = 3
    ClockSteps = 2
INVARIANTS
    TypeOK
    NoStrayAlarm
PROPERTIES
    FailureWithdraws
    ProbesAreSpaced
    FirstHangInterrupted
    BreakerRecovers
