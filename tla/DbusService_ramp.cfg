\* Recovery from STALE, with no update failing.
SPECIFICATION Spec
CONSTANTS
    Slot = {"b1"}
    Stale = 2
    MaxLimit = 2
    Rate = 1
    PollGap = 1
    Failures = FALSE
PROPERTY EveryIncreaseRamped
