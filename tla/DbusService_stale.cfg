\* Loss of telemetry after a complete snapshot, with no update failing.
SPECIFICATION Spec
CONSTANTS
    Slot = {"b1"}
    Stale = 2
    MaxLimit = 1
    Rate = 1
    PollGap = 1
    Failures = FALSE
INVARIANT StaleShowsNothing
