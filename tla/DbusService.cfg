\* Two BMS, either of which may be lost; limits 0..2; at most one time unit
\* between two steps of the poll.
SPECIFICATION Spec
CONSTANTS
    Slot = {b1, b2}
    Stale = 2
    MaxLimit = 2
    Rate = 1
    PollGap = 1
    Failures = TRUE
SYMMETRY Interchangeable
INVARIANTS
    FailClosedInTime
    PermissionMatchesLimit
    InitializingAdvertisesNothing
PROPERTIES
    PartialNeverRelaxes
    RampWhileConnected
