\* Three runs one at a time with three things going wrong; two of two runs at
\* once with two, or of three with none; three commits.
SPECIFICATION Spec
CHECK_DEADLOCK FALSE
CONSTANTS
    Settings <- MCSettings
    MaxRuns = 3
    MaxHead = 3
    BaseOf <- MCBaseOf
    TreeOf <- MCTreeOf
    NumberFloor = 0
    Requests = {"rc", "stable"}
    None = None
INVARIANTS
    NumbersNeverReused
    PublicationOrder
    PublishedIsWhole
    StableIsAcceptedRc
