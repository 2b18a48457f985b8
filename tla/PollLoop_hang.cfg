\* A hang that outlasts the one alarm of a call.
SPECIFICATION FairSpec
CONSTANTS
    CallTimeout = 2
    Threshold = 2
    Cooldown = 2
    ClockSteps = 0
PROPERTIES
    HungCallBounded
