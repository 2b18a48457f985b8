\* One BMS: boots, replays, late frames and partial masks; and the
\* per-topic messages of old firmware until the first atomic frame arrives.
SPECIFICATION Spec
SYMMETRY BootNames
CONSTANTS
    Core = {"volt"}
    Temps = {"t1"}
    FirstTemp = "t1"
    Extra = {}
    Perm = {"charging"}
    Stale = 2
    Slot = {"b1"}
    Rows <- DetailRows
    Deployments <- SeriesDeployments
    Total = {"soc"}
    MaxRetired = 1
    Boot = {n1, n2, n3}
    NoBoot = NoBoot
    MaxSeq = 1
    MaxDelay = 1
INVARIANTS
    TypeOK
    EvidenceIsReal
    LiveSessionAdmitted
    AllOrNothing
    LegacyNeedsConnection
PROPERTIES
    SessionsNeverReturn
    HeldNeverRenewed
    OnlyCompleteGrants
