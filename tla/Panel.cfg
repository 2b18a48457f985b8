\* Every way to start, then a panel of two or three packs of one to three cells.
SPECIFICATION Spec
CHECK_DEADLOCK FALSE
CONSTANTS
    Malformed = Malformed
    NoFile = NoFile
    NoChain = NoChain
    None = None
    Arguments <- MCArguments
    Files <- MCFiles
    Manifests <- MCManifests
    Snapshots <- MCSnapshots
    Thresholds <- MCThresholds
    MaxReading = 3
    MaxFaults = 1
INVARIANTS
    ManifestIsAuthoritative
    LocalOnlyStaysLocal
    CellPathsNamed
    TemperatureIdsUnambiguous
    AlarmsFollowReadings
PROPERTIES
    SettlesOnEvidence
