\* Two BMS in one chain: all-or-nothing frames and the abstract receiver, for
\* the fixed series inventory and for an explicit topology.
SPECIFICATION Spec
SYMMETRY BootNames
CONSTANTS
    Core = {"volt"}
    Temps = {"t1", "t2"}
    FirstTemp = "t1"
    Extra = {}
    Perm = {"charging"}
    Stale = 2
    Slot = {"b1", "b2"}
    Rows <- PairRows
    Deployments <- ChainDeployments
    Total = {}
    MaxRetired = 1
    Boot = {n1, n2}
    NoBoot = NoBoot
    MaxSeq = 1
    MaxDelay = 0
INVARIANTS
    TopologyNeverMerges
PROPERTIES
    ImplementsEvidence
