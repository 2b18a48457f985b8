\* Two chains, three manifests, two identities taken by other batteries.
SPECIFICATION Spec
CONSTANTS
    Chain = {1, 2}
    Manifest <- Manifests
    Foreign <- Launchers
    Neighbour <- OnBus
    None = None
INVARIANTS
    LinkedIsComplete
    StartableIsOwned
    ActivationResumable
    SupervisedKeepsFiles
PROPERTIES
    FailedApplyRestores
