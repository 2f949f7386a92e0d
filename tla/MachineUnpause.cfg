SPECIFICATION FairSpec
CONSTANTS
    Machines = {m1, m2}
    ControlPlane = {m2}
    PublicIP = {m1}
    UnsetPublicIP = {m2}
    HasPrivateNetwork = FALSE
    Volumes = {}
    PubAddrs = {a1}
    PrivAddrs = {}
    None = None
    InitiallyPaused = TRUE
    Resync = TRUE
    MaxFaults = 0
INVARIANT IPsAreAttached
PROPERTIES
    EventuallyReady
    DeletionCompletes
