SPECIFICATION FairSpec
CONSTANTS
    Machines = {m1}
    ControlPlane = {m1}
    PublicIP = {}
    UnsetPublicIP = {}
    HasPrivateNetwork = TRUE
    Volumes = {}
    PubAddrs = {}
    PrivAddrs = {p1}
    None = None
    InitiallyPaused = FALSE
    Resync = TRUE
    MaxFaults = 1
PROPERTY DeletionCompletes
