SPECIFICATION Spec
CONSTANTS
    Machines = {m1}
    ControlPlane = {}
    PublicIP = {}
    UnsetPublicIP = {}
    HasPrivateNetwork = TRUE
    Volumes = {}
    PubAddrs = {}
    PrivAddrs = {p1}
    None = None
    InitiallyPaused = FALSE
    Resync = FALSE
    MaxFaults = 1
CHECK_DEADLOCK FALSE
INVARIANT BootVolumeDeleted
