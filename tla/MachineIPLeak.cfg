SPECIFICATION Spec
CONSTANTS
    Machines = {m1}
    ControlPlane = {}
    PublicIP = {m1}
    UnsetPublicIP = {}
    HasPrivateNetwork = TRUE
    Volumes = {}
    PubAddrs = {a1}
    PrivAddrs = {p1}
    None = None
    InitiallyPaused = FALSE
    Resync = FALSE
    MaxFaults = 1
CHECK_DEADLOCK FALSE
INVARIANT FlexibleIPDeleted
