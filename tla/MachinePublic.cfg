SPECIFICATION Spec
CONSTANTS
    Machines = {m1, m2}
    ControlPlane = {m1}
    PublicIP = {m1, m2}
    UnsetPublicIP = {}
    HasPrivateNetwork = FALSE
    Volumes = {}
    PubAddrs = {a1}
    PrivAddrs = {}
    None = None
    InitiallyPaused = FALSE
    Resync = FALSE
    MaxFaults = 1
CHECK_DEADLOCK FALSE
INVARIANTS
    BackendsAreAlive
    ACLsAreAlive
PROPERTY ImplementsGuardedResource
