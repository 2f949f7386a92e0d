SPECIFICATION Spec
CONSTANTS
    Machines = {m1, m2}
    ControlPlane = {m1, m2}
    PublicIP = {m1}
    UnsetPublicIP = {}
    HasPrivateNetwork = TRUE
    Volumes = {v1}
    PubAddrs = {a1, a2}
    PrivAddrs = {p1}
    None = None
    InitiallyPaused = TRUE
    Resync = TRUE
    MaxFaults = 2
INVARIANTS
    TypeOK
    BootstrapBeforeBoot
    ReachableBeforeBoot
    BackendsAreAlive
    FinalizerGuardsServer
    NoTraceInLoadBalancer
    OneIPPerMachine
    NoDataVolumeLost
    ReadyMeansStarted
