SPECIFICATION Spec
CONSTANTS
    Configs <- Various
    Zones = {z1}
    FirstZone = z1
    Ranges = {r1}
    SGNames = {g1}
    GwAddrs = {a1, a2}
    None = None
    InitiallyPaused = TRUE
    Resync = TRUE
    MaxFaults = 2
    MaxEdits = 1
CHECK_DEADLOCK FALSE
INVARIANTS
    TypeOK
    ReadyMeansServing
    FinalizerGuardsResources
    UserIPsKept
    OneGatewayIP
PROPERTIES
    DenyInstalledLast
    ImplementsGuardedResource
