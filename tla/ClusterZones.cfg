SPECIFICATION Spec
CONSTANTS
    Configs <- PinnedLB
    Zones = {z1, z2}
    FirstZone = z1
    Ranges = {r1}
    SGNames = {g1}
    GwAddrs = {a1}
    None = None
    InitiallyPaused = FALSE
    Resync = FALSE
    MaxFaults = 1
    MaxEdits = 2
CHECK_DEADLOCK FALSE
INVARIANT OneLoadBalancer
PROPERTY EndpointStable
