SPECIFICATION FairSpec
CONSTANTS
    Configs <- ExistingNetwork
    Zones = {z1}
    FirstZone = z1
    Ranges = {r1}
    SGNames = {g1}
    GwAddrs = {a1}
    None = None
    InitiallyPaused = FALSE
    Resync = FALSE
    MaxFaults = 0
    MaxEdits = 0
CHECK_DEADLOCK FALSE
PROPERTY ExistingNetworkIsUsable
