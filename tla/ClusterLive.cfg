SPECIFICATION FairSpec
CONSTANTS
    Configs <- Usable
    Zones = {z1}
    FirstZone = z1
    Ranges = {r1}
    SGNames = {g1}
    GwAddrs = {a1}
    None = None
    InitiallyPaused = FALSE
    Resync = FALSE
    MaxFaults = 1
    MaxEdits = 1
CHECK_DEADLOCK FALSE
PROPERTIES
    EventuallyReady
    ACLsFollowSpec
    DeletionCompletes
