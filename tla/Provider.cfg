SPECIFICATION FairSpec
CONSTANTS
    Machines = {m1}
    ControlPlane = {m1}
    PublicIP = {m1}
    PubAddrs = {a1}
    PrivAddrs = {p1}
    Configs <- ManagedNetwork
    Zones = {z1}
    FirstZone = z1
    Ranges = {r1}
    GwAddrs = {}
    None = None
    MaxFaults = 1
INVARIANTS
    NodesReachAPI
    NothingOutlivesCluster
PROPERTIES
    EventuallyServing
    MachineDeletionCompletes
    TeardownCompletes
