SPECIFICATION FairSpec
CONSTANTS
    None = None
    Invalid = Invalid
    Uint32 = 8
    AddressBits = 2
    Names = {"a", "b"}
    Zones <- MCZones
    InMachines <- MCInMachines
    Submissions <- MCSubmissions
    HandMade <- MCHandMade
    Webhooks = {TRUE, FALSE}
    MaxEdits = 1
    MaxFaults = 1
INVARIANTS
    TypeOK
    DoneMeansEnforced
    AdmittedIsConvertible
    NoTwins
    NoNeedlessRewrite
    StopsAsAbstracted
PROPERTY Converges
CHECK_DEADLOCK FALSE
