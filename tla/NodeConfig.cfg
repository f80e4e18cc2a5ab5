SPECIFICATION FairSpec
CONSTANTS
    None = None
    NumNodes = 3
    Dsn <- OneThree
    MsReplicas = 1
    SpecBdevs = FALSE
    First = {2, 3}
    MaxJoins = 1
    MaxLeaves = 1
    MaxLosses = 1
    MaxFaults = 1
    MaxEdits = 2
    MaxTroubles = 2
INVARIANT TypeOK
INVARIANT OneSystem
INVARIANT NoSharedDrive
INVARIANT RoleKept
PROPERTY ConfigsAgree
