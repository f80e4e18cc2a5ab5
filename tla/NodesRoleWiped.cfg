SPECIFICATION Spec
CONSTANTS
    None = None
    NumNodes = 3
    Dsn <- Distinct
    MsReplicas = 3
    SpecBdevs = FALSE
    First = {1, 2, 3}
    MaxJoins = 0
    MaxLeaves = 1
    MaxLosses = 0
    MaxFaults = 0
    MaxEdits = 0
    MaxTroubles = 1
INVARIANT RecordedKeepRole
