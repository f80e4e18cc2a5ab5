SPECIFICATION FairSpec
CONSTANTS
    None = None
    MaxEdits = 1
    MaxTroubles = 2
    Settings <- BothWays
    Deletes = TRUE
INVARIANT TypeOK
INVARIANT AppliedIsWritten
PROPERTY OwnsItsPool
PROPERTY Settles
CHECK_DEADLOCK FALSE
