SPECIFICATION Spec
CONSTANTS
    None = None
    MaxEdits = 1
    MaxTroubles = 1
    Settings <- Plain
    Deletes = FALSE
PROPERTY FailedNotRetried
