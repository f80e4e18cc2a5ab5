SPECIFICATION FairSpec
CONSTANTS
    None = None
    MaxChanges = 1
    Settings <- Cases
INVARIANT TypeOK
INVARIANT HealedIsIntact
PROPERTY HealAfterRefusal
PROPERTY OwnsItsContainer
PROPERTY Settles
CHECK_DEADLOCK FALSE
