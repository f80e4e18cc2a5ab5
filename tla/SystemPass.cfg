SPECIFICATION FairSpec
CONSTANTS
    None = None
    n1 = n1
    n2 = n2
    Nodes <- TwoNodes
    MaxApprovals = 1
    MaxEvents = 2
INVARIANT TypeOK
PROPERTY RestartUndisturbed
PROPERTY SwapsWhileDown
PROPERTY ConditionsConverge
