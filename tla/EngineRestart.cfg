SPECIFICATION FairSpec
CONSTANTS
    None = None
    n1 = n1
    n2 = n2
    Ranks <- TwoRanks
    Nodes <- TwoNodes
    NodeOf <- OtherNode
    MaxTries = 2
    MaxEvents = 2
    MaxFaults = 1
INVARIANT TypeOK
INVARIANT StartsBounded
PROPERTY PodDeletedAfterItsStart
PROPERTY GivesUpInTheEnd
