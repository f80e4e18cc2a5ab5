SPECIFICATION FairSpec
CONSTANTS
    None = None
    n1 = n1
    n2 = n2
    Nodes <- TwoNodes
    Images <- MCImages
    FirstImage = "old"
    Unlisted <- SecondNode
    Timeout = 0
    MaxApprovals = 1
    MaxEdits = 1
    MaxFaults = 1
    MaxUpsets = 1
    MaxTroubles = 2
INVARIANT OneRunPerApproval
INVARIANT PreviousKept
PROPERTY ApprovalHonoured
PROPERTY SwapWhileDown
PROPERTY CompletedMeansJoined
PROPERTY RunEnds
