SPECIFICATION FairSpec
CONSTANTS
    None = None
    n1 = n1
    n2 = n2
    Nodes <- TwoNodes
    FirstNodes = {}
    Externals = {FALSE, TRUE}
    MaxApprovals = 2
    MaxFaults = 1
    MaxFlips = 1
    MaxSwaps = 1
INVARIANT TypeOK
INVARIANT OneFormatPerApproval
PROPERTY FormatOnEvidence
PROPERTY StatusConverges
