SPECIFICATION FairSpec
CONSTANTS
    None = None
    v1 = v1
    v2 = v2
    Images <- TwoImages
    MaxReplicas = 2
    MaxEdits = 2
    MaxTroubles = 1
INVARIANT OneList
PROPERTY GatewayConverges
CHECK_DEADLOCK FALSE
