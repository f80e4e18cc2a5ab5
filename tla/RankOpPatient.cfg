SPECIFICATION FairSpec
CONSTANTS
    None = None
    r1 = r1  n1 = n1  kv = kv
    Ranks <- OneRank
    Nodes <- OneNode
    NodeOf <- OneNodeOf
    Pools = {}
    KVCache = {}
    PoolRanks <- NoPoolRanks
    Redundant = {}
    AcceptsLoss = {}
    External = FALSE
    MaxRequests = 2
    MaxFaults = 1
    Asked = {"drain", "exclude", "reintegrate", "clear-exclude", "bogus"}
    Manner = "patient"
    Flaps = TRUE
    Drift = FALSE
INVARIANT OkMeansRan
INVARIANT UnansweredNeedsFault
PROPERTY RequestLeaves
