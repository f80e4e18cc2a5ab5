SPECIFICATION Spec
CONSTANTS
    None = None
    r1 = r1  n1 = n1  kv = kv
    Ranks <- OneRank
    Nodes <- OneNode
    NodeOf <- OneNodeOf
    Pools <- OneKVCache
    KVCache <- OneKVCache
    PoolRanks <- KVCacheRanks
    Redundant = {}
    AcceptsLoss = {}
    External = FALSE
    MaxRequests = 2
    MaxFaults = 1
    Asked = {"exclude", "reintegrate"}
    Manner = "hasty"
    Flaps = FALSE
    Drift = TRUE
INVARIANT TypeOK
INVARIANT ResendNeedsFault
INVARIANT NoUnacceptedLoss
