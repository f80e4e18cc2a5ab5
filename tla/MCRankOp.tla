------------------------------ MODULE MCRankOp ------------------------------
(* One rank on one node, with a kvcache pool on it or with no pool at all. *)
EXTENDS RankOp, TLC

CONSTANTS r1, n1, kv

OneRank == {r1}
OneNode == {n1}
OneNodeOf == r1 :> n1
OneKVCache == {kv}
KVCacheRanks == kv :> {r1}
NoPoolRanks == [p \in {} |-> {}]
=============================================================================
