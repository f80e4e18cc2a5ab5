-------------------------- MODULE MCEngineRestart --------------------------
(* EngineRestart for TLC: two engines, each on a node of its own. *)
EXTENDS EngineRestart, TLC

CONSTANTS n1, n2

TwoRanks == {1, 2}
TwoNodes == {n1, n2}
OtherNode == 1 :> n1 @@ 2 :> n2
=============================================================================
