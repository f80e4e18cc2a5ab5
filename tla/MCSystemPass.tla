---------------------------- MODULE MCSystemPass ----------------------------
(* SystemPass for TLC: two nodes. *)
EXTENDS SystemPass

CONSTANTS n1, n2

TwoNodes == {n1, n2}
=============================================================================
