----------------------------- MODULE MCFullStop -----------------------------
(* FullStop for TLC: two nodes and two images. *)
EXTENDS FullStop

CONSTANTS n1, n2

TwoNodes == {n1, n2}
SecondNode == {n2}
MCImages == {"old", "new"}
=============================================================================
