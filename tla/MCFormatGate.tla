---------------------------- MODULE MCFormatGate ----------------------------
(* Instances of FormatGate for TLC. *)
EXTENDS FormatGate

CONSTANTS n1, n2

TwoNodes == {n1, n2}
=============================================================================
