---------------------------- MODULE MCNodeConfig ----------------------------
(* NodeConfig for TLC: three nodes and how their drives are shared. *)
EXTENDS NodeConfig

Distinct == << <<"a">>, <<"b">>, <<"c">> >>

\* The second drive of node 1 is the drive of node 3; node 2 has its own.
OneThree == << <<"a", "x">>, <<"b">>, <<"x">> >>
=============================================================================
