----------------------------- MODULE MCDaosPool -----------------------------
(* Instances of DaosPool for TLC. *)
EXTENDS DaosPool

\* Both properties pinned and edits between operations; none pinned and humans
\* at any time.
BothWays == {[pinned |-> Props, patient |-> TRUE], [pinned |-> {}, patient |-> FALSE]}

Plain == {[pinned |-> {}, patient |-> TRUE]}
=============================================================================
