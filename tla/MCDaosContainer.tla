-------------------------- MODULE MCDaosContainer --------------------------
(* Instances of DaosContainer for TLC. *)
EXTENDS DaosContainer

\* Pools that opted in, with either mode; the same with slow queries and no faults;
\* and a pool that did not opt in, where objects are deleted.
Cases ==
    [mode : Modes, optin : {TRUE}, slow : {FALSE}, deletes : {FALSE}, maxFaults : {1}]
      \cup [mode : {"incremental"}, optin : {TRUE}, slow : {TRUE}, deletes : {FALSE}, maxFaults : {0}]
      \cup [mode : {"incremental"}, optin : {FALSE}, slow : {FALSE}, deletes : {TRUE}, maxFaults : {1}]
=============================================================================
