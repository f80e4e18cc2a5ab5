----------------------------- MODULE OwnedData -----------------------------
(***************************************************************************)
(* What a DaosPool and a DaosContainer promise of the data behind them,    *)
(* whatever Jobs, queries, statuses and finalizers it takes.               *)
(*                                                                         *)
(* The data is made once: a second, empty copy under the same name needs a *)
(* doubt about the outcome of a creation.  The operator destroys it only   *)
(* on request.  The object does not go before data whose destruction it    *)
(* owes, and a deletion ends.  DaosPool and DaosContainer are shown to     *)
(* implement this specification.                                           *)
(***************************************************************************)
EXTENDS Naturals

VARIABLES
    object,         \* "live", "deleting" or "gone"
    data, made,     \* identity of the data, 0 for none; how many were made so far
    doubts,         \* creations whose outcome the operator may not have learnt
    asked,          \* somebody has asked for the destruction
    others,         \* changes whenever somebody else may have touched the data
    owed, blocked   \* inputs: the destruction is owed; the operator cannot act

vars == <<object, data, made, doubts, asked, others>>

Init ==
    /\ object = "live" /\ data = 0 /\ made = 0 /\ doubts = 0 /\ asked = FALSE

Make ==
    /\ data = 0 /\ made <= doubts
    /\ data' = made + 1 /\ made' = made + 1
    /\ UNCHANGED <<object, doubts, asked, others>>

Doubt ==
    /\ doubts' = doubts + 1
    /\ UNCHANGED <<object, data, made, asked, others>>

Destroy ==
    /\ asked /\ data' = 0
    /\ UNCHANGED <<object, made, doubts, asked, others>>

\* What somebody else does may also take away the answer to a creation.
SomeoneElse ==
    /\ others' # others /\ data' \in {data, 0} /\ doubts' \in {doubts, doubts + 1}
    /\ UNCHANGED <<object, made, asked>>

\* An object that never had data may go at once.
Delete ==
    /\ object = "live" /\ object' \in {"deleting", "gone"}
    /\ object' = "gone" => made = 0
    /\ asked' \in {asked, TRUE}
    /\ UNCHANGED <<data, made, doubts, others>>

Ask ==
    /\ object = "deleting" /\ asked' = TRUE
    /\ UNCHANGED <<object, data, made, doubts, others>>

Release ==
    /\ object = "deleting" /\ (owed => data = 0)
    /\ object' = "gone"
    /\ UNCHANGED <<data, made, doubts, asked, others>>

Next == Make \/ Doubt \/ Destroy \/ SomeoneElse \/ Delete \/ Ask \/ Release

Safety == Init /\ [][Next]_vars

DeletionEnds == object = "deleting" ~> object = "gone" \/ blocked

Spec == Safety /\ DeletionEnds
=============================================================================
