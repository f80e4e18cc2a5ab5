----------------------------- MODULE FormatGate -----------------------------
(***************************************************************************)
(* The storage format gate and the membership probe                        *)
(* (internal/controller/daossystem_format.go, kubectl daos system format). *)
(*                                                                         *)
(* The operator asks `dmg system query` through the Job -dmg-query whether *)
(* storage is formatted, reports status.pendingFormat, and waits for the   *)
(* annotation format-approved; it then runs `dmg storage format` through   *)
(* the Job -dmg-format, on the hosts that still need one when the system   *)
(* is formatted and on every host otherwise, and removes the annotation.   *)
(* While a format is due no query is collected, and a query Job's answer   *)
(* is as old as its pod.  One engine per node is modelled.                 *)
(***************************************************************************)
EXTENDS Naturals, FiniteSets, DmgJob

CONSTANTS
    Nodes, FirstNodes,  \* nodes that may be selected; those rendered at the start
    Externals,          \* values of "spec.externalMsReplicas is set" to consider
    MaxApprovals,       \* bound: approvals humans give
    MaxFaults,          \* bound: passes cut short, expired Jobs, failed queries
    MaxFlips,           \* bound: readiness changes of server pods
    MaxSwaps            \* bound: drives replaced

ASSUME FormatGateAssumption ==
    /\ FirstNodes \subseteq Nodes /\ IsFiniteSet(Nodes) /\ Externals \subseteq BOOLEAN
    /\ MaxApprovals \in Nat /\ MaxFaults \in Nat /\ MaxFlips \in Nat /\ MaxSwaps \in Nat

\* What `dmg system query` says: its kind, the nodes with a member and those
\* with one in awaitformat.  blank is the truth when the query ran (history).
Answers == [kind : {"unformatted", "timeout", "error", "members"},
            member : SUBSET Nodes, await : SUBSET Nodes, blank : SUBSET Nodes]

\* status.formatted, status.pendingFormat, status.ranks by node.  blank is the
\* truth behind the answer the status rests on (history).
Statuses == [formatted : BOOLEAN, pending : BOOLEAN,
             member : SUBSET Nodes, await : SUBSET Nodes, blank : SUBSET Nodes]

VARIABLES
    external, approved,  \* spec.externalMsReplicas is set; the annotation
    st,                  \* the status as stored
    pc, sys, wst,        \* the pass: what it read, and the status it builds
    hold,                \* the in-memory probe hold is set
    rendered, ready,     \* nodes with a server StatefulSet; with a Ready pod
    disk, ms,            \* DAOS: drives per node; the management service is initialised
    query, format,       \* the Jobs -dmg-query and -dmg-format (cmd: its hosts)
    formats, misread,    \* history: format Jobs created; a formatted system seemed unformatted
    given, faults, flips, swaps

object  == <<external, approved, st>>
memory  == <<pc, sys, wst>>
daos    == <<disk, ms>>
servers == <<rendered, ready>>
history == <<formats, misread>>
bounds  == <<given, faults, flips, swaps>>
vars    == <<object, memory, hold, servers, daos, query, format, history, bounds>>

NoSys == [approved |-> FALSE, rendered |-> {}, ready |-> {}]
NoStatus == [formatted |-> FALSE, pending |-> FALSE, member |-> {}, await |-> {}, blank |-> {}]

-----------------------------------------------------------------------------
(* The pass up to the format path. *)

\* Reconcile: the DaosSystem and the server pods are read.
BeginPass ==
    /\ pc = "idle"
    /\ pc' = "start"
    /\ sys' = [approved |-> approved, rendered |-> rendered, ready |-> ready \cap rendered]
    /\ wst' = st
    /\ UNCHANGED <<object, hold, servers, daos, query, format, history, bounds>>

\* No server workloads: nothing to ask.
NoServers ==
    /\ pc = "start" /\ ~external /\ sys.rendered = {}
    /\ pc' = "update"
    /\ UNCHANGED <<object, sys, wst, hold, servers, daos, query, format, history, bounds>>

\* An external system is never formatted: an approval is dropped.
Continue ==
    /\ pc = "start" /\ (external \/ sys.rendered # {})
    /\ approved' = (approved /\ ~(external /\ sys.approved))
    /\ sys' = [sys EXCEPT !.approved = @ /\ ~external]
    /\ pc' = "format"
    /\ UNCHANGED <<external, st, wst, hold, servers, daos, query, format, history, bounds>>

\* variant: any rendered node that is not in the member list or not Ready
FormatHostsAny(s) == sys.rendered

\* formatHosts: Ready nodes without a member, or with one in awaitformat.
FormatHosts(s) == {n \in sys.ready : n \notin s.member \/ n \in s.await}

NeedFormat == /\ sys.approved /\ wst.pending
              /\ wst.formatted => FormatHosts(wst) # {}

\* The hosts of the format: dmg's whole host list unless the system is formatted.
Hosts == IF wst.formatted THEN FormatHosts(wst) ELSE sys.rendered

AwaitServers ==
    /\ pc = "format" /\ NeedFormat /\ sys.ready # sys.rendered
    /\ pc' = "update"
    /\ UNCHANGED <<object, sys, wst, hold, servers, daos, query, format, history, bounds>>

Formatting ==
    /\ pc = "format" /\ NeedFormat /\ sys.ready = sys.rendered /\ ~Done(format)
    /\ format' = AfterRun(format, Hosts)
    /\ formats' = IF format.phase = "absent" THEN formats + 1 ELSE formats
    /\ pc' = "update"
    /\ UNCHANGED <<object, sys, wst, hold, servers, daos, query, misread, bounds>>

\* variant: the outcome of the Job is not looked at, its hosts are left nameless
FormatDoneNameless ==
    /\ pc = "format" /\ NeedFormat /\ sys.ready = sys.rendered /\ Done(format)
    /\ format' = AfterRun(format, Hosts)
    /\ wst' = [wst EXCEPT !.formatted = TRUE, !.await = {None}]
    /\ pc' = "formatted"
    /\ UNCHANGED <<object, sys, hold, servers, daos, query, history, bounds>>

\* The Job ended: the approval goes first, then the outcome is recorded and, after
\* a success, the hold is dropped.
FormatDone ==
    /\ pc = "format" /\ NeedFormat /\ sys.ready = sys.rendered /\ Done(format)
    /\ format' = AfterRun(format, Hosts)
    /\ IF format.out = "ok"
       THEN wst' = [wst EXCEPT !.formatted = TRUE, !.pending = FALSE] /\ pc' = "formatted"
       ELSE wst' = wst /\ pc' = "clear"
    /\ UNCHANGED <<object, sys, hold, servers, daos, query, history, bounds>>

-----------------------------------------------------------------------------
(* The query path. *)

Held ==
    /\ pc = "format" /\ ~NeedFormat /\ hold
    /\ pc' = "update"
    /\ UNCHANGED <<object, sys, wst, hold, servers, daos, query, format, history, bounds>>

Probing ==
    /\ pc = "format" /\ ~NeedFormat /\ ~hold /\ ~Done(query)
    /\ query' = AfterRun(query, "query")
    /\ pc' = "update"
    /\ UNCHANGED <<object, sys, wst, hold, servers, daos, format, history, bounds>>

\* The answer in the collected Job becomes the status, then the hold is set.
Collect(status, next) ==
    /\ query' = AfterRun(query, "query")
    /\ wst' = status
    /\ hold' = TRUE
    /\ pc' = next
    /\ UNCHANGED <<object, sys, servers, daos, format, history, bounds>>

Answered(kind) == /\ pc = "format" /\ ~NeedFormat /\ ~hold
                  /\ Done(query) /\ query.out.kind = kind

\* variant: pendingFormat is left as it was
UnformattedQuiet ==
    /\ Answered("unformatted")
    /\ Collect([wst EXCEPT !.formatted = FALSE, !.member = {}, !.await = {}, !.blank = query.out.blank], "update")

\* ErrUnformatted
Unformatted ==
    /\ Answered("unformatted")
    /\ Collect([formatted |-> FALSE, pending |-> TRUE, member |-> {}, await |-> {},
                blank |-> query.out.blank], "update")

\* ErrTimeout, markUnresponsive: members on nodes that do not answer, by their
\* pod or by the leader query, lose their state; the rest stays.
TimedOut ==
    /\ Answered("timeout")
    /\ \E down \in SUBSET sys.rendered :
         Collect([wst EXCEPT !.await = @ \ (down \cup (sys.rendered \ sys.ready))], "update")

\* ErrUnreachable, ErrOther, no output: only a condition changes.
QueryError == Answered("error") /\ Collect(wst, "update")

\* The status for a member list.
Membership(a) ==
    [formatted |-> TRUE, pending |-> a.await # {} \/ FormatHosts(a) # {},
     member |-> a.member, await |-> a.await, blank |-> a.blank]

\* A member list; an approval with nothing to format is dropped.
Members ==
    /\ Answered("members")
    /\ LET status == Membership(query.out)
       IN  Collect(status, IF sys.approved /\ ~status.pending THEN "clear" ELSE "update")

-----------------------------------------------------------------------------
(* The end of the pass. *)

\* variant: the approval is left for the next pass to remove
KeepApproval ==
    /\ pc \in {"clear", "formatted"}
    /\ hold' = (hold /\ pc = "clear")
    /\ pc' = "update"
    /\ UNCHANGED <<object, sys, wst, servers, daos, query, format, history, bounds>>

\* A merge patch: it removes the annotation that is there now.  After a format that
\* worked the membership is asked for right away.
ClearApproval ==
    /\ pc \in {"clear", "formatted"}
    /\ approved' = (approved /\ ~sys.approved)
    /\ hold' = (hold /\ pc = "clear")
    /\ pc' = "update"
    /\ UNCHANGED <<external, st, sys, wst, servers, daos, query, format, history, bounds>>

Return == pc' = "idle" /\ sys' = NoSys /\ wst' = NoStatus

UpdateStatus ==
    /\ pc = "update"
    /\ st' = wst
    /\ Return
    /\ UNCHANGED <<external, approved, hold, servers, daos, query, format, history, bounds>>

\* An API error ends the pass; after a restart the hold is gone too.
PassEnds ==
    /\ pc # "idle" /\ faults < MaxFaults
    /\ faults' = faults + 1
    /\ hold' \in {hold, FALSE}
    /\ Return
    /\ UNCHANGED <<object, servers, daos, query, format, history, given, flips, swaps>>

-----------------------------------------------------------------------------
(* Humans. *)

\* kubectl daos system format: only when the status reports pendingFormat.
SystemFormat ==
    /\ st.pending /\ ~approved /\ given < MaxApprovals
    /\ approved' = TRUE /\ given' = given + 1
    /\ UNCHANGED <<external, st, memory, hold, servers, daos, query, format, history, faults, flips, swaps>>

\* kubectl annotate, which checks nothing.
Annotate ==
    /\ ~st.pending /\ ~approved /\ given < MaxApprovals
    /\ approved' = TRUE /\ given' = given + 1
    /\ UNCHANGED <<external, st, memory, hold, servers, daos, query, format, history, faults, flips, swaps>>

Withdraw ==
    /\ approved /\ approved' = FALSE
    /\ UNCHANGED <<external, st, memory, hold, servers, daos, query, format, history, bounds>>

\* A node is labelled and gets a server StatefulSet.
AddNode(n) ==
    /\ ~external /\ n \notin rendered
    /\ rendered' = rendered \cup {n}
    /\ UNCHANGED <<object, memory, hold, ready, daos, query, format, history, bounds>>

\* A node's drives are replaced; its rank waits in awaitformat.
ReplaceDrives(n) ==
    /\ disk[n] = "data" /\ swaps < MaxSwaps
    /\ disk' = [disk EXCEPT ![n] = "replaced"] /\ swaps' = swaps + 1
    /\ UNCHANGED <<object, memory, hold, servers, ms, query, format, history, given, faults, flips>>

-----------------------------------------------------------------------------
(* Kubernetes and DAOS. *)

\* A server pod becomes Ready, or stops being so.
PodFlips(n) ==
    /\ n \in rendered /\ (n \in ready => flips < MaxFlips)
    /\ ready' = IF n \in ready THEN ready \ {n} ELSE ready \cup {n}
    /\ flips' = IF n \in ready THEN flips + 1 ELSE flips
    /\ UNCHANGED <<object, memory, hold, rendered, daos, query, format, history, given, faults, swaps>>

HoldExpires ==
    /\ hold /\ hold' = FALSE
    /\ UNCHANGED <<object, memory, servers, daos, query, format, history, bounds>>

\* The hosts in S were formatted; the Job ends with this output.
FormatEnds(S, out) ==
    /\ disk' = [n \in Nodes |-> IF n \in S THEN "data" ELSE disk[n]]
    /\ ms' = (ms \/ S # {})
    /\ format' = Finished(format, out)
    /\ UNCHANGED <<object, memory, hold, servers, query, history, bounds>>

FormatFinishes ==
    /\ format.phase = "running"
    /\ \/ FormatEnds(format.cmd, "ok")
       \/ \E S \in (SUBSET format.cmd) \ {format.cmd} : FormatEnds(S, "error")

Blank == {n \in Nodes : disk[n] # "data"}

Answer(kind) ==
    [kind |-> kind, blank |-> Blank,
     member |-> IF kind = "members" THEN {n \in Nodes : disk[n] # "new"} ELSE {},
     await |-> IF kind = "members" THEN {n \in Nodes : disk[n] = "replaced"} ELSE {}]

\* "system is uninitialized", or "raft service unavailable" of a system in trouble.
QueryFinishes ==
    /\ query.phase = "running"
    /\ \/ /\ query' = Finished(query, Answer(IF ms THEN "members" ELSE "unformatted"))
          /\ UNCHANGED <<faults, misread>>
       \/ /\ faults < MaxFaults /\ faults' = faults + 1
          /\ \E kind \in {"timeout", "error", "unformatted"} :
               /\ query' = Finished(query, Answer(kind))
               /\ misread' = (misread \/ (ms /\ kind = "unformatted"))
    /\ UNCHANGED <<object, memory, hold, servers, daos, format, formats, given, flips, swaps>>

JobsRemoved ==
    /\ query.phase = "deleting" \/ format.phase = "deleting"
    /\ query'  = IF query.phase = "deleting" THEN NoJob ELSE query
    /\ format' = IF format.phase = "deleting" THEN NoJob ELSE format
    /\ UNCHANGED <<object, memory, hold, servers, daos, history, bounds>>

\* The TTL of a finished format Job passes before the operator collects it.
JobExpires ==
    /\ Done(format) /\ faults < MaxFaults
    /\ format' = NoJob /\ faults' = faults + 1
    /\ UNCHANGED <<object, memory, hold, servers, daos, query, history, given, flips, swaps>>

-----------------------------------------------------------------------------
Init ==
    /\ external \in Externals /\ approved = FALSE /\ st = NoStatus
    /\ pc = "idle" /\ sys = NoSys /\ wst = NoStatus /\ hold = FALSE
    /\ rendered = IF external THEN {} ELSE FirstNodes
    /\ ready = {} /\ ms = FALSE
    /\ disk = [n \in Nodes |-> "new"]
    /\ query = NoJob /\ format = NoJob
    /\ formats = 0 /\ misread = FALSE
    /\ given = 0 /\ faults = 0 /\ flips = 0 /\ swaps = 0

ReconcileFormat ==
    \/ NoServers \/ Continue \/ AwaitServers \/ Formatting \/ FormatDone
    \/ Held \/ Probing \/ Unformatted \/ TimedOut \/ QueryError \/ Members
    \/ ClearApproval

Operator == BeginPass \/ ReconcileFormat \/ UpdateStatus

Human == \/ SystemFormat \/ Annotate \/ Withdraw
         \/ \E n \in Nodes : AddNode(n) \/ ReplaceDrives(n)

Cluster == FormatFinishes \/ QueryFinishes \/ JobsRemoved

Next == \/ Operator \/ PassEnds \/ Human \/ Cluster \/ HoldExpires \/ JobExpires
        \/ \E n \in Nodes : PodFlips(n)

Spec == Init /\ [][Next]_vars

\* Passes repeat, Jobs end (activeDeadlineSeconds), the hold is a time.
FairSpec == Spec /\ WF_vars(Operator) /\ WF_vars(Cluster) /\ WF_vars(HoldExpires)

-----------------------------------------------------------------------------
(* Properties. *)

TypeOK ==
    /\ external \in BOOLEAN /\ approved \in BOOLEAN
    /\ st \in Statuses /\ wst \in Statuses
    /\ pc \in {"idle", "start", "format", "clear", "formatted", "update"}
    /\ sys \in [approved : BOOLEAN, rendered : SUBSET Nodes, ready : SUBSET Nodes]
    /\ hold \in BOOLEAN /\ ms \in BOOLEAN
    /\ rendered \subseteq Nodes /\ ready \subseteq Nodes
    /\ disk \in [Nodes -> {"new", "data", "replaced"}]
    /\ query \in Job({"query"}, Answers) /\ format \in Job(SUBSET Nodes, {"ok", "error"})
    /\ formats \in Nat /\ misread \in BOOLEAN
    /\ given \in 0..MaxApprovals /\ faults \in 0..MaxFaults
    /\ flips \in 0..MaxFlips /\ swaps \in 0..MaxSwaps

\* clearApproval after the format Job (daossystem_format.go:186-189): the operator
\* creates at most one format Job per approval, plus one for each pass cut short
\* or Job lost, whatever humans annotate and withdraw meanwhile.
OneFormatPerApproval == formats <= given + faults

FormatCreated == format.phase = "absent" /\ format'.phase = "running"

\* reconcileFormat (daossystem_format.go:156-167): a host is handed to the format
\* only if it carried no data when the query behind the status was answered,
\* unless "raft service unavailable" made a formatted system seem unformatted.
FormatOnEvidence == [][ FormatCreated /\ ~misread => format'.cmd \subseteq wst.blank ]_vars

Truth == ~ms \/ \E n \in Nodes : disk[n] = "replaced" \/ (n \in rendered /\ disk[n] = "new")

\* reconcileFormat: once the server pods stay Ready and nothing else changes, the
\* stored status comes to tell, and keeps telling, whether storage is formatted
\* and whether a format is due; an answer from before a format does not stick.
StatusConverges ==
    <>[](rendered # {} /\ ready = rendered) => <>[](st.formatted = ms /\ st.pending = Truth)
=============================================================================
