------------------------------ MODULE DaosPool ------------------------------
(***************************************************************************)
(* The life of one DaosPool (internal/controller/daospool_controller.go).  *)
(*                                                                         *)
(* A pass reads the DaosPool from the manager's cache, which may lag       *)
(* behind the last status written.  With an operation recorded in          *)
(* status.operation it polls that operation's Job; else it probes with the *)
(* query Job and starts at most one operation: create when DAOS has no     *)
(* such pool, extend, overwrite-acl or set-prop on drift.  Deletion        *)
(* destroys the DAOS pool only with the annotation destroy-approved.  The  *)
(* status is stored last; Jobs are known by name only.                     *)
(***************************************************************************)
EXTENDS Naturals, DmgJob

CONSTANTS
    MaxEdits,     \* bound: spec changes (ranks or ACL) and late approvals
    MaxTroubles,  \* bound: passes cut short or reading the status before the last write,
                  \* Jobs that fail, properties changed and pools destroyed by others,
                  \* the DaosSystem deleted
    Settings,     \* which properties the spec pins, and how humans behave
    Deletes       \* do humans delete the DaosPool or its DaosSystem?

Props == {"reintmode", "selfheal"}

ASSUME DaosPoolAssumption ==
    /\ MaxEdits \in Nat /\ MaxTroubles \in Nat /\ Deletes \in BOOLEAN
    /\ Settings \subseteq [pinned : SUBSET Props, patient : BOOLEAN]

Ops == {"create", "extend", "acl", "reintmode", "selfheal", "destroy"}

ASSUME NoneIsNoName == None \notin Ops

\* status.destroyAttempts from which a destroy counts as stalled.
DestroyStallAfter == 3

\* The DAOS pool: its identity, how far it was extended, its ACL, and whether
\* its reintegration and self_heal properties have the pinned value.
DaosPools == [id : Nat, ranks : Nat, acl : Nat, props : SUBSET Props]

ASSUME NoneIsNoPool == None \notin DaosPools

\* The DaosPool: spec.ranks and spec.acl are numbered in the order they were set.
Objects == [exists : BOOLEAN, deleted : BOOLEAN, approved : BOOLEAN, finalizer : BOOLEAN,
            gen : Nat, ranks : Nat, acl : Nat]

\* status: uuid and acl are 0 when unset; reason is that of condition Ready, an
\* operation standing for "that operation failed"; off: the pinned properties known
\* to have another value.
Statuses == [uuid : Nat, op : Ops \cup {None}, obs : Nat, reason : Ops \cup {"other"},
             acl : Nat, ranks : Nat, off : SUBSET Props,
             attempts : 0..DestroyStallAfter]

Full   == {"pool", "bare"}
Health == {"health", "bareHealth"}

\* What Jobs report: an operation's outcome, with the pool a create made; or the
\* pool a query found, none, or a query that did not get an answer.  A query that
\* timed out may have a health-only answer, and get-prop may not answer (bare).
Outs == [kind : {"ok", "notfound", "error", "missing"}, pool : {None}]
          \cup [kind : {"ok"} \cup Full \cup Health, pool : DaosPools]

VARIABLES
    obj, st, old,         \* the DaosPool, its status, and the status before the last write
    setting,              \* properties pinned; patient humans change nothing while an
                          \* operation runs
    system,               \* the DaosSystem: awaited, unformatted, formatted or gone
    pc, sys, wst, hold,   \* the pass: what it read, the status it builds; the probe hold
    jobs,                 \* Jobs by operation, and "query" (cmd: the spec they were built from)
    dp,                   \* the DAOS pool, or None
    made, failed,         \* history: pools created; failures <<op, gen>>
    unsure, asked,        \* history: creates reported failed; destroy approved
    edits, faults, stale, errors, drifts

memory  == <<pc, sys, wst, hold>>
history == <<made, failed, unsure, asked>>
bounds  == <<edits, faults, stale, errors, drifts>>
vars    == <<obj, st, old, setting, system, memory, jobs, dp, history, bounds>>

NoObj == [exists |-> FALSE, deleted |-> FALSE, approved |-> FALSE, finalizer |-> FALSE,
          gen |-> 0, ranks |-> 0, acl |-> 0]
NoStatus == [uuid |-> 0, op |-> None, obs |-> 0, reason |-> "other", acl |-> 0, ranks |-> 0,
             off |-> {}, attempts |-> 0]

\* What hasty humans change counts as trouble too.
Hurried == IF setting.patient THEN 0 ELSE edits
Trouble == faults + stale + errors + drifts + Hurried < MaxTroubles

Pinned == setting.pinned
Absent == system \in {"awaited", "gone"}

SpecOf(o) == [ranks |-> o.ranks, acl |-> o.acl]

\* r.Dmg.Run with opSpec(op)
RunJob(op) == jobs' = [jobs EXCEPT ![op] = AfterRun(@, SpecOf(sys))]

-----------------------------------------------------------------------------
(* The pass. *)

Return == pc' = "idle" /\ sys' = NoObj /\ wst' = NoStatus
Store(status) == pc' = "update" /\ wst' = status /\ sys' = sys

BeginPass ==
    /\ pc = "idle" /\ obj.exists
    /\ pc' = "go" /\ sys' = obj
    /\ \/ wst' = st /\ stale' = stale
       \/ wst' = old /\ old # st /\ Trouble /\ stale' = stale + 1
    /\ UNCHANGED <<obj, st, old, setting, system, hold, jobs, dp, history, edits, faults, errors, drifts>>

\* No DaosSystem, or one that is not formatted: only the condition changes.  The
\* former comes before finalize, the latter after it.
NoSystem ==
    /\ pc = "go"
    /\ \/ Absent
       \/ system = "unformatted" /\ sys.finalizer /\ ~sys.deleted
    /\ Store([wst EXCEPT !.reason = "other"])
    /\ UNCHANGED <<obj, st, old, setting, system, hold, jobs, dp, history, bounds>>

\* Update sends the resourceVersion that was read: it fails when the object or its
\* status were written since.
Current == obj = sys /\ st = wst

AddFinalizer ==
    /\ pc = "go" /\ ~Absent /\ ~sys.deleted /\ ~sys.finalizer
    /\ obj' = IF Current THEN [obj EXCEPT !.finalizer = TRUE] ELSE obj
    /\ Return
    /\ UNCHANGED <<st, old, setting, system, hold, jobs, dp, history, bounds>>

Live == pc = "go" /\ system = "formatted" /\ sys.finalizer /\ ~sys.deleted

\* pollOp: the Job is still running, or was not there and is created again.
Poll ==
    /\ Live /\ wst.op # None /\ ~Done(jobs[wst.op])
    /\ RunJob(wst.op)
    /\ Return
    /\ UNCHANGED <<obj, st, old, setting, system, hold, dp, history, bounds>>

\* The status after operation op succeeded, with the spec as it is now.
Applied(op, pool) ==
    LET done == [wst EXCEPT !.op = None, !.obs = sys.gen, !.reason = "other"]
    IN  CASE op = "create" -> [done EXCEPT !.uuid = pool.id, !.ranks = pool.ranks, !.acl = sys.acl,
                                           !.off = @ \ {"reintmode"}]
          [] op = "acl" -> [done EXCEPT !.acl = sys.acl]
          [] op \in {"reintmode", "selfheal"} -> [done EXCEPT !.off = @ \ {op}]
          [] OTHER -> done

\* variant: a Job that ended is waited for
PollDoneWaits ==
    /\ Live /\ wst.op # None /\ Done(jobs[wst.op])
    /\ Return
    /\ UNCHANGED <<obj, st, old, setting, system, hold, jobs, dp, history, bounds>>

PollDone ==
    /\ Live /\ wst.op # None /\ Done(jobs[wst.op])
    /\ RunJob(wst.op)
    /\ LET out == jobs[wst.op].out
       IN  IF out.kind = "ok"
           THEN /\ Store(Applied(wst.op, out.pool)) /\ hold' = FALSE
                /\ failed' = failed /\ unsure' = unsure
           ELSE /\ Store([wst EXCEPT !.op = None, !.obs = sys.gen, !.reason = wst.op])
                /\ hold' = hold /\ failed' = failed \cup {<<wst.op, sys.gen>>}
                /\ unsure' = IF wst.op = "create" THEN unsure + 1 ELSE unsure
    /\ UNCHANGED <<obj, st, old, setting, system, dp, made, asked, bounds>>

-----------------------------------------------------------------------------
(* The probe and what follows from it. *)

Held ==
    /\ Live /\ wst.op = None /\ hold
    /\ Return
    /\ UNCHANGED <<obj, st, old, setting, system, hold, jobs, dp, history, bounds>>

\* variant: the probe is recorded as the operation in flight
ProbingRecorded ==
    /\ Live /\ wst.op = None /\ ~hold /\ ~Done(jobs["query"])
    /\ RunJob("query")
    /\ Store([wst EXCEPT !.op = "query"])
    /\ UNCHANGED <<obj, st, old, setting, system, hold, dp, history, bounds>>

Probing ==
    /\ Live /\ wst.op = None /\ ~hold /\ ~Done(jobs["query"])
    /\ RunJob("query")
    /\ Store(wst)
    /\ UNCHANGED <<obj, st, old, setting, system, hold, dp, history, bounds>>

Answered(kinds) == /\ Live /\ wst.op = None /\ ~hold
                   /\ Done(jobs["query"]) /\ jobs["query"].out.kind \in kinds

\* variant: the ACL is recorded when its Job is started
CollectEarly(status, op) ==
    /\ hold' = TRUE
    /\ jobs' = [j \in DOMAIN jobs |-> IF j \in {"query", op} THEN AfterRun(jobs[j], SpecOf(sys)) ELSE jobs[j]]
    /\ Store([status EXCEPT !.op = op, !.reason = "other", !.acl = IF op = "acl" THEN sys.acl ELSE @])
    /\ UNCHANGED <<obj, st, old, setting, system, dp, history, bounds>>

\* The query Job is collected and, when op is an operation, its Job is started.
Collect(status, op) ==
    /\ hold' = TRUE
    /\ jobs' = [j \in DOMAIN jobs |-> IF j \in {"query", op} THEN AfterRun(jobs[j], SpecOf(sys)) ELSE jobs[j]]
    /\ Store(IF op = None THEN [status EXCEPT !.reason = "other"]
             ELSE [status EXCEPT !.op = op, !.reason = "other"])
    /\ UNCHANGED <<obj, st, old, setting, system, dp, history, bounds>>

FailedForThisSpec(status, op) == status.reason = op /\ status.obs = sys.gen

\* ErrUnreachable, QueryError, ProbeFailed: only the condition changes.
QueryFails == Answered({"error"}) /\ Collect(wst, None)

\* variant: a pool that disappeared is made again
MissingRecreates ==
    /\ Answered({"missing"}) /\ ~FailedForThisSpec(wst, "create")
    /\ Collect(wst, "create")

\* ErrNotFound with a uuid is PoolMissing; after CreateFailed it waits for a spec
\* change, keeping the condition; else the pool is created.
Missing ==
    /\ Answered({"missing"})
    /\ IF wst.uuid # 0 THEN Collect(wst, None)
       ELSE IF FailedForThisSpec(wst, "create")
       THEN /\ hold' = TRUE /\ RunJob("query") /\ Store(wst)
            /\ UNCHANGED <<obj, st, old, setting, system, dp, history, bounds>>
       ELSE Collect(wst, "create")

\* Properties get-prop did not tell keep what is known of them.
Queried(out) ==
    [wst EXCEPT !.uuid = out.pool.id, !.ranks = out.pool.ranks,
                !.off = IF out.kind \in {"pool", "health"} THEN Pinned \ out.pool.props ELSE @]

\* The health-only answer of a query that timed out: no operation follows.
HealthOnly == Answered(Health) /\ Collect(Queried(jobs["query"].out), None)

\* Drift, in the order it is looked at.  The ACL is compared with the one last
\* recorded; its failure is stored as "AclFailed" and looked up as "ACLFailed".
Wants(status, op) ==
    CASE op = "extend" -> /\ sys.ranks > status.ranks /\ status.ranks # 0
                          /\ ~FailedForThisSpec(status, "extend")
      [] op = "acl" -> sys.acl # 0 /\ sys.acl # status.acl
      [] OTHER -> op \in status.off /\ ~FailedForThisSpec(status, op)

First(status) ==
    IF Wants(status, "extend") THEN "extend"
    ELSE IF Wants(status, "acl") THEN "acl"
    ELSE IF Wants(status, "reintmode") THEN "reintmode"
    ELSE IF Wants(status, "selfheal") THEN "selfheal"
    ELSE None

Found ==
    /\ Answered(Full)
    /\ LET status == Queried(jobs["query"].out) IN Collect(status, First(status))

-----------------------------------------------------------------------------
(* finalize *)

Finalizing == pc = "go" /\ ~Absent /\ sys.deleted /\ sys.finalizer

\* Without its finalizer the object and its Jobs are deleted by Kubernetes.
LetGo ==
    /\ obj' = NoObj
    /\ jobs' = [j \in DOMAIN jobs |-> IF jobs[j].phase = "running" THEN jobs[j] ELSE NoJob]

RemoveFinalizer ==
    /\ Return
    /\ IF Current THEN LetGo ELSE UNCHANGED <<obj, jobs>>
    /\ UNCHANGED <<st, old, setting, system, hold, dp, history, bounds>>

\* Without the approval, or without a known pool, the object is let go.
Released ==
    /\ Finalizing /\ (~sys.approved \/ wst.uuid = 0)
    /\ RemoveFinalizer

\* The outcomes after which the pool is no more.
Destroyed == {"ok", "notfound"}

DestroyWait ==
    /\ Finalizing /\ sys.approved /\ wst.uuid # 0 /\ ~Done(jobs["destroy"])
    /\ RunJob("destroy")
    /\ IF wst.op # "destroy" THEN Store([wst EXCEPT !.op = "destroy", !.reason = "other"]) ELSE Return
    /\ UNCHANGED <<obj, st, old, setting, system, hold, dp, history, bounds>>

DestroyDone ==
    /\ Finalizing /\ sys.approved /\ wst.uuid # 0 /\ Done(jobs["destroy"])
    /\ jobs["destroy"].out.kind \in Destroyed
    /\ Return
    /\ IF Current THEN LetGo ELSE RunJob("destroy") /\ obj' = obj
    /\ UNCHANGED <<st, old, setting, system, hold, dp, history, bounds>>

\* Retried, more slowly once it counts as stalled.
DestroyFails ==
    /\ Finalizing /\ sys.approved /\ wst.uuid # 0 /\ Done(jobs["destroy"])
    /\ jobs["destroy"].out.kind \notin Destroyed
    /\ RunJob("destroy")
    /\ Store([wst EXCEPT !.op = None, !.reason = "destroy",
                         !.attempts = IF @ < DestroyStallAfter THEN @ + 1 ELSE @])
    /\ UNCHANGED <<obj, st, old, setting, system, hold, dp, history, bounds>>

-----------------------------------------------------------------------------
(* The end of the pass. *)

UpdateStatus ==
    /\ pc = "update"
    /\ IF obj.exists THEN st' = wst /\ old' = st ELSE UNCHANGED <<st, old>>
    /\ Return
    /\ UNCHANGED <<obj, setting, system, hold, jobs, dp, history, bounds>>

\* An API error, or a restart (which also forgets the hold).
PassEnds ==
    /\ pc # "idle" /\ Trouble
    /\ faults' = faults + 1
    /\ hold' \in {hold, FALSE}
    /\ Return
    /\ UNCHANGED <<obj, st, old, setting, system, jobs, dp, history, edits, stale, errors, drifts>>

-----------------------------------------------------------------------------
(* Humans. *)

Calm == ~setting.patient \/ (pc = "idle" /\ st.op = None /\ \A j \in Ops : jobs[j].phase = "absent")

Edit ==
    /\ obj.exists /\ ~obj.deleted /\ Calm /\ edits < MaxEdits /\ (setting.patient \/ Trouble)
    /\ \/ obj' = [obj EXCEPT !.gen = @ + 1, !.ranks = @ + 1]
       \/ obj' = [obj EXCEPT !.gen = @ + 1, !.acl = @ + 1]
    /\ edits' = edits + 1
    /\ UNCHANGED <<st, old, setting, system, memory, jobs, dp, history, faults, stale, errors, drifts>>

\* kubectl daos pool destroy approves and deletes; kubectl delete only deletes.
Delete(approve) ==
    /\ Deletes /\ obj.exists /\ ~obj.deleted /\ Calm
    /\ obj' = IF obj.finalizer THEN [obj EXCEPT !.deleted = TRUE, !.approved = approve] ELSE NoObj
    /\ asked' = (asked \/ approve)
    /\ UNCHANGED <<st, old, setting, system, memory, jobs, dp, made, failed, unsure, bounds>>

\* The approval is given later, or taken back.
Approve ==
    /\ obj.deleted /\ ~obj.approved /\ ~setting.patient /\ edits < MaxEdits /\ Trouble
    /\ obj' = [obj EXCEPT !.approved = TRUE] /\ edits' = edits + 1
    /\ asked' = TRUE
    /\ UNCHANGED <<st, old, setting, system, memory, jobs, dp, made, failed, unsure, faults, stale, errors, drifts>>

Withdraw ==
    /\ obj.deleted /\ obj.approved /\ ~setting.patient
    /\ obj' = [obj EXCEPT !.approved = FALSE]
    /\ UNCHANGED <<st, old, setting, system, memory, jobs, dp, history, bounds>>

-----------------------------------------------------------------------------
(* Kubernetes, the DaosSystem and DAOS. *)

SystemFormatted ==
    /\ system \notin {"formatted", "gone"}
    /\ system' = IF system = "awaited" THEN "unformatted" ELSE "formatted"
    /\ UNCHANGED <<obj, st, old, setting, memory, jobs, dp, history, bounds>>

\* The DaosSystem is deleted, for good.
SystemGoes ==
    /\ Deletes /\ ~Absent /\ Trouble
    /\ system' = "gone" /\ drifts' = drifts + 1
    /\ UNCHANGED <<obj, st, old, setting, memory, jobs, dp, history, edits, faults, stale, errors>>

HoldExpires ==
    /\ hold /\ hold' = FALSE
    /\ UNCHANGED <<obj, st, old, setting, system, pc, sys, wst, jobs, dp, history, bounds>>

\* What an operation that works makes of the pool.
Effect(op, cmd) ==
    CASE op = "create" -> [id |-> made + 1, ranks |-> cmd.ranks, acl |-> cmd.acl,
                           props |-> IF "reintmode" \in Pinned THEN {"reintmode"} ELSE {}]
      [] op = "extend" -> [dp EXCEPT !.ranks = cmd.ranks]
      [] op = "acl" -> [dp EXCEPT !.acl = cmd.acl]
      [] op = "destroy" -> None
      [] OTHER -> [dp EXCEPT !.props = @ \cup {op}]

Works(op) == IF op = "create" THEN dp = None ELSE dp # None

Ends(op, kind, pool) ==
    jobs' = [jobs EXCEPT ![op] = Finished(@, [kind |-> kind, pool |-> pool])]

\* A Job does its work and says so, or fails with its work done or not.
OpFinishes(op) ==
    /\ jobs[op].phase = "running"
    /\ \/ /\ Works(op) /\ dp' = Effect(op, jobs[op].cmd) /\ errors' = errors
          /\ Ends(op, "ok", IF op = "create" THEN dp' ELSE None)
       \/ /\ ~Works(op) /\ dp' = dp /\ errors' = errors
          /\ Ends(op, IF op = "create" THEN "error" ELSE "notfound", None)
       \/ /\ Trouble /\ errors' = errors + 1
          /\ dp' \in {dp} \cup (IF Works(op) THEN {Effect(op, jobs[op].cmd)} ELSE {})
          /\ Ends(op, "error", None)
    /\ made' = IF op = "create" /\ dp' # dp THEN made + 1 ELSE made
    /\ UNCHANGED <<obj, st, old, setting, system, memory, failed, unsure, asked, edits, faults, stale, drifts>>

QueryFinishes ==
    /\ jobs["query"].phase = "running"
    /\ \/ errors' = errors /\ Ends("query", IF dp = None THEN "missing" ELSE "pool", dp)
       \/ /\ Trouble /\ errors' = errors + 1
          /\ \/ Ends("query", "error", None)
             \/ dp # None /\ \E kind \in Health \cup {"bare"} : Ends("query", kind, dp)
    /\ UNCHANGED <<obj, st, old, setting, system, memory, dp, history, edits, faults, stale, drifts>>

JobsRemoved ==
    /\ \E j \in DOMAIN jobs : jobs[j].phase = "deleting"
    /\ jobs' = [j \in DOMAIN jobs |-> IF jobs[j].phase = "deleting" THEN NoJob ELSE jobs[j]]
    /\ UNCHANGED <<obj, st, old, setting, system, memory, dp, history, bounds>>

\* Someone else destroys the pool or changes a pinned property.
Outsider ==
    /\ dp # None /\ Trouble /\ drifts' = drifts + 1
    /\ dp' \in {None} \cup {[dp EXCEPT !.props = @ \ {p}] : p \in Pinned}
    /\ UNCHANGED <<obj, st, old, setting, system, memory, jobs, history, edits, faults, stale, errors>>

-----------------------------------------------------------------------------
Init ==
    /\ obj = [NoObj EXCEPT !.exists = TRUE, !.gen = 1, !.ranks = 1, !.acl = 1]
    /\ st = NoStatus /\ old = NoStatus
    /\ setting \in Settings /\ system = "awaited"
    /\ pc = "idle" /\ sys = NoObj /\ wst = NoStatus /\ hold = FALSE
    /\ jobs = [j \in Ops \cup {"query"} |-> NoJob]
    /\ dp = None /\ made = 0 /\ failed = {} /\ unsure = 0 /\ asked = FALSE
    /\ edits = 0 /\ faults = 0 /\ stale = 0 /\ errors = 0 /\ drifts = 0

Reconcile ==
    \/ NoSystem \/ AddFinalizer \/ Poll \/ PollDone
    \/ Held \/ Probing \/ QueryFails \/ Missing \/ HealthOnly \/ Found
    \/ Released \/ DestroyWait \/ DestroyDone \/ DestroyFails

Operator == BeginPass \/ Reconcile \/ UpdateStatus

Human == Edit \/ Approve \/ Withdraw \/ \E b \in BOOLEAN : Delete(b)

Cluster == QueryFinishes \/ JobsRemoved \/ \E op \in Ops : OpFinishes(op)

Next == Operator \/ PassEnds \/ Human \/ SystemFormatted \/ SystemGoes \/ HoldExpires \/ Cluster \/ Outsider

Spec == Init /\ [][Next]_vars

\* Passes repeat, Jobs end, the hold is a time, and the DaosSystem gets formatted.
FairSpec ==
    /\ Spec /\ WF_vars(Operator) /\ WF_vars(Cluster)
    /\ WF_vars(HoldExpires) /\ WF_vars(SystemFormatted)

-----------------------------------------------------------------------------
(* Properties. *)

TypeOK ==
    /\ obj \in Objects /\ sys \in Objects
    /\ st \in Statuses /\ old \in Statuses /\ wst \in Statuses
    /\ setting \in Settings /\ system \in {"awaited", "unformatted", "formatted", "gone"}
    /\ pc \in {"idle", "go", "update"} /\ hold \in BOOLEAN
    /\ jobs \in [Ops \cup {"query"} -> Job([ranks : Nat, acl : Nat], Outs)]
    /\ dp \in DaosPools \cup {None}
    /\ made \in Nat /\ failed \subseteq (Ops \X Nat) /\ unsure \in Nat /\ asked \in BOOLEAN
    /\ edits \in 0..MaxEdits /\ {faults, stale, errors, drifts} \subseteq 0..MaxTroubles

Owned == INSTANCE OwnedData WITH
    object  <- IF ~obj.exists THEN "gone" ELSE IF obj.deleted THEN "deleting" ELSE "live",
    data    <- IF dp = None THEN 0 ELSE dp.id,
    doubts  <- faults + stale + unsure,
    others  <- drifts,
    owed    <- obj.approved /\ dp # None /\ dp.id = st.uuid,
    blocked <- system = "gone"

\* Reconcile, PoolMissing (daospool_controller.go:298-301), and finalize: a
\* DaosPool implements OwnedData.  A DAOS pool that disappears is not silently
\* made again; it is destroyed only on approval, and before the DaosPool that
\* knows it goes, whatever passes are cut short or read a status that is behind.
OwnsItsPool == Owned!Safety

\* AppliedACLHash (api/v1alpha1/daospool_types.go:123): when the status calls the
\* spec's ACL the applied one, it is the ACL of the pool, as long as nobody edits
\* the spec while an operation runs.
AppliedIsWritten ==
    setting.patient /\ obj.exists /\ st.acl = obj.acl /\ dp # None => dp.acl = obj.acl

SpecReached ==
    setting.patient /\ <>[](/\ obj.exists /\ ~obj.deleted /\ dp # None /\ system # "gone"
                            /\ \A op \in Ops : <<op, obj.gen>> \notin failed) =>
        <>[](dp # None /\ dp.ranks >= obj.ranks /\ dp.acl = obj.acl /\ Pinned \subseteq dp.props)

\* Reconcile, drift, and finalize: what the DaosPool asks for comes about.  While
\* nobody destroys the pool, removes its system or edits the spec during an
\* operation, and no operation fails for the spec as it is now, the pool comes to
\* have the ranks and the ACL of that spec and every pinned property, and keeps
\* them, whatever failed for an earlier spec.  And a deletion ends, destroy
\* failures included, unless the DaosSystem is gone for good.
Settles == SpecReached /\ Owned!DeletionEnds

\* daospool_controller.go:381-382: an operation that failed is not started again
\* until the spec changes.
FailedNotRetried ==
    [][ \A op \in Ops \ {"destroy"} :
          jobs[op].phase = "absent" /\ jobs'[op].phase = "running" => <<op, sys.gen>> \notin failed ]_vars
=============================================================================
