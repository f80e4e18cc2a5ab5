--------------------------- MODULE DaosContainer ---------------------------
(***************************************************************************)
(* The life of one DaosContainer in one DaosPool                           *)
(* (internal/controller/daoscontainer_controller.go).                      *)
(*                                                                         *)
(* The container is created, its ACL overwritten and, with the annotation  *)
(* destroy-approved, destroyed by Jobs, one at a time, as for a DaosPool.  *)
(* What is its own: a container DAOS refuses to open (DER_RF) is set       *)
(* healthy again only when the status of its pool, which another           *)
(* controller writes, says that no data was dropped; and a container whose *)
(* pool or system is gone is let go.                                       *)
(*                                                                         *)
(* Times are compared, never used: "newer" says that a pool query started  *)
(* after the last container query did.                                     *)
(***************************************************************************)
EXTENDS Naturals, FiniteSets, DmgJob

CONSTANTS
    MaxChanges,  \* bound: changes of spec.acl or of the reintegration mode, ranks
                 \* that leave the pool, containers destroyed by others, pools that go
    Settings     \* what humans chose: the pool's mode and opt-in, whether queries may answer
                 \* later than their pod started, whether objects are deleted; and a bound:
                 \* passes cut short, Jobs that fail, waits beyond rfPendingMax

Modes == {"incremental", "data_sync"}

ASSUME DaosContainerAssumption ==
    /\ MaxChanges \in Nat
    /\ Settings \subseteq [mode : Modes, optin : BOOLEAN, slow : BOOLEAN, deletes : BOOLEAN, maxFaults : Nat]

Ops == {"create", "acl", "heal", "destroy"}

ASSUME NoneIsNoName == None \notin Ops \cup Modes

\* The targets of the pool: all there, some out, or back and being rebuilt.
Targets == {"whole", "out", "rebuild"}

\* The DAOS container: unclean is what makes DAOS refuse it, lost that a
\* reintegration discarded data of it.
DaosContainers == [id : Nat, acl : Nat, unclean : BOOLEAN, lost : BOOLEAN]

ASSUME NoneIsNoContainer == None \notin DaosContainers

Objects == [exists : BOOLEAN, deleted : BOOLEAN, approved : BOOLEAN, finalizer : BOOLEAN,
            gen : Nat, acl : Nat]

\* status: uuid and acl are 0 when unset; reason is that of condition Ready, an
\* operation standing for "that operation failed".
Statuses == [uuid : Nat, op : Ops \cup {None}, obs : Nat, reason : Ops \cup {"other"}, acl : Nat]

\* What the controller reads of the DaosPool: whether it and its system are there
\* and has a uuid, the opt-in auto-clear-unclean, and what its last query saw.
Pools == [parent : {"none", "empty", "ready"}, optin : BOOLEAN,
          mode : Modes \cup {None}, targets : Targets \cup {None}, newer : BOOLEAN]

\* A pool query on its way to the DaosPool's status.
PoolQueries == [newer : BOOLEAN, mode : Modes \cup {None}, targets : Targets \cup {None}]

\* What Jobs report; a query: the container, "missing", "rf" (DER_RF) or an error.
Outs == [kind : {"ok", "notfound", "error", "missing", "rf"}, id : {0}]
          \cup [kind : {"ok", "found"}, id : Nat]

VARIABLES
    obj, st, pool,              \* the DaosContainer, its status, the DaosPool
    pc, sys, psys, wst,         \* the pass: what it read, the status it builds
    hold, pending, late,        \* the probe hold; rfPending; is the mark older than rfPendingMax?
    setting,                    \* the member of Settings this system is in
    jobs, started, pq,          \* Jobs by operation and "query"; its pod started; the pool query
    dc, dpool, targets, mode,   \* DAOS: container; is there a pool? its targets, its reintegration mode
    made, failed, asked,        \* history: containers created; creates that failed; destroy approved
    wholeSince,                 \* history: the pool has been whole at some time since the last query answered
    edits, faults, errors, outs, flips, lates, gone

memory  == <<pc, sys, psys, wst, hold, pending>>
daos    == <<dc, dpool, targets, mode, made, wholeSince>>
bounds  == <<edits, faults, errors, outs, flips, lates, gone>>
vars    == <<obj, st, pool, memory, late, setting, jobs, started, pq, daos, failed, asked, bounds>>

\* What a pass leaves alone, whatever it does: time, humans, the pool, DAOS.
outside == <<pool, late, setting, started, pq, daos, asked, bounds>>

NoObj == [exists |-> FALSE, deleted |-> FALSE, approved |-> FALSE, finalizer |-> FALSE,
          gen |-> 0, acl |-> 0]
NoStatus == [uuid |-> 0, op |-> None, obs |-> 0, reason |-> "other", acl |-> 0]
NoPool == [parent |-> "none", optin |-> FALSE, mode |-> None, targets |-> None, newer |-> FALSE]

MayFail   == faults + errors + lates < setting.maxFaults
MayChange == edits + outs + flips + gone < MaxChanges

\* r.Dmg.Run with opSpec(op)
RunJob(op) == jobs' = [jobs EXCEPT ![op] = AfterRun(@, sys.acl)]

-----------------------------------------------------------------------------
(* The pass. *)

Return == pc' = "idle" /\ sys' = NoObj /\ psys' = NoPool /\ wst' = NoStatus
Store(status) == pc' = "update" /\ wst' = status /\ UNCHANGED <<sys, psys>>

BeginPass ==
    /\ pc = "idle" /\ obj.exists
    /\ pc' = "go" /\ sys' = obj /\ psys' = pool /\ wst' = st
    /\ UNCHANGED <<obj, st, hold, pending, jobs, failed, outside>>

\* Update of the object fails when it changed since it was read.  Without its
\* finalizer a deleted object is gone; its Jobs belong to the DaosPool.
RemoveFinalizer ==
    /\ Return
    /\ obj' = IF obj = sys THEN NoObj ELSE obj
    /\ UNCHANGED <<st, jobs, failed, outside>>

\* PoolNotFound, SystemNotFound; releaseOrphan when the object is deleted.
NoParent ==
    /\ pc = "go" /\ psys.parent = "none"
    /\ IF sys.deleted
       THEN RemoveFinalizer
       ELSE Store([wst EXCEPT !.reason = "other"]) /\ UNCHANGED <<obj, st, jobs, failed, outside>>
    /\ UNCHANGED <<hold, pending>>

AddFinalizer ==
    /\ pc = "go" /\ psys.parent # "none" /\ ~sys.deleted /\ ~sys.finalizer
    /\ obj' = IF obj = sys THEN [obj EXCEPT !.finalizer = TRUE] ELSE obj
    /\ Return
    /\ UNCHANGED <<st, hold, pending, jobs, failed, outside>>

PoolNotReady ==
    /\ pc = "go" /\ psys.parent = "empty" /\ ~sys.deleted /\ sys.finalizer
    /\ Store([wst EXCEPT !.reason = "other"])
    /\ UNCHANGED <<obj, st, hold, pending, jobs, failed, outside>>

Live == pc = "go" /\ psys.parent = "ready" /\ ~sys.deleted /\ sys.finalizer

\* pollOp: the Job is still running, or was not there and is created again.
Poll ==
    /\ Live /\ wst.op # None /\ ~Done(jobs[wst.op])
    /\ RunJob(wst.op)
    /\ Return
    /\ UNCHANGED <<obj, st, hold, pending, failed, outside>>

\* variant: the operation is not taken out of the status, only marked as done
AppliedMarked(op, id) == [wst EXCEPT !.op = "done", !.obs = sys.gen, !.uuid = id]

\* The status after operation op succeeded, with the spec as it is now.
Applied(op, id) ==
    [wst EXCEPT !.op = None, !.obs = sys.gen, !.reason = "other",
                !.uuid = IF op = "create" THEN id ELSE @,
                !.acl = IF op \in {"create", "acl"} THEN sys.acl ELSE @]

\* variant: a Job that ended is waited for
PollDoneWaits ==
    /\ Live /\ wst.op # None /\ Done(jobs[wst.op])
    /\ Return
    /\ UNCHANGED <<obj, st, hold, pending, jobs, failed, outside>>

PollDone ==
    /\ Live /\ wst.op # None /\ Done(jobs[wst.op])
    /\ RunJob(wst.op)
    /\ LET out == jobs[wst.op].out
       IN  IF out.kind = "ok"
           THEN Store(Applied(wst.op, out.id)) /\ hold' = FALSE /\ failed' = failed
           ELSE /\ Store([wst EXCEPT !.op = None, !.obs = sys.gen, !.reason = wst.op])
                /\ hold' = hold
                /\ failed' = IF wst.op = "create" THEN failed + 1 ELSE failed
    /\ UNCHANGED <<obj, st, pending, outside>>

-----------------------------------------------------------------------------
(* The probe and what follows from it. *)

\* A DER_RF query that waits for the pool's status is decided without another one.
Waiting == Live /\ wst.op = None /\ pending

Probe == Live /\ wst.op = None /\ ~Waiting

Held ==
    /\ Probe /\ hold
    /\ Return
    /\ UNCHANGED <<obj, st, hold, pending, jobs, failed, outside>>

Probing ==
    /\ Probe /\ ~hold /\ ~Done(jobs["query"])
    /\ RunJob("query")
    /\ Store(wst)
    /\ UNCHANGED <<obj, st, hold, pending, failed, outside>>

Answered(kind) == Probe /\ ~hold /\ Done(jobs["query"]) /\ jobs["query"].out.kind = kind

\* Jobs after Run on those named: the query, and the operation started after it.
RunJobs(names) == [j \in DOMAIN jobs |-> IF j \in names THEN AfterRun(jobs[j], sys.acl) ELSE jobs[j]]

\* The query Job is collected and, when op is an operation, its Job is started.
Collect(status, op) ==
    /\ hold' = TRUE
    /\ jobs' = RunJobs({"query", op})
    /\ Store(IF op = None THEN status ELSE [status EXCEPT !.op = op, !.reason = "other"])
    /\ UNCHANGED <<obj, st, pending, failed, outside>>

FailedForThisSpec(op) == wst.reason = op /\ wst.obs = sys.gen

\* ManagementUnreachable, QueryError, ProbeFailed: only the condition changes.
QueryFails == Answered("error") /\ Collect([wst EXCEPT !.reason = "other"], None)

\* variant: a container that disappeared is made again
MissingRecreates == Answered("missing") /\ Collect(wst, "create")

\* ContainerMissing; waiting after CreateFailed, keeping the condition; or create.
Missing ==
    /\ Answered("missing")
    /\ IF wst.uuid # 0 THEN Collect([wst EXCEPT !.reason = "other"], None)
       ELSE Collect(wst, IF FailedForThisSpec("create") THEN None ELSE "create")

Found ==
    /\ Answered("found")
    /\ LET status == [wst EXCEPT !.uuid = jobs["query"].out.id]
       IN  IF sys.acl # 0 /\ sys.acl # wst.acl /\ ~FailedForThisSpec("acl")
           THEN Collect(status, "acl")
           ELSE Collect([status EXCEPT !.reason = "other"], None)

\* variants: the mode is not looked at; any status of the pool will do
PoolIsWholeAnyMode == psys.optin /\ psys.targets = "whole"
FreshAlways == TRUE

\* rfExceeded: what the pool's status must say, and that it was queried since.
PoolIsWhole == psys.optin /\ psys.mode = "incremental" /\ psys.targets = "whole"
Fresh == psys.newer

\* rfExceeded, for the answer just collected or for the one that waits: heal, wait
\* for a newer pool status, or report.
RfExceeded ==
    /\ Waiting \/ Answered("rf")
    /\ hold' = (hold \/ ~Waiting)
    /\ LET query == IF Waiting THEN {} ELSE {"query"}
           heal  == PoolIsWhole /\ Fresh
       IN  /\ jobs' = RunJobs(IF heal THEN query \cup {"heal"} ELSE query)
           /\ pending' = (PoolIsWhole /\ ~Fresh /\ ~late)
           /\ Store([wst EXCEPT !.reason = "other", !.op = IF heal THEN "heal" ELSE None])
    /\ UNCHANGED <<obj, st, failed, outside>>

-----------------------------------------------------------------------------
(* finalize, which forgets a waiting query first. *)

Finalizing == pc = "go" /\ psys.parent # "none" /\ sys.deleted /\ sys.finalizer

Destroyable == sys.approved /\ wst.uuid # 0 /\ psys.parent = "ready"

\* Without the approval, a known container or a known pool, the object is let go.
Released ==
    /\ Finalizing /\ ~Destroyable
    /\ RemoveFinalizer
    /\ pending' = FALSE /\ hold' = hold

DestroyHeld ==
    /\ Finalizing /\ Destroyable /\ hold
    /\ Return
    /\ pending' = FALSE
    /\ UNCHANGED <<obj, st, hold, jobs, failed, outside>>

DestroyWait ==
    /\ Finalizing /\ Destroyable /\ ~hold /\ ~Done(jobs["destroy"])
    /\ RunJob("destroy")
    /\ IF wst.op # "destroy" THEN Store([wst EXCEPT !.op = "destroy", !.reason = "other"]) ELSE Return
    /\ pending' = FALSE
    /\ UNCHANGED <<obj, st, hold, failed, outside>>

\* The outcomes after which the container is no more.
Destroyed == {"ok", "notfound"}

DestroyDone ==
    /\ Finalizing /\ Destroyable /\ ~hold /\ Done(jobs["destroy"])
    /\ RunJob("destroy")
    /\ pending' = FALSE
    /\ IF jobs["destroy"].out.kind \in Destroyed
       THEN obj' = (IF obj = sys THEN NoObj ELSE obj) /\ Return /\ hold' = hold
       ELSE obj' = obj /\ Store([wst EXCEPT !.op = None, !.reason = "destroy"]) /\ hold' = TRUE
    /\ UNCHANGED <<st, failed, outside>>

-----------------------------------------------------------------------------
(* The end of the pass. *)

UpdateStatus ==
    /\ pc = "update"
    /\ st' = IF obj.exists THEN wst ELSE st
    /\ Return
    /\ UNCHANGED <<obj, hold, pending, jobs, failed, outside>>

\* An API error, or a restart, which forgets the hold and the waiting query.
PassEnds ==
    /\ pc # "idle" /\ MayFail
    /\ faults' = faults + 1
    /\ \/ UNCHANGED <<hold, pending>>
       \/ hold' = FALSE /\ pending' = FALSE
    /\ Return
    /\ UNCHANGED <<obj, st, pool, late, setting, jobs, started, pq, daos, failed, asked, edits, errors, outs, flips, lates, gone>>

-----------------------------------------------------------------------------
(* Humans, and time. *)

operator == <<st, memory, failed, asked>>

Edit ==
    /\ obj.exists /\ ~obj.deleted /\ MayChange
    /\ obj' = [obj EXCEPT !.gen = @ + 1, !.acl = @ + 1] /\ edits' = edits + 1
    /\ UNCHANGED <<operator, pool, late, setting, jobs, started, pq, daos, faults, errors, outs, flips, lates, gone>>

\* kubectl daos cont destroy approves and deletes; kubectl delete only deletes.
Delete(approve) ==
    /\ setting.deletes /\ obj.exists /\ ~obj.deleted
    /\ obj' = IF obj.finalizer THEN [obj EXCEPT !.deleted = TRUE, !.approved = approve] ELSE NoObj
    /\ asked' = (asked \/ approve)
    /\ UNCHANGED <<st, memory, failed, pool, late, setting, jobs, started, pq, daos, bounds>>

HoldExpires ==
    /\ hold /\ hold' = FALSE
    /\ UNCHANGED <<obj, st, pc, sys, psys, wst, pending, failed, jobs, outside>>

\* More than rfPendingMax since the query of a waiting container.
WaitExpires ==
    /\ pending /\ ~late /\ MayFail
    /\ late' = TRUE /\ lates' = lates + 1
    /\ UNCHANGED <<obj, operator, pool, setting, jobs, started, pq, daos, edits, faults, errors, outs, flips, gone>>

-----------------------------------------------------------------------------
(* The DaosPool, its controller and its queries. *)

\* The DaosPool and its system appear, and get a pool: a new one, which is whole,
\* unless one was kept.
PoolAppears ==
    /\ pool.parent # "ready" /\ obj.exists
    /\ pool' = [pool EXCEPT !.parent = IF @ = "none" THEN "empty" ELSE "ready"]
    /\ IF pool.parent = "empty" /\ ~dpool
       THEN dpool' = TRUE /\ targets' = "whole" /\ wholeSince' = TRUE
       ELSE UNCHANGED <<dpool, targets, wholeSince>>
    /\ UNCHANGED <<obj, operator, late, setting, jobs, started, pq, dc, mode, made, bounds>>

\* The DaosPool is deleted, its DAOS pool destroyed with it or kept; Kubernetes
\* removes the Jobs it owns.
PoolGoes ==
    /\ pool.parent = "ready" /\ MayChange
    /\ gone' = gone + 1
    /\ pool' = [NoPool EXCEPT !.optin = setting.optin] /\ pq' = None /\ started' = FALSE
    /\ jobs' = [j \in DOMAIN jobs |-> NoJob]
    /\ dpool' \in BOOLEAN /\ dc' = IF dpool' THEN dc ELSE None
    /\ UNCHANGED <<obj, operator, late, setting, targets, mode, made, wholeSince, edits, faults, errors, outs, flips, lates>>

\* rfExceeded looks at a pool's status only when the pool opted in.
PoolQueryStarts ==
    /\ pool.parent = "ready" /\ pool.optin /\ pq = None
    /\ pq' = IF setting.slow THEN [newer |-> TRUE, mode |-> None, targets |-> None]
             ELSE [newer |-> TRUE, mode |-> mode, targets |-> targets]
    /\ UNCHANGED <<obj, operator, pool, late, setting, jobs, started, daos, bounds>>

PoolQueryAnswers ==
    /\ pq # None /\ pq.mode = None
    /\ pq' = [pq EXCEPT !.mode = mode, !.targets = targets]
    /\ UNCHANGED <<obj, operator, pool, late, setting, jobs, started, daos, bounds>>

PoolStored ==
    /\ pq # None /\ pq.mode # None
    /\ pool' = [pool EXCEPT !.mode = pq.mode, !.targets = pq.targets, !.newer = pq.newer]
    /\ pq' = None
    /\ UNCHANGED <<obj, operator, late, setting, jobs, started, daos, bounds>>

-----------------------------------------------------------------------------
(* Jobs and DAOS. *)

\* A rank leaves: with rd_fac 0 the container becomes unclean and stays so.
RankOut ==
    /\ targets # "out" /\ dc # None /\ MayChange
    /\ targets' = "out" /\ outs' = outs + 1
    /\ dc' = [dc EXCEPT !.unclean = TRUE]
    /\ UNCHANGED <<obj, operator, pool, late, setting, jobs, started, pq, dpool, mode, made, wholeSince, edits, faults, errors, flips, lates, gone>>

\* It comes back; data_sync discards what it held.
RankBack ==
    /\ targets = "out" /\ targets' = "rebuild"
    /\ dc' = IF dc # None /\ mode = "data_sync" THEN [dc EXCEPT !.lost = TRUE] ELSE dc
    /\ UNCHANGED <<obj, operator, pool, late, setting, jobs, started, pq, dpool, mode, made, wholeSince, bounds>>

RebuildDone ==
    /\ targets = "rebuild" /\ targets' = "whole" /\ wholeSince' = TRUE
    /\ UNCHANGED <<obj, operator, pool, late, setting, jobs, started, pq, dc, dpool, mode, made, bounds>>

\* Someone else destroys the container.
Outsider ==
    /\ dc # None /\ dc' = None /\ MayChange /\ outs' = outs + 1
    /\ UNCHANGED <<obj, operator, pool, late, setting, jobs, started, pq, dpool, targets, mode, made, wholeSince, edits, faults, errors, flips, lates, gone>>

\* The mode is changed by hand, or by the DaosPool's controller.
ModeSet ==
    /\ MayChange /\ flips' = flips + 1
    /\ mode' \in Modes \ {mode}
    /\ UNCHANGED <<obj, operator, pool, late, setting, jobs, started, pq, dc, dpool, targets, made, wholeSince, edits, faults, errors, outs, lates, gone>>

Ends(op, kind, id) == jobs' = [jobs EXCEPT ![op] = Finished(@, [kind |-> kind, id |-> id])]

\* From here on every pool query that started before counts as older.
Mark ==
    /\ pool' = [pool EXCEPT !.newer = FALSE] /\ psys' = [psys EXCEPT !.newer = FALSE]
    /\ pq' = IF pq = None THEN None ELSE [pq EXCEPT !.newer = FALSE]
    /\ late' = FALSE

QueryStarts ==
    /\ setting.slow /\ jobs["query"].phase = "running" /\ ~started
    /\ started' = TRUE /\ Mark
    /\ UNCHANGED <<obj, st, pc, sys, wst, hold, pending, failed, asked, setting, jobs, daos, bounds>>

\* Something in the cluster fails; without the DaosPool and its system anything may.
Trouble ==
    \/ MayFail /\ errors' = errors + 1
    \/ pool.parent # "ready" /\ errors' = errors

\* The answer; a query that fails says nothing.
QueryFinishes ==
    /\ jobs["query"].phase = "running" /\ started' = FALSE
    /\ IF setting.slow THEN started /\ UNCHANGED <<pool, psys, pq, late>> ELSE Mark
    /\ \/ /\ errors' = errors
          /\ IF dc = None THEN Ends("query", "missing", 0)
             ELSE IF dc.unclean THEN Ends("query", "rf", 0)
             ELSE Ends("query", "found", dc.id)
       \/ Trouble /\ Ends("query", "error", 0)
    /\ wholeSince' = (targets = "whole")
    /\ UNCHANGED <<obj, st, pc, sys, wst, hold, pending, failed, asked, setting, dc, dpool, targets, mode, made, edits, faults, outs, flips, lates, gone>>

\* What an operation that works makes of the container.
Effect(op, cmd) ==
    CASE op = "create" -> [id |-> made + 1, acl |-> cmd, unclean |-> FALSE, lost |-> FALSE]
      [] op = "acl" -> [dc EXCEPT !.acl = cmd]
      [] op = "heal" -> [dc EXCEPT !.unclean = FALSE]
      [] op = "destroy" -> None

\* Nothing works in a pool that is gone; one that was kept answers for itself.
Works(op) == dpool /\ (op = "create" <=> dc = None)

\* A Job does its work and says so, or fails with its work done or not.
OpFinishes(op) ==
    /\ jobs[op].phase = "running"
    /\ \/ /\ Works(op) /\ dc' = Effect(op, jobs[op].cmd) /\ errors' = errors
          /\ Ends(op, "ok", IF op = "create" THEN made + 1 ELSE 0)
       \/ /\ ~Works(op) /\ dc' = dc /\ errors' = errors
          /\ Ends(op, IF op = "create" THEN "error" ELSE "notfound", 0)
       \/ /\ Trouble
          /\ dc' \in {dc} \cup (IF Works(op) THEN {Effect(op, jobs[op].cmd)} ELSE {})
          /\ Ends(op, "error", 0)
    /\ made' = IF op = "create" /\ dc' # dc THEN made + 1 ELSE made
    /\ UNCHANGED <<obj, operator, pool, late, setting, started, pq, dpool, targets, mode, wholeSince, edits, faults, outs, flips, lates, gone>>

JobsRemoved ==
    /\ \E j \in DOMAIN jobs : jobs[j].phase = "deleting"
    /\ jobs' = [j \in DOMAIN jobs |-> IF jobs[j].phase = "deleting" THEN NoJob ELSE jobs[j]]
    /\ UNCHANGED <<obj, operator, outside>>

-----------------------------------------------------------------------------
\* The pool's mode and opt-in are whatever humans chose.
Init ==
    /\ obj = [NoObj EXCEPT !.exists = TRUE, !.gen = 1, !.acl = 1]
    /\ st = NoStatus /\ setting \in Settings /\ pool = [NoPool EXCEPT !.optin = setting.optin]
    /\ pc = "idle" /\ sys = NoObj /\ psys = NoPool /\ wst = NoStatus
    /\ hold = FALSE /\ pending = FALSE /\ late = FALSE
    /\ jobs = [j \in Ops \cup {"query"} |-> NoJob] /\ started = FALSE /\ pq = None
    /\ dc = None /\ dpool = FALSE /\ targets = "whole" /\ mode = setting.mode
    /\ made = 0 /\ failed = 0 /\ asked = FALSE /\ wholeSince = FALSE
    /\ edits = 0 /\ faults = 0 /\ errors = 0 /\ outs = 0 /\ flips = 0 /\ lates = 0 /\ gone = 0

Reconcile ==
    \/ NoParent \/ AddFinalizer \/ PoolNotReady \/ Poll \/ PollDone
    \/ Held \/ Probing \/ QueryFails \/ Missing \/ Found \/ RfExceeded
    \/ Released \/ DestroyHeld \/ DestroyWait \/ DestroyDone

Operator == BeginPass \/ Reconcile \/ UpdateStatus

Human == Edit \/ \E b \in BOOLEAN : Delete(b)

PoolController == PoolQueryStarts \/ PoolQueryAnswers \/ PoolStored

Cluster == QueryStarts \/ QueryFinishes \/ JobsRemoved \/ \E op \in Ops : OpFinishes(op)

Daos == Outsider \/ RankOut \/ RankBack \/ RebuildDone \/ ModeSet

Next ==
    \/ Operator \/ PassEnds \/ Human \/ HoldExpires \/ WaitExpires
    \/ PoolAppears \/ PoolGoes \/ PoolController \/ Cluster \/ Daos

Spec == Init /\ [][Next]_vars

\* Passes repeat, also those of the DaosPool; Jobs end; the hold is a time; a pool
\* somebody still wants appears and its ranks come back.
FairSpec ==
    /\ Spec /\ WF_vars(Operator) /\ WF_vars(Cluster) /\ WF_vars(HoldExpires)
    /\ WF_vars(PoolAppears /\ ~obj.deleted) /\ WF_vars(PoolController) /\ WF_vars(RankBack) /\ WF_vars(RebuildDone)

-----------------------------------------------------------------------------
(* Properties. *)

TypeOK ==
    /\ obj \in Objects /\ sys \in Objects /\ st \in Statuses /\ wst \in Statuses
    /\ pool \in Pools /\ psys \in Pools /\ pq \in PoolQueries \cup {None}
    /\ pc \in {"idle", "go", "update"} /\ {hold, pending, late, started, dpool, wholeSince, asked} \subseteq BOOLEAN
    /\ jobs \in [Ops \cup {"query"} -> Job(Nat, Outs)]
    /\ dc \in DaosContainers \cup {None} /\ targets \in Targets /\ mode \in Modes
    /\ setting \in Settings /\ made \in Nat /\ failed \in Nat
    /\ {edits, outs, flips, gone} \subseteq 0..MaxChanges /\ {faults, errors, lates} \subseteq 0..setting.maxFaults

\* rfExceeded (daoscontainer_controller.go:355-357): the operator sets a container
\* healthy only when no data of it was dropped on the way back, as long as nobody
\* changed the reintegration mode.
HealedIsIntact == flips = 0 /\ jobs["heal"].phase = "running" => dc = None \/ ~dc.lost

\* rfExceeded (daoscontainer_controller.go:358-359): the operator starts to clear
\* the status only when the pool has been whole at some time since DAOS refused the
\* container, whatever happened to the pool since then, as long as queries answer as soon as their pod starts.
HealAfterRefusal ==
    [][ ~setting.slow /\ jobs["heal"].phase = "absent" /\ jobs'["heal"].phase = "running" => wholeSince ]_vars

HealsInTheEnd ==
    pool.optin /\ dc # None /\ dc.unclean ~> dc = None \/ ~dc.unclean \/ mode # "incremental"

\* Without its pool and its system the object owes nothing.
Owned == INSTANCE OwnedData WITH
    object  <- IF ~obj.exists THEN "gone" ELSE IF obj.deleted THEN "deleting" ELSE "live",
    data    <- IF dc = None THEN 0 ELSE dc.id,
    doubts  <- faults + failed + gone,
    others  <- <<outs, pool.parent>>,
    owed    <- obj.approved /\ st.uuid # 0 /\ pool.parent = "ready" /\ psys.parent = "ready",
    blocked <- FALSE

\* Reconcile, ContainerMissing (daoscontainer_controller.go:308-312), finalize and
\* releaseOrphan (235-238): a DaosContainer implements OwnedData.  A container that
\* disappears is not silently made again, empty; it is destroyed only on approval,
\* and before the DaosContainer that knows it goes, as long as its DaosPool is there.
OwnsItsContainer == Owned!Safety

\* rfPending (daoscontainer_controller.go:412-416) and finalize: in an opted-in pool
\* that stays incremental, a container is not refused for ever once every rank is
\* back; and a deletion always ends, also when DaosPool or DaosSystem is gone.
Settles == HealsInTheEnd /\ Owned!DeletionEnds
=============================================================================
