# Verification of the DAOS operator

TLA+ models of gluesys/daos-operator, checked with TLC on small instances, with
TLAPS proofs of the safety properties of all nine components. File names are
relative to the repository; `PROJECT.json` gives the lines behind every definition.

## The system

The operator is a set of controller-runtime reconcilers with one worker each.
DAOS is reached only through Kubernetes Jobs that run one `dmg` or `daos` command.

| Component | State | Operations | Module |
|---|---|---|---|
| Job runner (`internal/dmg`) | one Job per fixed name | create, wait, read and delete | `DmgJob` |
| Rank operations | `rank-op`, `rank-op-discard-data`, `status.lastRankOp` | guard, send, retry, record, remove | `RankOp` |
| Full-stop restart | `spec.upgrade.approved`, `certs-renew-approved`, `status.upgrade`, certificate Secrets, pods | five phases, rotation, time limit | `FullStop` |
| Format gate and membership | `format-approved`, `status.formatted`, `pendingFormat`, `ranks` | query, format | `FormatGate` |
| Engine restart | in-memory tracks, the Job in flight | start, give up, delete stuck pods | `EngineRestart` |
| Nodes, role, workloads | `status.msReplicaNodes`, ConfigMaps, StatefulSets | select, exclude, hand out the role, render | `NodeConfig` |
| DaosPool | `status.operation`, `uuid`, `appliedACLHash`, finalizer | create, extend, ACL, set-prop, destroy | `DaosPool` |
| DaosContainer | the same, plus the pool's status | create, ACL, heal, destroy, release | `DaosContainer` |
| One pass over a DaosSystem | engines, pods, Jobs in flight, `EnginesReady`, `Ready` | restart, query, rank operation, engine start, in this order | `SystemPass` |
| S3Service | Deployment, `status`, the requeue | refuse, apply, report | `S3Service` |
| Telemetry, client agents | applied objects | idempotent applies | none |
| Host preparation, certificate contents, rendering | sysfs, keys, YAML | I/O and formatting | facts arriving and getting lost, in `NodeConfig` |

What makes it hard:

- A pass works on a copy of the object and stores the status last. Humans, Jobs,
  pods and DAOS move between its steps. An API error or a restart loses what it
  was about to store.
- A Job is known by its name. `Run` does not compare its command with the one
  wanted, and deletes a finished Job before its caller records the outcome.
- Approvals are consumed by patches, which can fail or meet a newer approval.
- Statuses are as old as the query behind them, and controllers read each
  other's statuses.
- Some state (probe holds, engine tracks, pending heals) is in memory only.

## How the modules correspond to the code

Each module has `pc` for where the pass is, the copy it read (`sys`) and the
status it builds (a name starting with `w`). `BeginPass` is the read, the next
actions are the branches of the sub-reconciler, `UpdateStatus` is
`updateStatus`, `PassEnds` is an early end that loses the working status. Jobs
are values of `DmgJob`. Requests, pools and certificate bundles carry
identities the code does not see; they and other history variables are marked.

Time is abstract: an interval is a Boolean or a tick count that the environment
changes. Job output is the set of outcomes the callers tell apart. Messages,
events and conditions without influence on control are left out.

`SystemPass` composes the steps of a pass over a DaosSystem that share its
engines: restart (7c), membership query (8), rank operation (8b), engine
condition (8c), engine restart (8d) and condition Ready (9). Each part is an
abstraction of its own module (`FullStop`, `FormatGate`, `RankOp`,
`EngineRestart`) that keeps what the others can see of it: the engines, the pods,
the stored status, and the six Jobs, which outlive the step that created them.
What only delays the next Job is left out there (probe holds, the time until a
deleted Job is gone), as are guards of single requests, which that module covers.

`FullStop` begins where a pass reads the DaosSystem. A pass may return before or at
the start of `reconcileUpgrade`: too few nodes, no engines in the spec, no server
rendered, servers disabled (`NotReached`). It then leaves everything as it is: a
restart neither goes on nor times out meanwhile. An engine that never
registered is in no member list, so neither the start nor the verification of a
restart knows of it (`daossystem_controller.go:476-480` tells of such engines);
one that died is listed as joined until DAOS notices. Both are states of `engine`.

In `NodeConfig` a node's annotations are a set of its drives. `hostprep` rewrites
them in every round (`cmd/hostprep/main.go:84-97`): drives are added, taken out
or all lost (`FactsArrive`, `FactsLost`). A pass works on the annotations it
listed, and a configuration keeps the drives it was rendered with, or those the
spec lists (`SpecBdevs`). `hidden`, `clashed` and `steady` are history.

In `DaosPool` a write from a copy that is behind is refused (`Current`), and the
query's second command, `pool get-prop`, may not answer, which leaves the recorded
properties as they were. In `DaosContainer` the DaosPool and its system may go and
come back under a live container, with its Jobs and with or without the DAOS pool;
a pool that is made anew is whole and keeps the mode of before. In `FormatGate`
the approval is patched away before the hold is dropped. In `SystemPass` the
verification may miss a death, or meet a member list that cannot be read, which
ends the restart.

`S3Service` has one action per early return or API write of its `Reconcile`, the
work queue, the requeue timer, and the Deployment's rolling replacement as
external.

`OwnedData` is abstract: it says what a DaosPool and a DaosContainer promise of
the data behind them, with no Jobs, queries, passes or statuses in it. `DaosPool`
and `DaosContainer` instantiate it with a refinement mapping (`Owned`), and
`OwnsItsPool` and `OwnsItsContainer` say that every step of theirs is a step of it
or a stutter (`OwnedData!Safety`). That a deletion ends (`OwnedData!DeletionEnds`)
is part of `Settles` in both modules. The mapping takes the doubts that excuse a
second copy from the faults, stale reads and failed creations of the detailed
module, and from Jobs that went with the pool of a container; every create
reported as failed counts as one, since it may have made the data. A destruction
is owed for the data the stored status knows. A pass that reads a status behind
the stored one can start a second create Job; a pool that this one makes, after
the known pool was destroyed by somebody else, is not known to the object and
may outlive it.

The `MC*` modules only define constants; the cfg files give values to constants
and replace nothing else.

## Runs

A configuration has the name of its run. Bounds are named constants (`Max*`), for
faults of `Container` a field of its settings (`maxFaults`).

| Run | Bounds | Shows |
|---|---|---|
| RankOpHasty | 1 rank, 1 kvcache pool, 2 requests at any time, 1 fault, the pool's mode drifts | a re-send has a fault behind it; no unaccepted data loss |
| RankOpPatient | 1 rank, 2 requests of any operation, 1 fault, pods and ranks flap, fair | ok means carried out; only a fault leaves a request unanswered; every request leaves |
| FullStop | 2 nodes, 2 images, 1 approval of each kind and 1 fault, 2 of these at once, 1 of: engine dies, is started by hand, stays up in a stop; 1 edit, the engine of node 2 registered or not, early returns, a time limit, fair | one restart per approval, plus lost passes; an approved rotation takes place; swap with engines down; the bundle in use is backed up; Completed means that no member is left stopped; a restart ends |
| FormatGate | 2 nodes, none selected at first, managed and external, 2 approvals, 1 fault, 1 flip, 1 swap, fair | one format per approval, plus lost passes; only hosts reported blank; the status comes to tell the truth |
| EngineRestart | 2 ranks on 2 nodes, 2 tries, 2 events, 1 fault or restart, fair | starts are bounded; a pod is deleted only after a start for it, and not under a joined rank the start did not name; a dead rank is given up |
| Pool | 1 edit, 2 troubles of: fault, stale read, error, drift, system deleted; both properties pinned with edits between operations, none pinned with humans at any time; deletion; fair | implements `OwnedData`; the recorded ACL is the pool's; pool and spec agree in the end if nothing failed for that spec; a deletion ends |
| Container | 1 change (edit, rank out, mode, outsider, pool goes), 1 fault, error or late wait; both modes, slow queries without faults; deletions; fair | healed only when intact and whole at some time since; a refused container is cleared; implements `OwnedData`; a deletion ends |
| NodeConfig | 3 nodes of which 1 (two drives) and 3 share a drive, 1 replica, nodes 2 and 3 selected first, 1 join; 1 leave, 1 loss of annotations, 1 fault, 2 edits, 2 of these at once; fair | no later node founds a second system; no two servers on one drive; the role stays; configurations agree at rest |
| SystemPass | 2 nodes, 1 approval, 2 events of: engine death, rank operation, engine start, withdrawal, time limit, query that fails, misses a death or cannot be read, failed rank operation, cut pass; fair | the restart is not disturbed; swap with engines down; `Ready` and `EnginesReady` come to tell the truth |
| S3Service | up to 2 replicas, 2 images, 2 edits, 1 of: pool changes, pod dies, cut pass; fair | no two pods of one template with a user list each; Deployment and status come to match spec, pool and pods |
| PoolRetried (violation) | 1 edit, 1 error | a failed operation is retried for the same spec |
| NodesRoleWiped (violation) | 3 nodes, 3 replicas, 1 leave | an early return forgets the role of replicas that stayed |

One of each disturbance in every place, and two where they must meet (two requests
for one Job name, a drive on two nodes, two format approvals), are the smallest
numbers at which the listed hazards appear; the disagreements below were found at
such bounds. They remain bounds: apart from the theorems, nothing is claimed
beyond them. In particular `FullStop` sees one approval of each kind, `SystemPass`
one approval and `RankOp` one rank, and one rank per node, so that only the
theorem about `PodDeletedAfterItsStart` covers a joined rank beside a stuck one.
The largest runs take one to four minutes: FormatGate 2.2 million states,
SystemPass 1.4, FullStop 1.1, Pool and NodeConfig 0.9, Container 0.5. Container
was also run with two changes (`MaxChanges = 2`, 6.5 million states, half an hour)
without an error.

Pool and Container say `CHECK_DEADLOCK FALSE`: once the object is gone nothing
happens any more. So does S3Service: after a refusal the controller rests until
the spec changes.

### Premises, and what the code does without them

A property that the code breaks in a known way carries that way as a premise, so
that the rest of it is still checked. TLC gives a counterexample when the premise
is dropped: for mode changes and failed creates of containers with two changes,
for `bdevList` with `SpecBdevs = TRUE`, for certificates after an image upgrade
with three faults, for `RoleKept` and a leave with three replicas, otherwise at
the bounds above. Two rows, marked *assumed*, are about what the models leave out
or what the code promises not to do, and have no such counterexample.

| Property | Premise | Without it |
|---|---|---|
| `OkMeansRan` | humans wait for the last Job (`Manner`) | a request written while an older Job runs is answered with that Job's outcome (`daossystem_rankop.go:287`) |
| `UnansweredNeedsFault` | humans do not write during a pass (`Manner`) | the removing patch also removes a newer request (`daossystem_rankop.go:222`) |
| `ResendNeedsFault`, `OneFormatPerApproval`, `OneRunPerApproval` | the bound counts faults | a pass cut short after `Run` read the Job repeats the command; `constants.go:66` says "runs it once", `constants.go:47` "exactly once" |
| `ApprovalHonoured` | the rotation was not approved during a pass or a restart (`late`) | the end of an image upgrade removes the approval without a rotation (`daossystem_upgrade.go:150`); `constants.go:58-59` says that it is removed when the rotation finishes |
| `SwapWhileDown`, `CompletedMeansJoined` | no restart timed out (`meddled`) | stop and query Jobs of that restart answer the next one (`daossystem_upgrade.go:213`, `:293`) |
| the same | no engine was started by hand or image edited mid-run | pods are deleted, or reported joined, while engines move |
| `CompletedMeansJoined` | it speaks of listed members, and of "stopped", not of "down" | an engine that never registered is not waited for, and one that died unnoticed, or after the query, is reported joined (`daossystem_upgrade.go:314-324`) |
| `RunEnds` | passes reach `reconcileUpgrade` time and again | while they return early (`NotReached`) the time limit is not looked at |
| `SwapWhileDown` | no fault | a pass cut short after it sent the stop leaves no recorded restart; engines started by hand before the next pass are up when it goes on from the old Job |
| the same | dmg system stop did not answer ok with an engine left up (`partial`) | single ranks that did not stop are not looked at, and pods are deleted under them (`daossystem_upgrade.go:224`); `CompletedMeansJoined` holds nevertheless |
| `CompletedMeansJoined`, certificates of an image upgrade | no fault | a rotation cut short while it deletes pods, and failing when it rotates again, leaves pods with an older bundle; a later image upgrade keeps those whose image is right (`daossystem_upgrade.go:245`) |
| `SwapsWhileDown` | nothing was dead or in flight when the stop answered (`late`) | an engine start or rank operation created before the restart, or daos_server itself, brings an engine up after it (`daossystem_controller.go:457`) |
| `RestartUndisturbed`, `SwapsWhileDown` | no time limit or cut pass (`excused`) | Jobs of a restart that was given up run on beside the steps that follow it |
| `PreviousKept` | no fault | a pass cut short after `rotateCerts` rotates again and overwrites the backup (`daossystem_upgrade.go:234`) |
| `FormatOnEvidence` | no formatted system seemed unformatted (`misread`) | "raft service unavailable" counts as never formatted (`dmg.go:460`), and an approval formats every host |
| `PodDeletedAfterItsStart` | the operator was not restarted | a Job from before the restart is taken for the start of other ranks (`daossystem_enginerestart.go:200`) |
| the same, joined ranks | the start did not name them | the pod of a rank that was named is deleted although the status shows that it joined since (`daossystem_enginerestart.go:233-237`) |
| `AppliedIsWritten`, `Settles` of pools | edits between operations (`patient`) | an ACL edited while its Job runs is recorded as written (`daospool_controller.go:702`, `:705`), and then never written |
| the same | nobody else changes the ACL of the pool (*assumed*, `Outsider` does not) | the code compares the spec with the ACL it recorded (`daospool_controller.go:391`), never with the pool's |
| `Settles` of pools, spec | no operation failed for the spec as it is (`failed`; *assumed*) | a failed operation is not to be retried until the spec changes (`:381-382`). The code does retry (run PoolRetried), so that the spec is reached if the Job works some time |
| `OwnsItsPool` | the destruction owed is that of the pool the status knows | a pool made by the create Job of a stale read is left behind |
| `Settles` of pools | a DaosSystem exists, or comes back (`blocked`) | a deleted DaosPool keeps its finalizer (`daospool_controller.go:239`) |
| `OwnsItsPool`, `OwnsItsContainer` | the bound on copies counts doubts | after a cut pass, a stale status, a create that failed late or Jobs that went with the pool the data is made again |
| `HealedIsIntact` | the reintegration mode is not changed | data dropped under `data_sync` is forgotten once the mode is incremental (`daoscontainer_controller.go:368`) |
| `HealAfterRefusal` | queries answer at once (`slow`) | start times are compared, answers come later (`daoscontainer_controller.go:374`) |
| the same | the pool was whole *at some time* since the refusal | a rank may leave again between the pool's answer and the start of the heal Job, or before `pollOp` creates it again (`:457`); no reader of the status can exclude it |
| `OneList` | per template | while one template replaces another, as after an image edit, the Deployment runs a pod of each, and each has a user list (`s3service_controller.go:242`) |
| `GatewayConverges` | the spec is not refused | the refusal ends without a requeue, so `PoolReady` stays as it was when the pool changes (`s3service_controller.go:120`) |
| `OneSystem` | `Undisturbed` | a cut pass, a leave, emptied `spec.engines`, or a drive conflict moves the role to a node that founds a second system (`daossystem_controller.go:361`, `:240`) |
| `NoSharedDrive` | neither node left or had a drive taken out of its annotations (`hidden`), devices come from node facts | a deselected node keeps its server (`:159`), and so does one whose annotations were rewritten without the drive; with `bdevList` nodes are rendered before their serials are known (`:214`) |
| `RoleKept` | nobody left, `spec.engines` was never emptied (`emptied`) | run NodesRoleWiped |

Other disagreements of code and text that TLC showed on these models, or on
versions of them with the property added:

- A rank request whose guards turn false while its Job runs is recorded as
  refused although DAOS carries it out (`daossystem_rankop.go:258`).
- An external system has no server pods, so every reintegrate of an excluded rank
  is refused (`External = TRUE`); `daossystem_external.go:37-39` says that rank
  operations work as on a managed system.
- A certificate rotation, or any other restart, takes along an image that was
  edited and not approved (`daossystem_upgrade.go:245`).
- A restart whose dmg system start fails leaves the engines stopped; the engine
  restart leaves ranks that were stopped alone, so only a human starts them.
  `ConditionsConverge` shows that the conditions say so.
- The time limit runs from the start of the restart; `daossystem_types.go:228`
  says "in each phase".
- A query answered before a format can be collected after it, and a second
  approval then covers hosts that carry data (`daossystem_format.go:164`).
- Deletion during a create leaves the pool or container behind although its
  destruction was approved (`daospool_controller.go:729`,
  `daoscontainer_controller.go:503`).
- A destroy approval withdrawn while the destroy Job runs releases the pool as
  kept, and the Job destroys it (`daospool_controller.go:761-762`).

Some rest on assumptions about DAOS, which is not in the repository. A format
Job formats the hosts it is given: dmg may itself refuse to format storage that
is in use, and the operator passes no `--force`, so the models show what the
operator asks for. A formatted system can answer "raft service unavailable"
during an outage. Reintegration under `data_sync` discards data, as the code's
comment says.

## Fairness

Liveness is checked in the runs marked fair, under weak fairness of

- the operator: controller-runtime requeues every pass with a delay;
- Jobs finishing and being removed: Jobs have a deadline, deletion is the
  garbage collector's;
- time (`Tick`, `WindowPasses`, `HoldExpires`, `TimePasses`);
- the pool controller's queries, ranks coming back and rebuild in
  `DaosContainer`, host preparation in `NodeConfig`;
- pods coming back in `SystemPass` and the rollout in `S3Service`: the
  StatefulSet and Deployment controllers do that;
- in `S3Service`, passes only when the request is queued, which an event, an
  error or the requeue timer does.

Nothing is assumed of humans, nor of engines coming up by themselves in
`SystemPass`. `RunEnds` needs only the operator and the clock, and strong fairness
of `reconcileUpgrade`: passes may return early, but not for ever. `DaosContainer`
assumes that a DaosPool that went comes back while the container is live. Ranks coming back
is an assumption on the hardware; without it a container is rightly never
cleared.

## Proofs

Each proof module extends the module it is about; the theorem about `S3Service` is
at the end of `DaosPool_proofs`, which instantiates that module with variables of
its own (`Gateway`). A theorem holds for every value of the constants that
satisfies the assumptions named in that module: any nodes, ranks and pools, and
any bound on requests, edits, approvals and faults, so that the bounds of the runs
drop out. The assumptions are the types of the constants, that finite sets are
finite, and that `None` is none of the values it stands in for (`NoneIsNo...`);
TLC evaluates them in the runs. `ListsAreOne` needs none of `S3Service`. Where the
property has a premise, so has the theorem.

Most leaves name the prover: Zenon where no arithmetic is needed, which keeps the
time of a module's proofs linear in their number.

Every proof module has `Typing` (`TypeOK`; of `FullStop` it is only proved). The
other theorems, none of which states an inductive invariant, rest on these:

| Theorem | Property | Inductive invariant, and what it adds |
|---|---|---|
| `RankOp_proofs!ResendsNeedFaults` | `ResendNeedsFault` | `ResendInv`: identities in use were written; a request that may still be sent, with no result of it waiting in the Job, was sent at most as often as there were faults |
| `RankOp_proofs!LossIsAccepted` | `NoUnacceptedLoss` | `GateInv`: the recorded mode of a pool is right unless changed by hand; the command of a running Job passed the guards |
| `RankOp_proofs!OkAnswersRan` | `OkMeansRan` | `OkInv`: annotation, copy and Job all carry the last request, and a result that reached DAOS was counted |
| `RankOp_proofs!AnswersAreKept` | `UnansweredNeedsFault` | `AnswerInv`: at most one removed request per fault is neither answered nor held by the pass |
| `FormatGate_proofs!FormatsNeedApprovals` | `OneFormatPerApproval` | `ApprovalInv`: the annotation, and the copy a pass acts on, each count as a Job to come unless a Job exists |
| `FormatGate_proofs!FormatsRestOnEvidence` | `FormatOnEvidence` | `EvidenceInv`: what statuses and unread answers call waiting was blank when the query ran |
| `FullStop_proofs!RunsNeedApprovals` | `OneRunPerApproval` | `ApprovalInv`: approvals held, and those the pass has not seen, are runs to come |
| `FullStop_proofs!ApprovalsAreHonoured` | `ApprovalHonoured` | `HonourInv`: every pass since the approval has seen it, so the restart in progress is a rotation; one past the swap left a newer bundle than it found |
| `FullStop_proofs!BackupHolds` | `PreviousKept` | `BackupInv`: before the rotation the Secret holds the old bundle, after it the backup does |
| `FullStop_proofs!SwapsWhileDown` | `SwapWhileDown` | `SwapInv`: stop and start Jobs, and pods on their way, exist only in their phases; after a stop all engines are down |
| `FullStop_proofs!CompletedIsJoined` | `CompletedMeansJoined` | `JoinInv`: past the swap pods are new, no stop Job is left, and what the verify Job answered still holds: no member is stopped again |
| `EngineRestart_proofs!StartsAreBounded` | `StartsBounded` | `StartInv`: every start is paid for by a try, a restart of the operator or a fault |
| `EngineRestart_proofs!PodsDeletedAfterTheirStart` | `PodDeletedAfterItsStart` | `FlightInv`: the Job carries the ranks that memory says |
| `NodeConfig_proofs!DrivesNotShared` | `NoSharedDrive` | `DriveInv` (`Seen`): unless hidden, a node that has a server is selected and still shows the drives of its configuration, and a pass that renders another node has seen them |
| `NodeConfig_proofs!RolesAreKept` | `RoleKept` | `RoleInv`: what is recorded is selected and seen, so that no early return forgets it |
| `NodeConfig_proofs!OneSystemIsFounded` | `OneSystem` | `OneInv`: once anything is written, role and configurations are those of the first role |
| `SystemPass_proofs!RestartsAreUndisturbed` | `RestartUndisturbed` | `PhaseInv`: stop and start Jobs exist only in their phases, and later steps run only without a phase |
| `SystemPass_proofs!SwapsOnlyWhileDown` | `SwapsWhileDown` | `SwapInv`: after the stop no engine is up and no Job that could bring one up runs |
| `DaosContainer_proofs!HealsOnlyTheIntact` | `HealedIsIntact` | `IntactInv`: every copy of the mode agrees with the pool's, and heals are wanted only when it is incremental |
| `DaosContainer_proofs!HealsFollowRefusals` | `HealAfterRefusal` | `RefusalInv`: a pool status newer than the refusal that shows it whole is still true |
| `DaosPool_proofs!AppliedSafely` | `AppliedIsWritten` | `WrittenInv`: Jobs carry the ACL of the spec, and an ACL that any status or finished Job vouches for is the pool's |
| `DaosContainer_proofs!OwnsSafely`, `DaosPool_proofs!OwnsSafely` | `OwnsItsContainer`, `OwnsItsPool` | `OwnedInv`, below |
| `DaosPool_proofs!ListsAreOne` | `OneList` | `ListInv`: neither the Deployment nor a spec that a pass accepted asks for two such pods, whatever spec is stored by now |

The two refinement theorems are `Spec => Owned!Safety`: initial states map to
initial states, and every step maps to a step of `OwnedData` or a stutter
(`OwnedRefined`, one step per action). `OwnedInv` relates four things that are
never written together: the status stored, the status the pass is about to store,
the Jobs, and the data in DAOS. In `DaosPool`, `KnownInv` adds to it which copies
the identities in statuses and Jobs may stand for. Its core is `Accounted`: there are at most as many
copies as doubts, plus one, and when there is that one more the status knows of it
or the create Job that tells of it is still there. `CreatesBlindly` says when a
create may run, `DestroyedForGood` what a destroy Job leaves, `Approvals` that no
destroy is on its way without one. In `DaosPool` a pass may read a status behind
the stored one; then `Books` has to balance for the status read and for the stored
one, with one doubt fewer, and `Fresh` holds only until the first such read.

Attempts at these proofs corrected properties that held at the bounds of the runs
only: the doubts of `OwnsItsPool` did not count every failed create,
`OneSystem` did not except `spec.engines` emptied and filled again, and
`CompletedMeansJoined` claimed the current certificates after image upgrades with
any number of faults. `RoleKept` became stronger: it used to except every edit.

Only model-checked:

- liveness, which is out of the prover's reach: `RequestLeaves`, `RunEnds`,
  `StatusConverges`, `GivesUpInTheEnd`, `ConfigsAgree`, `ConditionsConverge`,
  `GatewayConverges`, and `Settles` of `DaosPool` and `DaosContainer`;
- the two violation runs, which are counterexamples.

## Not modelled

- Telemetry and client agents: idempotent applies without a decision.
- The contents of configurations and certificates, device discovery, parsing.
- `jobName`'s hashing: Job names are taken as distinct.
- More than one engine per node in `FormatGate` and `SystemPass`; edits of
  `msReplicas`; more than one replica with shared drives; several pools or
  containers at once.
- In `SystemPass`: stale members of an earlier install, disabled servers, systems
  that are not formatted, and a stop that stops some engines only (`FullStop` has
  it).
- In `FullStop`: disabled servers, whose pods go; there only the early return is
  modelled.
- In `S3Service`: deletion, which is garbage collection, and the Service object,
  which follows the Deployment.
- The bdev layout check and the rendered server configuration: string handling
  within one pass.

## Plan

1. Replace the pool's abstraction in `DaosContainer` by the module `DaosPool`.
2. An abstract one-shot approval, implemented by `RankOp`, `FullStop` and
   `FormatGate` through refinement mappings. Their invariants `ResendInv` and
   `ApprovalInv` have the same shape.
