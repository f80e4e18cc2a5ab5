----------------------------- MODULE S3Service -----------------------------
(***************************************************************************)
(* The S3 gateway (internal/controller/s3service_controller.go).           *)
(*                                                                         *)
(* A pass reads the S3Service, then its DaosPool and DaosSystem, refuses   *)
(* several replicas that would each keep a user list of their own, brings  *)
(* Deployment and Service in step with what it read, and writes the status *)
(* to the object it read.  S3Service and Deployment are watched; the pool  *)
(* is not, so the controller polls it, except after a refusal.             *)
(*                                                                         *)
(* Kubernetes replaces the pods of a Deployment one by one, a new one      *)
(* before an old one goes, as its default strategy does.                   *)
(***************************************************************************)
EXTENDS Naturals, FiniteSets, FiniteSetsExt

CONSTANTS
    None,         \* there is no Deployment
    MaxReplicas,  \* bound: spec.replicas
    Images,       \* what spec.image may be
    MaxEdits,     \* bound: spec edits
    MaxTroubles   \* bound: changes of the pool, pods that die, passes cut short, together

ASSUME S3ServiceAssumption ==
    /\ MaxReplicas \in Nat /\ IsFiniteSet(Images) /\ Images # {}
    /\ MaxEdits \in Nat /\ MaxTroubles \in Nat

\* Where the users and keys are: an emptyDir of the pod, or a claim or external
\* service that the pods share.
IAM == {"pod", "shared"}

Templates == [iam : IAM, image : Images]
Specs     == [replicas : 0..MaxReplicas, template : Templates]

\* No DaosPool; no DaosSystem for it; a pool that is not Ready; a Ready one.
Pools == {"PoolNotFound", "SystemNotFound", "PoolNotReady", "Ready"}

\* Reason of condition Ready, of condition PoolReady, and status.readyReplicas.
Statuses == [ready : Pools \cup {"ReplicasUnsafe", "ScaledToZero", "NoReadyReplicas"},
             pool : Pools, replicas : Nat]

VARIABLES
    spec, status,       \* the S3Service
    pool,               \* the DaosPool and its DaosSystem
    dep,                \* the Deployment: its spec and status.readyReplicas
    pods,               \* Ready gateway pods for each template
    queued, timer,      \* the request is in the work queue; a requeue is pending
    pc, svc, wst,       \* the pass: the S3Service it read, the status it builds
    edits, troubles     \* edits is also what the resourceVersion tells apart

object  == <<spec, status>>
cluster == <<pool, dep, pods>>
queue   == <<queued, timer>>
pass    == <<pc, svc, wst>>
bounds  == <<edits, troubles>>
vars    == <<object, cluster, queue, pass, bounds>>

NoStatus == [ready |-> "PoolNotFound", pool |-> "PoolNotFound", replicas |-> 0]
NoSvc    == [spec |-> None, version |-> 0, requeue |-> FALSE]

Serving == MapThenSumSet(LAMBDA t : pods[t], Templates)

-----------------------------------------------------------------------------
(* Reconcile. *)

BeginPass ==
    /\ pc = "idle" /\ queued
    /\ queued' = FALSE /\ timer' = FALSE
    /\ svc' = [spec |-> spec, version |-> edits, requeue |-> FALSE] /\ wst' = status
    /\ pc' = "pool"
    /\ UNCHANGED <<object, cluster, bounds>>

\* variant: two replicas pass for one
UnsafeAboveTwo(s) == s.replicas > 2 /\ s.template.iam = "pod"

\* validateReplicas
Unsafe(s) == s.replicas > 1 /\ s.template.iam = "pod"

\* variant: a pool that does not exist is not asked for again
AnswerOnce(reason, requeue) ==
    /\ wst' = [wst EXCEPT !.ready = reason, !.pool = pool]
    /\ svc' = [svc EXCEPT !.requeue = requeue /\ pool # "PoolNotFound"]
    /\ pc' = "status"

\* The pass ends with this reason, and is repeated after a while or is not.
Answer(reason, requeue) ==
    /\ wst' = [wst EXCEPT !.ready = reason, !.pool = pool]
    /\ svc' = [svc EXCEPT !.requeue = requeue]
    /\ pc' = "status"

\* The pool and its system are read, the replicas validated.
ReadPool ==
    /\ pc = "pool"
    /\ IF pool # "Ready" THEN Answer(pool, TRUE)
       ELSE IF Unsafe(svc.spec) THEN Answer("ReplicasUnsafe", FALSE)
       ELSE pc' = "apply" /\ wst' = [wst EXCEPT !.pool = pool] /\ svc' = svc
    /\ UNCHANGED <<object, cluster, queue, bounds>>

\* applyDeployment
Applied == [spec |-> svc.spec, ready |-> IF dep = None THEN 0 ELSE dep.ready]

ReadyReason ==
    IF svc.spec.replicas = 0 THEN "ScaledToZero"
    ELSE IF Applied.ready = 0 THEN "NoReadyReplicas"
    ELSE "Ready"

\* Deployment and Service are created or updated; a change is an event.
Apply ==
    /\ pc = "apply"
    /\ dep' = Applied /\ queued' = (queued \/ Applied # dep)
    /\ wst' = [wst EXCEPT !.ready = ReadyReason, !.replicas = Applied.ready]
    /\ svc' = [svc EXCEPT !.requeue = TRUE]
    /\ pc' = "status"
    /\ UNCHANGED <<object, pool, pods, timer, bounds>>

Return == pc' = "idle" /\ svc' = NoSvc /\ wst' = NoStatus

\* updateStatus: on a conflict the pass fails and is queued again.
UpdateStatus ==
    /\ pc = "status"
    /\ IF svc.version = edits
       THEN status' = wst /\ timer' = svc.requeue /\ queued' = (queued \/ wst # status)
       ELSE queued' = TRUE /\ UNCHANGED <<status, timer>>
    /\ Return
    /\ UNCHANGED <<spec, cluster, bounds>>

Trouble == troubles < MaxTroubles /\ troubles' = troubles + 1

\* An API error, or a restart of the operator.
PassEnds ==
    /\ pc # "idle" /\ Trouble
    /\ queued' = TRUE
    /\ Return
    /\ UNCHANGED <<object, cluster, timer, edits>>

-----------------------------------------------------------------------------
(* Humans, time and Kubernetes. *)

EditSpec ==
    /\ edits < MaxEdits /\ edits' = edits + 1
    /\ spec' \in Specs \ {spec} /\ queued' = TRUE
    /\ UNCHANGED <<status, cluster, timer, pass, troubles>>

TimerFires ==
    /\ timer /\ timer' = FALSE /\ queued' = TRUE
    /\ UNCHANGED <<object, cluster, pass, bounds>>

PoolChanges ==
    /\ Trouble /\ pool' \in Pools \ {pool}
    /\ UNCHANGED <<object, dep, pods, queue, pass, edits>>

PodDies(t) ==
    /\ Trouble /\ pods[t] > 0 /\ pods' = [pods EXCEPT ![t] = @ - 1]
    /\ UNCHANGED <<object, pool, dep, queue, pass, edits>>

\* The Deployment: one pod more than spec.replicas while it replaces them.
PodReady ==
    /\ dep # None /\ pods[dep.spec.template] < dep.spec.replicas /\ Serving <= dep.spec.replicas
    /\ pods' = [pods EXCEPT ![dep.spec.template] = @ + 1]
    /\ UNCHANGED <<object, pool, dep, queue, pass, bounds>>

PodGoes(t) ==
    /\ dep # None /\ pods[t] > 0 /\ Serving > dep.spec.replicas
    /\ t = dep.spec.template => pods[t] > dep.spec.replicas
    /\ pods' = [pods EXCEPT ![t] = @ - 1]
    /\ UNCHANGED <<object, pool, dep, queue, pass, bounds>>

DeploymentReports ==
    /\ dep # None /\ dep.ready # Serving
    /\ dep' = [dep EXCEPT !.ready = Serving] /\ queued' = TRUE
    /\ UNCHANGED <<object, pool, pods, timer, pass, bounds>>

-----------------------------------------------------------------------------
Init ==
    /\ spec \in Specs /\ status = NoStatus
    /\ pool \in Pools /\ dep = None /\ pods = [t \in Templates |-> 0]
    /\ queued = TRUE /\ timer = FALSE
    /\ pc = "idle" /\ svc = NoSvc /\ wst = NoStatus
    /\ edits = 0 /\ troubles = 0

Reconcile == BeginPass \/ ReadPool \/ Apply \/ UpdateStatus

Deployment == PodReady \/ DeploymentReports \/ \E t \in Templates : PodGoes(t)

Next ==
    \/ Reconcile \/ PassEnds \/ EditSpec \/ TimerFires \/ Deployment
    \/ PoolChanges \/ \E t \in Templates : PodDies(t)

Spec == Init /\ [][Next]_vars

\* The queue is worked off, requeues come due, and Kubernetes does its part.
FairSpec ==
    /\ Spec /\ WF_vars(Reconcile) /\ WF_vars(TimerFires) /\ WF_vars(Deployment)

-----------------------------------------------------------------------------
(* Properties. *)

\* validateReplicas (s3service_controller.go:158-159): no two pods of one template
\* keep a user list each, whatever the order of edits, refusals and rollouts.
OneList == \A t \in Templates : t.iam = "pod" => pods[t] <= 1

\* What condition Ready should say.
Truth ==
    IF pool # "Ready" THEN pool
    ELSE IF Unsafe(spec) THEN "ReplicasUnsafe"
    ELSE IF spec.replicas = 0 THEN "ScaledToZero"
    ELSE IF Serving = 0 THEN "NoReadyReplicas"
    ELSE "Ready"

\* Reconcile (s3service_controller.go:66): once nothing changes any more, conditions
\* Ready and PoolReady tell the truth and, with a Ready pool, an accepted spec is
\* deployed and its pods are counted.  After a refusal the pool is not looked at
\* again ("a spec change brings us back"), so what is said of it may be old.
GatewayConverges ==
    <>[]( \/ status.ready = "ReplicasUnsafe" /\ Unsafe(spec)
          \/ /\ status.ready = Truth /\ status.pool = pool
             /\ pool = "Ready" => /\ dep # None /\ dep.spec = spec /\ status.replicas = Serving
                                  /\ pods[spec.template] = spec.replicas /\ Serving = spec.replicas )
=============================================================================
