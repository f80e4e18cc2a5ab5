------------------------------ MODULE FullStop ------------------------------
(***************************************************************************)
(* The full-stop restart: image upgrade and certificate rotation           *)
(* (internal/controller/daossystem_upgrade.go, rotateCerts and             *)
(* clearCertsApproval of daossystem_certs.go).                             *)
(*                                                                         *)
(* A human approves with spec.upgrade.approved (for a changed              *)
(* spec.images.server) or with the annotation certs-renew-approved.  The   *)
(* operator then walks Stopping, Updating, Starting, StartingSystem and    *)
(* Verifying, one phase step per reconcile pass, with a dmg Job of a fixed *)
(* name in three of them, and ends in Completed or Failed.  A pass reads   *)
(* the DaosSystem, takes its step, perhaps patches the approvals away, and *)
(* then stores the status; it may end early at any of those points.        *)
(***************************************************************************)
EXTENDS Integers, FiniteSets, DmgJob

CONSTANTS
    Nodes,         \* the rendered nodes, one server pod each
    Images,        \* values of spec.images.server
    FirstImage,    \* the image everything runs at the start
    Unlisted,      \* nodes whose engine may never have registered with DAOS
    Timeout,       \* spec.upgrade.timeoutMinutes, in ticks
    MaxApprovals,  \* bound: approvals of each kind
    MaxEdits,      \* bound: changes of spec.images.server
    MaxFaults,     \* bound: passes cut short, calls that fail, Jobs expired unread
    MaxUpsets,     \* bound: engines that die or are started by hand, stops that leave one up
    MaxTroubles    \* bound: approvals, faults and upsets together

ASSUME FullStopAssumption ==
    /\ IsFiniteSet(Nodes) /\ Nodes # {} /\ FirstImage \in Images /\ Unlisted \subseteq Nodes
    /\ Timeout \in Nat /\ MaxApprovals \in Nat
    /\ MaxEdits \in Nat /\ MaxFaults \in Nat /\ MaxUpsets \in Nat /\ MaxTroubles \in Nat

Phases == {"Stopping", "Updating", "Starting", "StartingSystem", "Verifying"}

\* status.upgrade; was is the certificate bundle in use when the run started (history).
Upgrades == [trigger : {"image", "certs"}, phase : Phases \cup {"Pending", "Completed", "Failed"},
             to : Images, was : Nat]

ASSUME NoneIsNoUpgrade == None \notin Upgrades

\* Output of the stop and start Jobs: "ok" or "error".  Of the verify Job: every
\* listed member joined; some not, or none listed; an error; a member list
\* SystemQuery cannot read.
Outs == {"ok", "error", "joined", "notJoined", "unreadable"}

\* A server pod: its image and the certificate bundle mounted when it started.
Pods == [img : Images, st : {"ready", "terminating", "starting"}, bundle : Nat]

\* An engine: "none" never registered, and the member list of DAOS does not have it;
\* "up" is listed as joined; "stopped" was stopped by dmg system stop; "dead" went down
\* otherwise, and is listed as joined until DAOS notices.
Engines == {"none", "up", "dead", "stopped"}

VARIABLES
    image, approved, certs,   \* spec.images.server, spec.upgrade.approved, the annotation
    up,                       \* status.upgrade as stored, or None
    age,                      \* ticks since its StartedAt
    pc, sys, wup,             \* the pass, the DaosSystem it read, status.upgrade it builds
    template,                 \* image in the StatefulSets (updateStrategy OnDelete)
    pod,                      \* server pod per node
    engine,                   \* engine per node
    secret, previous,         \* bundles in <sys>-certs and <sys>-certs-previous
    stop, start, verify,      \* the Jobs -dmg-stop, -dmg-start, -dmg-verify
    meddled, partial, late,   \* history: see below
    given, renewals,          \* approvals given, and how many of them for a rotation
    edits, faults, upsets, runs

\* meddled: a restart ran into its time limit, or while one ran the image was edited
\* or engines were started by hand.  partial: dmg system stop answered without an
\* error although engines did not stop; the results of single ranks are not read.
\* late: the rotation was approved during a pass or while a restart ran.

spec    == <<image, approved, certs, late>>
memory  == <<pc, sys, wup>>
cluster == <<template, pod, engine>>
keys    == <<secret, previous>>
jobs    == <<stop, start, verify>>
clock   == <<age, meddled, partial>>
counts  == <<given, renewals, edits, faults, upsets, runs>>
vars    == <<spec, up, clock, memory, cluster, keys, jobs, counts>>

NoSys == [image |-> FirstImage, approved |-> FALSE, certs |-> FALSE]

\* upgradeInProgress
InProgress(u) == u # None /\ u.phase \in Phases

Room == given + faults + upsets < MaxTroubles

Stale == {n \in Nodes : pod[n].img # sys.image}

-----------------------------------------------------------------------------
(* The start of reconcileUpgrade. *)

\* The DaosSystem is read; ensureServer writes the image into the StatefulSets.
BeginPass ==
    /\ pc = "idle"
    /\ pc' = "upgrade"
    /\ sys' = [image |-> image, approved |-> approved, certs |-> certs]
    /\ wup' = up
    /\ template' = image
    /\ UNCHANGED <<spec, up, clock, pod, engine, keys, jobs, counts>>

\* The pass returns early: too few nodes, no engines in the spec, or, at the start of
\* reconcileUpgrade, no server rendered, servers disabled, no runner.
NotReached ==
    /\ pc = "upgrade"
    /\ pc' = "idle" /\ sys' = NoSys /\ wup' = None
    /\ UNCHANGED <<spec, up, clock, cluster, keys, jobs, counts>>

\* Nothing runs and the pods have the image: an approval is dropped.
UpToDate ==
    /\ pc = "upgrade" /\ ~InProgress(wup) /\ ~sys.certs /\ Stale = {}
    /\ wup' = IF wup # None /\ wup.phase = "Pending" THEN None ELSE wup
    /\ approved' = (approved /\ ~sys.approved)
    /\ pc' = "update"
    /\ UNCHANGED <<image, certs, late, up, clock, sys, cluster, keys, jobs, counts>>

NewRun(trigger, phase) ==
    [trigger |-> trigger, phase |-> phase, to |-> sys.image, was |-> secret]

\* Stale pods and no approval.
WaitForApproval ==
    /\ pc = "upgrade" /\ ~InProgress(wup) /\ ~sys.certs /\ Stale # {} /\ ~sys.approved
    /\ wup' = IF wup # None /\ wup.phase = "Pending" THEN wup ELSE NewRun("image", "Pending")
    /\ pc' = "update"
    /\ UNCHANGED <<spec, up, clock, sys, cluster, keys, jobs, counts>>

\* A rotation comes before an image upgrade.
Starts == ~InProgress(wup) /\ (sys.certs \/ (Stale # {} /\ sys.approved))

\* variant: an image upgrade comes before a rotation
RunImageFirst ==
    IF Starts THEN NewRun(IF Stale # {} /\ sys.approved THEN "image" ELSE "certs", "Stopping") ELSE wup

Run == IF Starts THEN NewRun(IF sys.certs THEN "certs" ELSE "image", "Stopping") ELSE wup
RunAge == IF Starts THEN 0 ELSE age

\* variant: the time limit holds only while pods are awaited
TimedOutStarting == RunAge > Timeout /\ Run.phase = "Starting"

TimedOut == RunAge > Timeout

\* The pass is past the timeout test, in this phase.
In(phase) == /\ pc = "upgrade" /\ (InProgress(wup) \/ Starts)
             /\ ~TimedOut /\ Run.phase = phase

\* Bookkeeping every step of a run shares: the clocks, and the run count.
Enter(phase) ==
    /\ wup' = [Run EXCEPT !.phase = phase]
    /\ age' = RunAge
    /\ runs' = IF Starts THEN runs + 1 ELSE runs

Go(phase) == Enter(phase) /\ pc' = "update"

\* fail() and the end of Verifying: the run is over, done() follows.
End(phase) == Enter(phase) /\ pc' = "reset"

TimeOut ==
    /\ pc = "upgrade" /\ (InProgress(wup) \/ Starts) /\ TimedOut
    /\ End("Failed")
    /\ meddled' = TRUE
    /\ UNCHANGED <<spec, up, partial, sys, cluster, keys, jobs, given, renewals, edits, faults, upsets>>

-----------------------------------------------------------------------------
(* The phases. *)

StopWait ==
    /\ In("Stopping") /\ ~Done(stop)
    /\ stop' = AfterRun(stop, "stop")
    /\ Go("Stopping")
    /\ UNCHANGED <<spec, up, meddled, partial, sys, cluster, keys, start, verify, given, renewals, edits, faults, upsets>>

\* variant: the outcome of dmg system stop is not looked at
StopDoneAny ==
    /\ In("Stopping") /\ Done(stop)
    /\ stop' = AfterRun(stop, "stop")
    /\ Go("Updating")
    /\ UNCHANGED <<spec, up, meddled, partial, sys, cluster, keys, start, verify, given, renewals, edits, faults, upsets>>

StopDone ==
    /\ In("Stopping") /\ Done(stop)
    /\ stop' = AfterRun(stop, "stop")
    /\ IF stop.out = "ok" THEN Go("Updating") ELSE End("Failed")
    /\ UNCHANGED <<spec, up, meddled, partial, sys, cluster, keys, start, verify, given, renewals, edits, faults, upsets>>

\* variant: the new bundle is written before the old one is backed up
RotateThenBackUp ==
    /\ In("Updating") /\ Run.trigger = "certs"
    /\ previous' = secret + 1 /\ secret' = secret + 1
    /\ Enter("Updating") /\ pc' = "pods"
    /\ UNCHANGED <<spec, up, meddled, partial, sys, cluster, jobs, given, renewals, edits, faults, upsets>>

\* rotateCerts backs the bundle up and writes a new one; an error on the way
\* fails the run, with the backup written or not.
RotateCerts ==
    /\ In("Updating") /\ Run.trigger = "certs"
    /\ previous' = secret /\ secret' = secret + 1
    /\ Enter("Updating") /\ pc' = "pods"
    /\ UNCHANGED <<spec, up, meddled, partial, sys, cluster, jobs, given, renewals, edits, faults, upsets>>

RotateFails ==
    /\ In("Updating") /\ Run.trigger = "certs" /\ faults < MaxFaults /\ Room
    /\ previous' \in {previous, secret}
    /\ End("Failed")
    /\ faults' = faults + 1
    /\ UNCHANGED <<spec, up, meddled, partial, sys, cluster, secret, jobs, given, renewals, edits, upsets>>

ToReplace == {n \in Nodes : /\ pod[n].st # "terminating"
                            /\ wup.trigger = "certs" \/ pod[n].img # sys.image}

Deleted(S) == [n \in Nodes |-> IF n \in S THEN [pod[n] EXCEPT !.st = "terminating"] ELSE pod[n]]

\* The pods are deleted; the StatefulSets bring them back from the template.
ReplacePods ==
    /\ \/ In("Updating") /\ Run.trigger = "image"
       \/ pc = "pods"
    /\ pod' = Deleted(ToReplace)
    /\ wup' = [wup EXCEPT !.phase = "Starting"]
    /\ pc' = "update"
    /\ UNCHANGED <<spec, up, clock, sys, template, engine, keys, jobs, counts>>

\* A Delete fails after some of the pods: the pass ends without storing its status.
ReplaceSome ==
    /\ faults < MaxFaults /\ Room
    /\ \/ In("Updating") /\ Run.trigger = "image"
       \/ pc = "pods"
    /\ \E S \in SUBSET ToReplace : pod' = Deleted(S)
    /\ faults' = faults + 1
    /\ pc' = "idle" /\ sys' = NoSys /\ wup' = None
    /\ UNCHANGED <<spec, up, clock, template, engine, keys, jobs, given, renewals, edits, upsets, runs>>

PodsReady == \A n \in Nodes : pod[n].img = sys.image /\ pod[n].st = "ready"

AwaitPods ==
    /\ In("Starting")
    /\ Go(IF PodsReady THEN "StartingSystem" ELSE "Starting")
    /\ UNCHANGED <<spec, up, meddled, partial, sys, cluster, keys, jobs, given, renewals, edits, faults, upsets>>

StartWait ==
    /\ In("StartingSystem") /\ ~Done(start)
    /\ start' = AfterRun(start, "start")
    /\ Go("StartingSystem")
    /\ UNCHANGED <<spec, up, meddled, partial, sys, cluster, keys, stop, verify, given, renewals, edits, faults, upsets>>

StartDone ==
    /\ In("StartingSystem") /\ Done(start)
    /\ start' = AfterRun(start, "start")
    /\ IF start.out = "ok" THEN Go("Verifying") ELSE End("Failed")
    /\ UNCHANGED <<spec, up, meddled, partial, sys, cluster, keys, stop, verify, given, renewals, edits, faults, upsets>>

\* Any answer but "every member joined" is asked again.
VerifyWait ==
    /\ In("Verifying") /\ (Done(verify) => verify.out \in {"error", "notJoined"})
    /\ verify' = AfterRun(verify, "query")
    /\ Go("Verifying")
    /\ UNCHANGED <<spec, up, meddled, partial, sys, cluster, keys, stop, start, given, renewals, edits, faults, upsets>>

\* variant: members that answered count as joined
VerifyDoneAny ==
    /\ In("Verifying") /\ Done(verify) /\ verify.out \in {"joined", "notJoined"}
    /\ verify' = AfterRun(verify, "query")
    /\ End("Completed")
    /\ UNCHANGED <<spec, up, meddled, partial, sys, cluster, keys, stop, start, given, renewals, edits, faults, upsets>>

VerifyDone ==
    /\ In("Verifying") /\ Done(verify) /\ verify.out \in {"joined", "unreadable"}
    /\ verify' = AfterRun(verify, "query")
    /\ End(IF verify.out = "joined" THEN "Completed" ELSE "Failed")
    /\ UNCHANGED <<spec, up, meddled, partial, sys, cluster, keys, stop, start, given, renewals, edits, faults, upsets>>

-----------------------------------------------------------------------------
(* done(): two merge patches, each only sent when the copy of the DaosSystem *)
(* has the approval set; a patch also refreshes that copy.                   *)

\* variant: the approval stays when the restart ends
KeepApproval ==
    /\ pc = "reset"
    /\ pc' = "clear"
    /\ UNCHANGED <<spec, up, clock, sys, wup, cluster, keys, jobs, counts>>

ResetApproval ==
    /\ pc = "reset"
    /\ approved' = (approved /\ ~sys.approved)
    /\ sys' = IF sys.approved THEN [image |-> image, approved |-> FALSE, certs |-> certs] ELSE sys
    /\ pc' = "clear"
    /\ UNCHANGED <<image, certs, late, up, clock, wup, cluster, keys, jobs, counts>>

ClearCertsApproval ==
    /\ pc = "clear"
    /\ certs' = (certs /\ ~sys.certs)
    /\ late' = (late /\ certs')
    /\ pc' = "update"
    /\ UNCHANGED <<image, approved, up, clock, sys, wup, cluster, keys, jobs, counts>>

UpdateStatus ==
    /\ pc = "update"
    /\ up' = wup
    /\ pc' = "idle" /\ sys' = NoSys /\ wup' = None
    /\ UNCHANGED <<spec, clock, cluster, keys, jobs, counts>>

\* An API error or a restart ends the pass: what it stored elsewhere stays.
PassEnds ==
    /\ pc # "idle" /\ faults < MaxFaults /\ Room
    /\ faults' = faults + 1
    /\ pc' = "idle" /\ sys' = NoSys /\ wup' = None
    /\ UNCHANGED <<spec, up, clock, cluster, keys, jobs, given, renewals, edits, upsets, runs>>

-----------------------------------------------------------------------------
(* Humans. *)

MidRun == InProgress(up) \/ pc # "idle"

\* kubectl daos system upgrade, with or without --image.
Approve(i) ==
    /\ given - renewals < MaxApprovals /\ Room
    /\ IF i = image THEN ~approved ELSE edits < MaxEdits
    /\ approved' = TRUE /\ image' = i
    /\ given' = given + 1
    /\ edits' = IF i = image THEN edits ELSE edits + 1
    /\ meddled' = (meddled \/ (i # image /\ MidRun))
    /\ UNCHANGED <<certs, late, up, age, partial, memory, cluster, keys, jobs, renewals, faults, upsets, runs>>

\* kubectl daos system renew-certs
ApproveCerts ==
    /\ ~certs /\ renewals < MaxApprovals /\ Room
    /\ certs' = TRUE /\ late' = MidRun
    /\ given' = given + 1 /\ renewals' = renewals + 1
    /\ UNCHANGED <<image, approved, up, clock, memory, cluster, keys, jobs, edits, faults, upsets, runs>>

\* helm upgrade, kubectl edit.
EditImage(i) ==
    /\ i # image /\ edits < MaxEdits
    /\ image' = i /\ edits' = edits + 1
    /\ meddled' = (meddled \/ MidRun)
    /\ UNCHANGED <<approved, certs, late, up, age, partial, memory, cluster, keys, jobs, given, renewals, faults, upsets, runs>>

Withdraw ==
    /\ approved \/ certs
    /\ approved' = FALSE /\ certs' = FALSE /\ late' = FALSE
    /\ UNCHANGED <<image, up, clock, memory, cluster, keys, jobs, counts>>

\* dmg system start brings up the listed engines of a set of nodes whose server is up.
Started(S) == [n \in Nodes |-> IF n \in S /\ engine[n] # "none" /\ pod[n].st = "ready" THEN "up" ELSE engine[n]]

StartByHand ==
    /\ engine # Started(Nodes) /\ upsets < MaxUpsets /\ Room
    /\ engine' = Started(Nodes) /\ upsets' = upsets + 1
    /\ meddled' = (meddled \/ MidRun)
    /\ UNCHANGED <<spec, up, age, partial, memory, template, pod, keys, jobs, given, renewals, edits, faults, runs>>

-----------------------------------------------------------------------------
(* Time, Kubernetes and DAOS. *)

Tick ==
    /\ InProgress(up) /\ age <= Timeout
    /\ age' = age + 1
    /\ UNCHANGED <<spec, up, meddled, partial, memory, cluster, keys, jobs, counts>>

\* A deleted pod stops its engine and comes back with the template's image and
\* the certificates now in the Secret.
PodRecreated(n) ==
    /\ pod[n].st = "terminating"
    /\ pod' = [pod EXCEPT ![n] = [img |-> template, st |-> "starting", bundle |-> secret]]
    /\ engine' = [engine EXCEPT ![n] = IF @ = "up" THEN "dead" ELSE @]
    /\ UNCHANGED <<spec, up, clock, memory, template, keys, jobs, counts>>

\* daos_server may bring the engine up by itself, an unregistered one too.
PodReady(n) ==
    /\ pod[n].st = "starting"
    /\ pod' = [pod EXCEPT ![n].st = "ready"]
    /\ \E e \in {engine[n], "up"} : engine' = [engine EXCEPT ![n] = e]
    /\ UNCHANGED <<spec, up, clock, memory, template, keys, jobs, counts>>

EngineDies(n) ==
    /\ engine[n] = "up" /\ upsets < MaxUpsets /\ Room
    /\ engine' = [engine EXCEPT ![n] = "dead"] /\ upsets' = upsets + 1
    /\ UNCHANGED <<spec, up, clock, memory, template, pod, keys, jobs, given, renewals, edits, faults, runs>>

\* dmg system stop leaves the engines of S alone.
StopFinishes(out) ==
    /\ stop.phase = "running" /\ out \in {"ok", "error"}
    /\ stop' = Finished(stop, out)
    /\ \E S \in SUBSET Nodes :
         engine' = [n \in Nodes |-> IF n \notin S /\ engine[n] \in {"up", "dead"} THEN "stopped" ELSE engine[n]]
    /\ LET left == \E n \in Nodes : engine'[n] = "up"
       IN  /\ left => upsets < MaxUpsets /\ Room
           /\ partial' = (partial \/ (out = "ok" /\ left))
           /\ upsets' = IF left THEN upsets + 1 ELSE upsets
    /\ UNCHANGED <<spec, up, age, meddled, memory, template, pod, keys, start, verify>>
    /\ UNCHANGED <<given, renewals, edits, faults, runs>>

\* dmg system start answers without an error even when an engine does not join;
\* that is what Verifying is for.
StartFinishes(out) ==
    /\ start.phase = "running" /\ out \in {"ok", "error"}
    /\ start' = Finished(start, out)
    /\ engine' \in IF out = "ok" THEN {Started(S) : S \in SUBSET Nodes} ELSE {engine}
    /\ UNCHANGED <<spec, up, clock, memory, template, pod, keys, stop, verify, counts>>

Listed == {n \in Nodes : engine[n] # "none"}

\* dmg system query: the listed members only.  Some of the dead ones may be noticed.
VerifyFinishes(out) ==
    /\ verify.phase = "running"
    /\ \/ out \in {"error", "unreadable"}
       \/ out = "joined" /\ Listed # {} /\ \A n \in Listed : engine[n] # "stopped"
       \/ out = "notJoined" /\ (Listed = {} \/ \E n \in Listed : engine[n] # "up")
    /\ verify' = Finished(verify, out)
    /\ UNCHANGED <<spec, up, clock, memory, cluster, keys, stop, start, counts>>

JobsRemoved ==
    /\ \E j \in {stop, start, verify} : j.phase = "deleting"
    /\ stop'   = IF stop.phase = "deleting" THEN NoJob ELSE stop
    /\ start'  = IF start.phase = "deleting" THEN NoJob ELSE start
    /\ verify' = IF verify.phase = "deleting" THEN NoJob ELSE verify
    /\ UNCHANGED <<spec, up, clock, memory, cluster, keys, counts>>

\* The TTL of a finished Job passes before the operator collects it.
JobsExpire ==
    /\ faults < MaxFaults /\ Room /\ faults' = faults + 1
    /\ \E j \in {stop, start, verify} : Done(j)
    /\ stop'   = IF Done(stop) THEN NoJob ELSE stop
    /\ start'  = IF Done(start) THEN NoJob ELSE start
    /\ verify' = IF Done(verify) THEN NoJob ELSE verify
    /\ UNCHANGED <<spec, up, clock, memory, cluster, keys, given, renewals, edits, upsets, runs>>

-----------------------------------------------------------------------------
Init ==
    /\ image = FirstImage /\ approved = FALSE /\ certs = FALSE /\ late = FALSE
    /\ up = None /\ age = 0 /\ meddled = FALSE /\ partial = FALSE
    /\ pc = "idle" /\ sys = NoSys /\ wup = None
    /\ template = FirstImage
    /\ pod = [n \in Nodes |-> [img |-> FirstImage, st |-> "ready", bundle |-> 1]]
    /\ engine \in [Nodes -> {"none", "up"}] /\ \A n \in Nodes \ Unlisted : engine[n] = "up"
    /\ secret = 1 /\ previous = 0
    /\ stop = NoJob /\ start = NoJob /\ verify = NoJob
    /\ given = 0 /\ renewals = 0 /\ edits = 0 /\ faults = 0 /\ upsets = 0 /\ runs = 0

ReconcileUpgrade ==
    \/ UpToDate \/ WaitForApproval \/ TimeOut
    \/ StopWait \/ StopDone
    \/ RotateCerts \/ ReplacePods
    \/ AwaitPods \/ StartWait \/ StartDone \/ VerifyWait \/ VerifyDone
    \/ ResetApproval \/ ClearCertsApproval

Operator == BeginPass \/ ReconcileUpgrade \/ UpdateStatus

Human ==
    \/ \E i \in Images : Approve(i) \/ EditImage(i)
    \/ ApproveCerts \/ Withdraw \/ StartByHand

JobsFinish == \E out \in Outs : StopFinishes(out) \/ StartFinishes(out) \/ VerifyFinishes(out)

Environment ==
    \/ Tick \/ JobsFinish \/ JobsRemoved \/ JobsExpire
    \/ \E n \in Nodes : PodRecreated(n) \/ PodReady(n) \/ EngineDies(n)

Next == Operator \/ NotReached \/ PassEnds \/ RotateFails \/ ReplaceSome \/ Human \/ Environment

Spec == Init /\ [][Next]_vars

\* The controller requeues every pass, passes reach reconcileUpgrade time and again,
\* and time passes.  Nothing is assumed of Jobs, pods or humans.
FairSpec == Spec /\ WF_vars(Operator) /\ SF_vars(ReconcileUpgrade) /\ WF_vars(Tick)

-----------------------------------------------------------------------------
(* Properties. *)

TypeOK ==
    /\ image \in Images /\ approved \in BOOLEAN /\ certs \in BOOLEAN /\ late \in BOOLEAN
    /\ up \in Upgrades \cup {None} /\ wup \in Upgrades \cup {None}
    /\ age \in 0..(Timeout + 1) /\ meddled \in BOOLEAN /\ partial \in BOOLEAN
    /\ pc \in {"idle", "upgrade", "pods", "reset", "clear", "update"}
    /\ sys \in [image : Images, approved : BOOLEAN, certs : BOOLEAN]
    /\ template \in Images /\ pod \in [Nodes -> Pods] /\ engine \in [Nodes -> Engines]
    /\ secret \in Nat /\ previous \in Nat
    /\ stop \in Job({"stop"}, Outs) /\ start \in Job({"start"}, Outs)
    /\ verify \in Job({"query"}, Outs)
    /\ given \in Nat /\ renewals \in 0..MaxApprovals /\ edits \in 0..MaxEdits /\ faults \in 0..MaxFaults
    /\ upsets \in 0..MaxUpsets /\ runs \in Nat

\* "both approvals are one-shot" (daossystem_upgrade.go:145): the operator never
\* begins more full-stop restarts than humans approved, plus one for each pass
\* whose status was lost, however approvals, withdrawals, failures and passes
\* interleave.
OneRunPerApproval == runs <= given + faults

\* reconcileUpgrade: every restart that was begun ends, Completed or Failed,
\* whatever the Jobs and the pods do.
RunEnds == InProgress(up) ~> ~InProgress(up)

\* clearCertsApproval at the end of a restart (daossystem_upgrade.go:146-151): an
\* approval of a rotation that the operator takes away had a rotation, which put new
\* certificates in place if it is reported Completed, unless it was given during a
\* pass or while a restart ran; whatever passes are cut short or approvals withdrawn.
ApprovalHonoured ==
    [][ pc = "clear" /\ pc' = "update" /\ certs /\ ~certs' /\ ~late
          => /\ wup.trigger = "certs"
             /\ wup.phase = "Completed" => wup.was < secret ]_vars

BeingDeleted(n) == pod[n].st # "terminating" /\ pod'[n].st = "terminating"

\* Updating (daossystem_upgrade.go:163-164, 233): the Secret is swapped and the
\* server pods are deleted only while every engine is down, unless a pass was cut
\* short, somebody meddled, or an answer of dmg system stop was partial.
SwapWhileDown ==
    [][ ~meddled /\ ~partial /\ faults' = 0 /\ (secret' # secret \/ \E n \in Nodes : BeingDeleted(n))
          => \A n \in Nodes : engine[n] # "up" ]_vars

\* rotateCerts (daossystem_certs.go:135): once a rotation has replaced the
\* certificates, <sys>-certs-previous holds the bundle in use when it began,
\* unless a pass was cut short.
PreviousKept ==
    faults = 0 /\ up # None /\ up.trigger = "certs" /\ up.phase \in {"Starting", "StartingSystem", "Verifying", "Completed"}
        => previous = up.was

\* Verifying (daossystem_upgrade.go:314-334): when the restart is reported Completed
\* DAOS lists engines and none of them is left stopped: each came up again, and one
\* that is down has died since it was last up.  Every server pod has the image
\* that is reported, and the certificates in the Secret if the restart rotated them or
\* no pass was ever cut short; whatever else was cut short, partial or died, unless
\* somebody meddled.
CompletedMeansJoined ==
    [][ ~meddled /\ pc = "upgrade" /\ wup' # None /\ wup'.phase = "Completed" /\ pc' = "reset"
          => /\ Listed # {} /\ \A n \in Listed : engine[n] # "stopped"
             /\ \A n \in Nodes : /\ pod[n].img = wup.to
                                 /\ wup.trigger = "certs" \/ faults = 0 => pod[n].bundle = secret ]_vars
=============================================================================
