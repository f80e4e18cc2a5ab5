----------------------------- MODULE SystemPass -----------------------------
(***************************************************************************)
(* One DaosSystem with all that a pass does about it                       *)
(* (internal/controller/daossystem_controller.go, steps 7c to 9, and       *)
(* daossystem_engines.go).                                                 *)
(*                                                                         *)
(* A pass takes a step of the full-stop restart and, unless one is in      *)
(* progress, collects the membership query, runs a requested rank          *)
(* operation, sets condition EnginesReady, starts engines that died, and   *)
(* sets condition Ready.  The parts are abstracted from FullStop,          *)
(* FormatGate, RankOp and EngineRestart; what is kept is what they do to   *)
(* one another through the engines, the pods, the status and Jobs that     *)
(* outlive the step that created them.  The system is formatted, with one  *)
(* rank per node.                                                          *)
(***************************************************************************)
EXTENDS Naturals, FiniteSets, DmgJob

CONSTANTS
    Nodes,         \* nodes with a server pod and one rank each
    MaxApprovals,  \* bound: restarts approved
    MaxEvents      \* bound: engines that die or are started, rank operations, approvals
                   \* withdrawn, time limits, queries that fail or are out of date, passes cut short, together

ASSUME SystemPassAssumption ==
    /\ IsFiniteSet(Nodes) /\ Nodes # {}
    /\ MaxApprovals \in Nat /\ MaxEvents \in Nat

Phases == {"Stopping", "Updating", "Starting", "StartingSystem", "Verifying"}

ASSUME NoneIsNoPhase == None \notin Phases

\* out is administratively excluded.
Engines == {"up", "stopped", "died", "out"}

\* Rank states: of the engine, or not known from a query that did not answer.
RankStates == Engines \cup {"unresponsive"}

\* status: the phase of the restart, status.ranks, membershipKnown, the reasons of
\* conditions EnginesReady and Ready.
Statuses ==
    [phase : Phases \cup {None}, ranks : [Nodes -> RankStates], known : BOOLEAN,
     engines : {"Upgrading", "ServersNotReady", "MembershipUnknown", "EnginesDown", "AllJoined"},
     ready : {"Upgrading", "ServersNotReady", "RanksNotJoined", "Ready"}]

Names == {"stop", "start", "verify", "query", "rankop", "enginestart"}

\* Answers: "stuck" is a start that timed out or failed on a rank, "retry" a request
\* that did not reach DAOS, "stale" a query that timed out, "unreadable" an answer that
\* is no member list; ranks is a query's answer.
Outs == [ans : {"ok", "error", "stuck", "retry", "stale", "unreadable"}, ranks : [Nodes -> Engines]]

VARIABLES
    approved, rankop,    \* the annotations certs-renew-approved and rank-op are set
    st,                  \* the status as stored
    pc, sys, wst,        \* the pass: what it read, and the status it builds
    running,             \* in memory: the ranks of the engine start in flight
    engine, pods,        \* DAOS: engine per node; nodes with a Ready server pod
    jobs,                \* the Jobs by name
    excused, late,       \* history: see below
    given, events

\* excused: a restart ran into its time limit or a pass was cut short.  late: dmg
\* system stop answered ok although an engine stayed up or was dead, a pod was away,
\* or an engine start or rank operation was in flight: an engine may come up after it.

object  == <<approved, rankop>>
memory  == <<pc, sys, wst, running>>
daos    == <<engine, pods>>
history == <<excused, late>>
bounds  == <<given, events>>
vars    == <<object, st, memory, daos, jobs, history, bounds>>

AllUp == [n \in Nodes |-> "up"]
NoSys == [approved |-> FALSE, rankop |-> FALSE, pods |-> {}]
NoStatus == [phase |-> None, ranks |-> AllUp, known |-> TRUE, engines |-> "AllJoined", ready |-> "Ready"]

Event == events < MaxEvents /\ events' = events + 1

\* runDmg with the Job of this name, for these ranks ({}: the whole system).  A Job
\* that is read is gone: its removal, like the probe hold, only delays the next one.
RunJob(name, ranks) == jobs' = [jobs EXCEPT ![name] = IF Done(@) THEN NoJob ELSE AfterRun(@, ranks)]

Says(name, ans) == Done(jobs[name]) /\ jobs[name].out.ans = ans

\* Engines run in the pods that are deleted.
DeletePods(S) ==
    /\ pods' = pods \ S
    /\ engine' = [n \in Nodes |-> IF n \in S /\ engine[n] = "up" THEN "died" ELSE engine[n]]

-----------------------------------------------------------------------------
(* 7c: the full-stop restart. *)

\* The DaosSystem and its server pods are read; is there a restart to work on?
BeginPass ==
    /\ pc = "idle"
    /\ pc' = IF st.phase = None /\ ~approved THEN "query" ELSE "upgrade"
    /\ sys' = [approved |-> approved, rankop |-> rankop, pods |-> pods] /\ wst' = st
    /\ UNCHANGED <<object, st, running, daos, jobs, history, bounds>>

In(phase) == pc = "upgrade" /\ phase = IF wst.phase = None THEN "Stopping" ELSE wst.phase

\* variant: the pass goes on while the restart is in progress
RestartingOn(phase) ==
    /\ wst' = [wst EXCEPT !.phase = phase]
    /\ pc' = "query"
    /\ UNCHANGED approved

\* The restart is in progress: the pass ends here.
Restarting(phase) ==
    /\ wst' = [wst EXCEPT !.phase = phase, !.engines = "Upgrading", !.ready = "Upgrading"]
    /\ pc' = "update"
    /\ UNCHANGED approved

\* The restart completed or failed: the approval goes, the pass continues.
Over ==
    /\ wst' = [wst EXCEPT !.phase = None]
    /\ approved' = (approved /\ ~sys.approved)
    /\ pc' = "query"

TimeOut ==
    /\ pc = "upgrade" /\ wst.phase # None /\ Event
    /\ Over /\ excused' = TRUE
    /\ UNCHANGED <<rankop, st, sys, running, daos, jobs, late, given>>

\* variant: the outcome of dmg system stop is not looked at
StoppingAny ==
    /\ In("Stopping")
    /\ RunJob("stop", {})
    /\ Restarting(IF Done(jobs["stop"]) THEN "Updating" ELSE "Stopping")
    /\ UNCHANGED <<rankop, st, sys, running, daos, history, bounds>>

Stopping ==
    /\ In("Stopping")
    /\ RunJob("stop", {})
    /\ IF ~Done(jobs["stop"]) THEN Restarting("Stopping")
       ELSE IF Says("stop", "ok") THEN Restarting("Updating")
       ELSE Over
    /\ UNCHANGED <<rankop, st, sys, running, daos, history, bounds>>

\* The certificates are swapped, which may fail, and every server pod is deleted.
Updating ==
    /\ In("Updating")
    /\ \/ DeletePods(Nodes) /\ Restarting("Starting")
       \/ Over /\ UNCHANGED daos
    /\ UNCHANGED <<rankop, st, sys, running, jobs, history, bounds>>

Starting ==
    /\ In("Starting")
    /\ Restarting(IF pods = Nodes THEN "StartingSystem" ELSE "Starting")
    /\ UNCHANGED <<rankop, st, sys, running, daos, jobs, history, bounds>>

StartingSystem ==
    /\ In("StartingSystem")
    /\ RunJob("start", {})
    /\ IF ~Done(jobs["start"]) THEN Restarting("StartingSystem")
       ELSE IF Says("start", "ok") THEN Restarting("Verifying")
       ELSE Over
    /\ UNCHANGED <<rankop, st, sys, running, daos, history, bounds>>

\* The restart completes when every member joined and fails on an answer that cannot
\* be read; after any other answer DAOS is asked again.
Verifying ==
    /\ In("Verifying")
    /\ RunJob("verify", {})
    /\ IF Says("verify", "ok") \/ Says("verify", "unreadable") THEN Over
       ELSE Restarting("Verifying")
    /\ UNCHANGED <<rankop, st, sys, running, daos, history, bounds>>

-----------------------------------------------------------------------------
(* 8, 8b: membership and rank operations. *)

\* variant: the ranks that answered are dropped from the status
UnresponsiveOnly(S) == [wst EXCEPT !.known = TRUE, !.ranks = [n \in S |-> "unresponsive"]]

\* markUnresponsive, for the pods that are not Ready or the replicas that are down.
Unresponsive(S) ==
    [wst EXCEPT !.known = TRUE, !.ranks = [n \in Nodes |-> IF n \in S THEN "unresponsive" ELSE @[n]]]

\* variant: membership, once known, is not asked for again
QueryOnce ==
    /\ pc = "query" /\ wst.known
    /\ pc' = IF sys.rankop THEN "rankop" ELSE "engines"
    /\ UNCHANGED <<object, st, sys, wst, running, daos, jobs, history, bounds>>

\* The query path of reconcileFormat, for a formatted system.
Query ==
    /\ pc = "query"
    /\ RunJob("query", {})
    /\ \/ ~Done(jobs["query"]) /\ wst' = wst
       \/ Says("query", "error") /\ wst' = [wst EXCEPT !.known = FALSE]
       \/ Says("query", "stale") /\ \E S \in SUBSET Nodes : wst' = Unresponsive(S \cup (Nodes \ sys.pods))
       \/ Says("query", "ok") /\ wst' = [wst EXCEPT !.known = TRUE, !.ranks = jobs["query"].out.ranks]
    /\ pc' = IF sys.rankop THEN "rankop" ELSE "engines"
    /\ UNCHANGED <<object, st, sys, running, daos, history, bounds>>

\* clearRankOp
RankOpOver ==
    /\ rankop' = FALSE /\ sys' = [sys EXCEPT !.rankop = FALSE]
    /\ pc' = "engines"

\* A request that is malformed or not allowed now is answered without a Job.
RankOpRefused ==
    /\ pc = "rankop"
    /\ RankOpOver
    /\ UNCHANGED <<approved, st, wst, running, daos, jobs, history, bounds>>

RankOp ==
    /\ pc = "rankop"
    /\ RunJob("rankop", {})
    /\ IF Done(jobs["rankop"]) /\ ~Says("rankop", "retry")
       THEN RankOpOver
       ELSE pc' = "engines" /\ UNCHANGED <<rankop, sys>>
    /\ UNCHANGED <<approved, st, wst, running, daos, history, bounds>>

-----------------------------------------------------------------------------
(* 8c, 8d, 9: the engines and condition Ready. *)

\* setEnginesCondition
EnginesReason ==
    IF sys.pods # Nodes THEN "ServersNotReady"
    ELSE IF ~wst.known THEN "MembershipUnknown"
    ELSE IF wst.ranks # AllUp THEN "EnginesDown"
    ELSE "AllJoined"

Candidates == IF sys.rankop \/ ~wst.known THEN {} ELSE {n \in sys.pods : wst.ranks[n] = "died"}

\* Ready: the ranks count as last known, also while membership is unknown.
ReadyReason ==
    IF sys.pods # Nodes THEN "ServersNotReady"
    ELSE IF wst.ranks # AllUp THEN "RanksNotJoined"
    ELSE "Ready"

\* Conditions EnginesReady and Ready.  Of the candidates, those whose grace time or
\* interval is over are due; their start is not in the way of Ready.
EngineCheck ==
    /\ pc = "engines"
    /\ wst' = [wst EXCEPT !.engines = EnginesReason, !.ready = ReadyReason]
    /\ \/ UNCHANGED <<running, events>>
       \/ running = {} /\ running' \in (SUBSET Candidates) \ {{}} /\ Event
    /\ pc' = IF running' = {} THEN "update" ELSE "start"
    /\ UNCHANGED <<object, st, sys, daos, jobs, history, given>>

\* The start in flight; one that is stuck costs the named ranks their pods.
EngineStart ==
    /\ pc = "start"
    /\ RunJob("enginestart", running)
    /\ IF Done(jobs["enginestart"])
       THEN /\ running' = {}
            /\ DeletePods(IF Says("enginestart", "stuck") THEN running ELSE {})
       ELSE UNCHANGED <<running, daos>>
    /\ pc' = "update"
    /\ UNCHANGED <<object, st, sys, wst, history, bounds>>

Return == pc' = "idle" /\ sys' = NoSys /\ wst' = NoStatus

UpdateStatus ==
    /\ pc = "update" /\ st' = wst
    /\ Return
    /\ UNCHANGED <<object, running, daos, jobs, history, bounds>>

\* An API error, or a restart of the operator, which forgets what is in memory.
PassEnds ==
    /\ pc # "idle" /\ Event
    /\ \/ UNCHANGED <<running>>
       \/ running' = {}
    /\ Return /\ excused' = TRUE
    /\ UNCHANGED <<object, st, daos, jobs, late, given>>

-----------------------------------------------------------------------------
(* Humans, time, Kubernetes and DAOS. *)

Approve ==
    /\ ~approved /\ given < MaxApprovals
    /\ approved' = TRUE /\ given' = given + 1
    /\ UNCHANGED <<rankop, st, memory, daos, jobs, history, events>>

Withdraw ==
    /\ approved /\ Event /\ approved' = FALSE
    /\ UNCHANGED <<rankop, st, memory, daos, jobs, history, given>>

RequestRankOp ==
    /\ ~rankop /\ Event /\ rankop' = TRUE
    /\ UNCHANGED <<approved, st, memory, daos, jobs, history, given>>

EngineDies(n) ==
    /\ engine[n] = "up" /\ Event
    /\ engine' = [engine EXCEPT ![n] = "died"]
    /\ UNCHANGED <<object, st, memory, pods, jobs, history, given>>

\* daos_server restarts an engine that terminated itself.
EngineReturns(n) ==
    /\ engine[n] = "died" /\ n \in pods
    /\ engine' = [engine EXCEPT ![n] = "up"]
    /\ UNCHANGED <<object, st, memory, pods, jobs, history, bounds>>

PodReady(n) ==
    /\ n \notin pods /\ pods' = pods \cup {n}
    /\ engine' \in {engine, [engine EXCEPT ![n] = IF @ = "out" THEN @ ELSE "up"]}
    /\ UNCHANGED <<object, st, memory, jobs, history, bounds>>

Answers(name, ans, ranks) == jobs' = [jobs EXCEPT ![name] = Finished(@, [ans |-> ans, ranks |-> ranks])]

Ends(name, ans) == Answers(name, ans, AllUp)

\* All engines stop, or none; either may be answered ok or as an error.
StopFinishes ==
    /\ jobs["stop"].phase = "running"
    /\ \E S \in {Nodes, {}}, ans \in {"ok", "error"} :
         /\ Ends("stop", ans)
         /\ engine' = [n \in Nodes |-> IF n \in S /\ engine[n] = "up" THEN "stopped" ELSE engine[n]]
         /\ late' = \/ late
                    \/ ans = "ok" /\ (pods # Nodes \/ \E j \in {"enginestart", "rankop"} : jobs[j].phase = "running")
                    \/ ans = "ok" /\ \E n \in Nodes : engine'[n] \in {"up", "died"}
    /\ UNCHANGED <<object, st, memory, pods, excused, bounds>>

\* The engines of S that are not excluded come up.
Started(S) == [n \in Nodes |-> IF n \in S \cap pods /\ engine[n] # "out" THEN "up" ELSE engine[n]]

StartFinishes ==
    /\ jobs["start"].phase = "running"
    /\ \/ Ends("start", "ok") /\ \E S \in SUBSET Nodes : engine' = Started(S)
       \/ Ends("start", "error") /\ engine' = engine
    /\ UNCHANGED <<object, st, memory, pods, history, bounds>>

\* DAOS may not have noticed yet that an engine died.
VerifyFinishes ==
    /\ jobs["verify"].phase = "running"
    /\ \/ Ends("verify", IF engine = AllUp THEN "ok" ELSE "error") /\ events' = events
       \/ Event /\ \E ans \in {"ok", "unreadable"} : Ends("verify", ans)
    /\ UNCHANGED <<object, st, memory, daos, history, given>>

QueryFinishes ==
    /\ jobs["query"].phase = "running"
    /\ \/ Answers("query", "ok", engine) /\ events' = events
       \/ Event /\ \E ans \in {"error", "stale"} : Ends("query", ans)
    /\ UNCHANGED <<object, st, memory, daos, history, given>>

\* A rank is excluded, which stops its engine, or its exclusion is cleared.
Changed(n) == [engine EXCEPT ![n] = IF @ = "out" THEN "died" ELSE "out"]

RankOpFinishes ==
    /\ jobs["rankop"].phase = "running"
    /\ \/ /\ events' = events
          /\ \/ Ends("rankop", "ok") /\ \E n \in Nodes : engine' \in {engine, Changed(n)}
             \/ Ends("rankop", "error") /\ engine' = engine
       \/ Event /\ Ends("rankop", "retry") /\ engine' = engine
    /\ UNCHANGED <<object, st, memory, pods, history, given>>

EngineStartFinishes ==
    /\ jobs["enginestart"].phase = "running"
    /\ \/ Ends("enginestart", "ok") /\ \E S \in SUBSET jobs["enginestart"].cmd : engine' = Started(S)
       \/ \E ans \in {"error", "stuck"} : Ends("enginestart", ans) /\ engine' = engine
    /\ UNCHANGED <<object, st, memory, pods, history, bounds>>

-----------------------------------------------------------------------------
Init ==
    /\ approved = FALSE /\ rankop = FALSE /\ st = NoStatus
    /\ pc = "idle" /\ sys = NoSys /\ wst = NoStatus /\ running = {}
    /\ engine = AllUp /\ pods = Nodes /\ jobs = [j \in Names |-> NoJob]
    /\ excused = FALSE /\ late = FALSE
    /\ given = 0 /\ events = 0

Upgrade == Stopping \/ Updating \/ Starting \/ StartingSystem \/ Verifying

Reconcile ==
    \/ BeginPass \/ Upgrade \/ Query \/ RankOp \/ EngineCheck \/ EngineStart \/ UpdateStatus

JobsFinish ==
    \/ StopFinishes \/ StartFinishes \/ VerifyFinishes
    \/ QueryFinishes \/ RankOpFinishes \/ EngineStartFinishes

Next ==
    \/ Reconcile \/ TimeOut \/ RankOpRefused \/ PassEnds
    \/ Approve \/ Withdraw \/ RequestRankOp \/ JobsFinish
    \/ \E n \in Nodes : EngineDies(n) \/ EngineReturns(n) \/ PodReady(n)

Spec == Init /\ [][Next]_vars

\* Every pass is followed by another, Jobs end, and the StatefulSets bring pods back.
FairSpec ==
    /\ Spec /\ WF_vars(Reconcile) /\ WF_vars(JobsFinish)
    /\ \A n \in Nodes : WF_vars(PodReady(n))

-----------------------------------------------------------------------------
(* Properties. *)

TypeOK ==
    /\ approved \in BOOLEAN /\ rankop \in BOOLEAN
    /\ st \in Statuses /\ wst \in Statuses
    /\ pc \in {"idle", "upgrade", "query", "rankop", "engines", "start", "update"}
    /\ sys \in [approved : BOOLEAN, rankop : BOOLEAN, pods : SUBSET Nodes]
    /\ running \subseteq Nodes
    /\ engine \in [Nodes -> Engines] /\ pods \subseteq Nodes
    /\ jobs \in [Names -> Job(SUBSET Nodes, Outs)]
    /\ excused \in BOOLEAN /\ late \in BOOLEAN
    /\ given \in 0..MaxApprovals /\ events \in 0..MaxEvents

Created(name) == jobs[name].phase = "absent" /\ jobs'[name].phase = "running"

\* Reconcile (daossystem_controller.go:421-432): while the restart's dmg system
\* stop or start is in flight, no engine start and no rank operation is sent,
\* unless the restart ran into its time limit or a pass was cut short.
RestartUndisturbed ==
    [][ ~excused /\ (Created("enginestart") \/ Created("rankop"))
          => jobs["stop"].phase # "running" /\ jobs["start"].phase # "running" ]_vars

\* Updating (daossystem_upgrade.go:163-164): the restart swaps certificates and
\* deletes the pods only while no engine runs, whatever engine starts and rank
\* operations came before it, unless one could come up after the stop answered.
SwapsWhileDown ==
    [][ ~late /\ ~excused /\ In("Updating") /\ ~(pods \subseteq pods') => \A n \in Nodes : engine[n] # "up" ]_vars

\* Reconcile, step 9, and setEnginesCondition: whatever restarts, rank operations,
\* engine starts and stale answers went before, conditions Ready and EnginesReady
\* come to say that every engine runs exactly when that is so.
ConditionsConverge ==
    LET healthy == pods = Nodes /\ engine = AllUp
    IN  <>[]((st.ready = "Ready") = healthy /\ (st.engines = "AllJoined") = healthy)
=============================================================================
