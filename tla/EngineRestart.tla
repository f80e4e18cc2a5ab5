--------------------------- MODULE EngineRestart ---------------------------
(***************************************************************************)
(* Starting engines that died under a Ready server pod                     *)
(* (internal/controller/daossystem_enginerestart.go).                      *)
(*                                                                         *)
(* For each rank status.ranks shows errored or excluded the operator keeps *)
(* an in-memory track: after a grace time it sends `dmg system start`      *)
(* through the Job -dmg-enginestart, again after an interval, at most      *)
(* MaxTries times, and then gives up with an event.  A start that timed    *)
(* out or failed on a rank makes it delete the server pod of the ranks it  *)
(* asked for.  Tracks and the rank set in flight live in memory only; the  *)
(* Job does not.  Membership is what the last query said.                  *)
(***************************************************************************)
EXTENDS Naturals, FiniteSets, DmgJob

CONSTANTS
    Ranks, Nodes, NodeOf,  \* each rank's node
    MaxTries,              \* engineRestartMax
    MaxEvents,             \* bound: engine deaths, stops, requests, unknown membership
    MaxFaults              \* bound: passes cut short, expired Jobs, restarts of the operator

ASSUME EngineRestartAssumption ==
    /\ IsFiniteSet(Ranks) /\ NodeOf \in [Ranks -> Nodes] /\ MaxTries \in Nat \ {0}
    /\ MaxEvents \in Nat /\ MaxFaults \in Nat

\* joined; errored or excluded; stopped on purpose.
States == {"joined", "down", "stopped"}

Outs == {"ok", "failed", "stuck"}

\* engineRestartTrack; wait is "the grace time or the interval is not over".
Tracks == [on : BOOLEAN, tries : Nat, wait : BOOLEAN, gaveUp : BOOLEAN]
NoTrack == [on |-> FALSE, tries |-> 0, wait |-> FALSE, gaveUp |-> FALSE]

VARIABLES
    state, ready,          \* DAOS: state per rank; nodes with a Ready server pod
    view, known, rankop,   \* status.ranks; membershipKnown; the rank-op annotation is set
    tracks, running,       \* engineRestartRanks, engineRestartRunning
    job,                   \* the Job -dmg-enginestart (cmd: its ranks)
    pc, sys,               \* the pass and what it read
    starts,                \* history: start Jobs naming the rank since it was last seen joined
    events, faults, restarts

memory == <<tracks, running>>
world  == <<state, ready>>
object == <<view, known, rankop>>
bounds == <<events, faults, restarts>>
vars   == <<world, object, memory, job, pc, sys, starts, bounds>>

NoSys == [view |-> [r \in Ranks |-> "joined"], ready |-> {}, cands |-> {}, asked |-> {}, sent |-> {}]

\* engineRestartCandidates
Candidates == IF rankop \/ ~known THEN {}
              ELSE {r \in Ranks : view[r] = "down" /\ NodeOf[r] \in ready}

\* The DaosSystem, its status and the server pods are read.
BeginPass ==
    /\ pc = "idle"
    /\ pc' = "restart"
    /\ sys' = [view |-> view, ready |-> ready, cands |-> Candidates, asked |-> {}, sent |-> {}]
    /\ UNCHANGED <<world, object, memory, job, starts, bounds>>

\* variant: every pass that sees the candidate starts the wait anew
TrackedAnew(r) ==
    IF sys.view[r] = "joined" THEN NoTrack
    ELSE IF r \in sys.cands THEN [tracks[r] EXCEPT !.on = TRUE, !.wait = TRUE]
    ELSE tracks[r]

\* A rank seen joined starts over; a new candidate gets a track.
Tracked(r) ==
    IF sys.view[r] = "joined" THEN NoTrack
    ELSE IF r \in sys.cands /\ ~tracks[r].on THEN [NoTrack EXCEPT !.on = TRUE, !.wait = TRUE]
    ELSE tracks[r]

\* variant: neither the tries nor the backoff are looked at
DueAlways == IF running # {} THEN {} ELSE sys.cands

Due == IF running # {} THEN {}
       ELSE {r \in sys.cands : Tracked(r).tries < MaxTries /\ ~Tracked(r).wait}

Exhausted == {r \in sys.cands : running = {} /\ Tracked(r).tries >= MaxTries}

\* variant: tries counts what is left
ScheduleLeft ==
    /\ pc = "restart"
    /\ tracks' = [r \in Ranks |-> IF r \in Due THEN [Tracked(r) EXCEPT !.tries = @ - 1] ELSE Tracked(r)]
    /\ running' = IF Due # {} THEN Due ELSE running
    /\ pc' = IF running' = {} THEN "update" ELSE "run"
    /\ UNCHANGED <<world, object, job, sys, starts, bounds>>

\* The part under the mutex.
Schedule ==
    /\ pc = "restart"
    /\ tracks' = [r \in Ranks |->
         IF r \in Due THEN [Tracked(r) EXCEPT !.tries = @ + 1, !.wait = TRUE]
         ELSE IF r \in Exhausted THEN [Tracked(r) EXCEPT !.gaveUp = TRUE]
         ELSE Tracked(r)]
    /\ running' = IF Due # {} THEN Due ELSE running
    /\ pc' = IF running' = {} THEN "update" ELSE "run"
    /\ starts' = [r \in Ranks |-> IF sys.view[r] = "joined" THEN 0 ELSE starts[r]]
    /\ UNCHANGED <<world, object, job, sys, bounds>>

StartWait ==
    /\ pc = "run" /\ ~Done(job)
    /\ job' = AfterRun(job, running)
    /\ starts' = [r \in Ranks |-> IF job.phase = "absent" /\ r \in running THEN starts[r] + 1 ELSE starts[r]]
    /\ pc' = "update"
    /\ UNCHANGED <<world, object, memory, sys, bounds>>

\* engineStartOutcome: only a timeout or an error of a rank means "stuck".
StartDone ==
    /\ pc = "run" /\ Done(job)
    /\ job' = AfterRun(job, running)
    /\ sys' = [sys EXCEPT !.asked = running, !.sent = job.cmd]
    /\ pc' = IF job.out = "stuck" THEN "pods" ELSE "update"
    /\ running' = {}
    /\ UNCHANGED <<world, object, tracks, starts, bounds>>

\* variant: every node with a rank that is down
StuckNodesDown == {NodeOf[r] : r \in {q \in Ranks : sys.view[q] = "down"}}

\* restartStuckServers: the nodes of the ranks asked for, but those where another
\* rank is joined.
StuckNodes ==
    {NodeOf[r] : r \in sys.asked} \ {NodeOf[r] : r \in {q \in Ranks \ sys.asked : sys.view[q] = "joined"}}

\* The pods go, with whatever engines run in them.
RestartStuckServers ==
    /\ pc = "pods"
    /\ ready' = ready \ StuckNodes
    /\ state' = [r \in Ranks |-> IF NodeOf[r] \in StuckNodes /\ state[r] = "joined" THEN "down" ELSE state[r]]
    /\ tracks' = [r \in Ranks |-> IF r \in sys.asked /\ NodeOf[r] \in StuckNodes /\ tracks[r].tries > 0
                                  THEN [tracks[r] EXCEPT !.wait = TRUE] ELSE tracks[r]]
    /\ pc' = "update"
    /\ UNCHANGED <<object, running, job, sys, starts, bounds>>

EndPass ==
    /\ pc = "update"
    /\ pc' = "idle" /\ sys' = NoSys
    /\ UNCHANGED <<world, object, memory, job, starts, bounds>>

\* An API error: memory keeps what the pass did to it.
PassEnds ==
    /\ pc # "idle" /\ faults + restarts < MaxFaults
    /\ faults' = faults + 1
    /\ pc' = "idle" /\ sys' = NoSys
    /\ UNCHANGED <<world, object, memory, job, starts, events, restarts>>

OperatorRestarts ==
    /\ faults + restarts < MaxFaults /\ restarts' = restarts + 1
    /\ tracks' = [r \in Ranks |-> NoTrack] /\ running' = {}
    /\ pc' = "idle" /\ sys' = NoSys
    /\ UNCHANGED <<world, object, job, starts, events, faults>>

-----------------------------------------------------------------------------
(* Time, humans, Kubernetes and DAOS. *)

TimePasses(r) ==
    /\ tracks[r].wait
    /\ tracks' = [tracks EXCEPT ![r].wait = FALSE]
    /\ UNCHANGED <<world, object, running, job, pc, sys, starts, bounds>>

Event == events < MaxEvents /\ events' = events + 1

EngineDies(r) ==
    /\ Event /\ state[r] = "joined"
    /\ state' = [state EXCEPT ![r] = "down"]
    /\ UNCHANGED <<ready, object, memory, job, pc, sys, starts, faults, restarts>>

\* A rank comes back by itself: daos_server restarted it, or a human did.
EngineJoins(r) ==
    /\ state[r] # "joined" /\ NodeOf[r] \in ready
    /\ state' = [state EXCEPT ![r] = "joined"]
    /\ UNCHANGED <<ready, object, memory, job, pc, sys, starts, bounds>>

\* dmg system stop
SystemStops ==
    /\ Event /\ state' = [r \in Ranks |-> "stopped"]
    /\ UNCHANGED <<ready, object, memory, job, pc, sys, starts, faults, restarts>>

RankOpRequested ==
    /\ Event /\ ~rankop /\ rankop' = TRUE
    /\ UNCHANGED <<world, view, known, memory, job, pc, sys, starts, faults, restarts>>

RankOpEnds ==
    /\ rankop /\ rankop' = FALSE
    /\ UNCHANGED <<world, view, known, memory, job, pc, sys, starts, bounds>>

\* The membership query fails; then one answers.
QueryFails ==
    /\ Event /\ known /\ known' = FALSE
    /\ UNCHANGED <<world, view, rankop, memory, job, pc, sys, starts, faults, restarts>>

QueryAnswers ==
    /\ view # state \/ ~known
    /\ view' = state /\ known' = TRUE
    /\ UNCHANGED <<world, rankop, memory, job, pc, sys, starts, bounds>>

PodReady(n) ==
    /\ n \notin ready
    /\ ready' = ready \cup {n}
    /\ UNCHANGED <<state, object, memory, job, pc, sys, starts, bounds>>

\* Some of the engines asked for come up.
JobFinishes ==
    /\ job.phase = "running"
    /\ \E out \in Outs : job' = Finished(job, out)
    /\ \E S \in SUBSET {r \in job.cmd : NodeOf[r] \in ready} :
         state' = [r \in Ranks |-> IF r \in S THEN "joined" ELSE state[r]]
    /\ UNCHANGED <<ready, object, memory, pc, sys, starts, bounds>>

JobRemoved ==
    /\ job.phase = "deleting" /\ job' = NoJob
    /\ UNCHANGED <<world, object, memory, pc, sys, starts, bounds>>

JobExpires ==
    /\ Done(job) /\ faults + restarts < MaxFaults
    /\ job' = NoJob /\ faults' = faults + 1
    /\ UNCHANGED <<world, object, memory, pc, sys, starts, events, restarts>>

-----------------------------------------------------------------------------
Init ==
    /\ state = [r \in Ranks |-> "joined"] /\ ready = Nodes
    /\ view = state /\ known = TRUE /\ rankop = FALSE
    /\ tracks = [r \in Ranks |-> NoTrack] /\ running = {}
    /\ job = NoJob /\ pc = "idle" /\ sys = NoSys
    /\ starts = [r \in Ranks |-> 0]
    /\ events = 0 /\ faults = 0 /\ restarts = 0

Operator == BeginPass \/ Schedule \/ StartWait \/ StartDone \/ RestartStuckServers \/ EndPass

Next ==
    \/ Operator \/ PassEnds \/ OperatorRestarts
    \/ SystemStops \/ RankOpRequested \/ RankOpEnds \/ QueryFails \/ QueryAnswers
    \/ JobFinishes \/ JobRemoved \/ JobExpires
    \/ \E r \in Ranks : TimePasses(r) \/ EngineDies(r) \/ EngineJoins(r)
    \/ \E n \in Nodes : PodReady(n)

Spec == Init /\ [][Next]_vars

\* Passes and queries repeat, time passes, Jobs end.  Nothing brings an engine
\* or a pod back.
FairSpec ==
    /\ Spec /\ WF_vars(Operator) /\ WF_vars(QueryAnswers)
    /\ WF_vars(JobFinishes) /\ WF_vars(JobRemoved)
    /\ \A r \in Ranks : WF_vars(TimePasses(r))

-----------------------------------------------------------------------------
(* Properties. *)

TypeOK ==
    /\ state \in [Ranks -> States] /\ view \in [Ranks -> States] /\ ready \subseteq Nodes
    /\ known \in BOOLEAN /\ rankop \in BOOLEAN
    /\ tracks \in [Ranks -> Tracks] /\ running \subseteq Ranks
    /\ job \in Job(SUBSET Ranks, Outs)
    /\ pc \in {"idle", "restart", "run", "pods", "update"}
    /\ sys \in [view : [Ranks -> States], ready : SUBSET Nodes, cands : SUBSET Ranks,
                asked : SUBSET Ranks, sent : SUBSET Ranks]
    /\ starts \in [Ranks -> Nat]
    /\ events \in 0..MaxEvents /\ faults \in 0..MaxFaults /\ restarts \in 0..MaxFaults

\* engineRestartMax (daossystem_enginerestart.go:64-65): while a rank stays down
\* the operator sends it at most MaxTries starts, counted anew after a restart
\* (the tracks are in memory), plus one for each pass cut short or Job lost, plus
\* one that was decided before the rank was last seen joined and sent after it.
StartsBounded == \A r \in Ranks : starts[r] <= MaxTries * (restarts + 1) + faults + 1

PodDeleted(n) == pc = "pods" /\ n \in ready /\ n \notin ready'

\* restartStuckServers (daossystem_enginerestart.go:227-228): the pod of a node is
\* deleted only when a start that named a rank of that node did not succeed, and a
\* rank there that the status shows joined was named by that start, as long as the
\* operator was not restarted.
PodDeletedAfterItsStart ==
    [][ \A n \in Nodes : restarts = 0 /\ PodDeleted(n) =>
          /\ \E r \in sys.sent : NodeOf[r] = n
          /\ \A r \in Ranks : NodeOf[r] = n /\ sys.view[r] = "joined" => r \in sys.sent ]_vars

DownForGood(r) == state[r] = "down" /\ NodeOf[r] \in ready /\ ~rankop /\ known

\* engineRestartMax: a rank that stays down under a Ready server pod is not
\* forgotten; the operator tries, and in the end gives up and says so.
GivesUpInTheEnd ==
    \A r \in Ranks : <>[]DownForGood(r) => <>(tracks[r].gaveUp)
=============================================================================
