------------------------------- MODULE RankOp -------------------------------
(***************************************************************************)
(* Rank membership requests (internal/controller/daossystem_rankop.go).    *)
(*                                                                         *)
(* A human writes the annotation rank-op "<op>:<ranks>" (and, to accept    *)
(* data loss, rank-op-discard-data "<ranks>").  Each reconcile pass reads  *)
(* the DaosSystem, runs reconcileRankOp on that copy, and finally writes   *)
(* the status.  Between those steps humans, the Job, DAOS and Kubernetes   *)
(* move; a pass can also end early (an API error, an operator restart),    *)
(* which loses the status it was building.                                 *)
(*                                                                         *)
(* Requests carry an identity (id) the code cannot see; it only compares   *)
(* op and ranks.  The identities and the variables faults to drifted are   *)
(* history for the properties.                                             *)
(***************************************************************************)
EXTENDS Naturals, FiniteSets, DmgJob

CONSTANTS
    Ranks, Nodes,
    NodeOf,        \* the node that hosts each rank
    Pools,
    Redundant,     \* the pools whose redundancy factor is not 0
    KVCache,       \* the pools with profile kvcache and redundancy none
    AcceptsLoss,   \* the pools whose spec chose properties.reintegration: data_sync
    PoolRanks,     \* spec.ranks of each pool; {} means every rank
    External,      \* TRUE: externalMsReplicas is set, status.nodeConfigs is empty
    MaxRequests,   \* bound: requests humans write
    MaxFaults,     \* bound: passes cut short, finished Jobs expired unread
    Asked,         \* bound: the operations humans ask for
    Manner,        \* "hasty": requests are written and withdrawn at any time;
                   \* "polite": only when no request is on the object;
                   \* "patient": only when, besides, no rank-op Job exists
    Flaps,         \* may pods, ranks and the management service fail meanwhile?
    Drift          \* may a pool's reintegration mode be changed in DAOS?

ASSUME RankOpAssumption ==
    /\ NodeOf \in [Ranks -> Nodes]
    /\ Redundant \subseteq Pools /\ KVCache \subseteq Pools \ Redundant
    /\ AcceptsLoss \subseteq Pools
    /\ PoolRanks \in [Pools -> SUBSET Ranks]
    /\ MaxRequests \in Nat /\ MaxFaults \in Nat
    /\ Asked \subseteq {"drain", "exclude", "reintegrate", "clear-exclude", "bogus"}
    /\ Manner \in {"hasty", "polite", "patient"}
    /\ External \in BOOLEAN /\ Flaps \in BOOLEAN /\ Drift \in BOOLEAN

Ids == 1..MaxRequests

Ops == {"drain", "exclude", "reintegrate", "clear-exclude"}

\* "bogus" stands for every annotation value parseRankOp rejects.
Requests == [id : Ids, op : Ops \cup {"bogus"}, ranks : SUBSET Ranks]

\* A command carries the discard approval it was created under (history).
Cmds == [id : Ids, op : Ops, ranks : SUBSET Ranks, discard : SUBSET Ranks]

\* What the finished Job shows: every rank done; some rank failed; "no
\* pool-ranks found to operate on"; another error DAOS answered with;
\* DER_UNREACH; nothing parseable (killed at its deadline).
Outs == {"ok", "rankErrors", "noPoolRanks", "error", "unreachable", "noAnswer"}

\* "excluded" stands for excluded, errored, unknown, stopped and awaitformat,
\* which the code treats alike; "joined" for every other state.
States == {"joined", "excluded", "adminexcluded"}

Results == {"ok", "failed", "refused"}

\* status.lastRankOp; res is "running" until FinishedAt is set.
LastOps == [id : Ids, op : Ops \cup {"bogus"}, ranks : SUBSET Ranks,
            res : Results \cup {"running"}]

ASSUME NoneIsNoAnswer == None \notin LastOps \cup Results

VARIABLES
    ann,        \* annotation rank-op, or None
    discard,    \* annotation rank-op-discard-data ({}: absent)
    last,       \* status.lastRankOp as stored, or None
    expired,    \* has rankOpRetryWindow passed since lastRankOp.requestedAt?
    view,       \* status.ranks: the membership the last query reported
    pc, sys,    \* the pass in progress and the DaosSystem it read
    wlast,      \* lastRankOp in the status the pass is building
    job,        \* the Job "<system>-dmg-rankop"
    member,     \* DAOS: the state of each rank
    up,         \* Kubernetes: nodes whose server pod is Ready
    mode, seen, \* DAOS: reintegration mode of each pool; as DaosPool.status has it
    nreq,
    faults,     \* passes cut short and Jobs expired so far
    executed,   \* how often DAOS was sent each request
    answer,     \* what record() last said of each request
    dropped,    \* requests the operator took off the object
    answered,   \* requests whose answer reached the stored status
    emptied,    \* pools that lost data no one had accepted to lose
    drifted     \* pools whose mode was changed by hand

human  == <<ann, discard, nreq>>
memory == <<pc, sys, wlast>>
world  == <<member, up, mode, seen>>
hist   == <<faults, executed, answer, dropped, answered, emptied, drifted>>
vars   == <<human, last, expired, view, memory, job, world, hist>>

NoSys == [req |-> None, discard |-> {}, ready |-> {}, formatted |-> FALSE]

-----------------------------------------------------------------------------
(* The guards of reconcileRankOp, in the order the code tests them. *)

\* rankOpPrecondition: a reintegrate DAOS would not finish.
AdminExcluded(ranks) == \E r \in ranks : view[r] = "adminexcluded"
NoEngine(ranks, ready) == \E r \in ranks : view[r] = "excluded" /\ NodeOf[r] \notin ready
RankOpPrecondition(op, ranks, ready) ==
    op = "reintegrate" => ~AdminExcluded(ranks) /\ ~NoEngine(ranks, ready)

PoolOn(p, ranks) == PoolRanks[p] = {} \/ PoolRanks[p] \cap ranks # {}

\* variant: a mode not known yet is taken for a safe one
UnprotectedPoolsKnown(ranks) ==
    {p \in Pools \ (Redundant \cup AcceptsLoss) : PoolOn(p, ranks) /\ seen[p] = "data_sync"}

\* unprotectedPools: rd_fac 0, on data_sync or a mode not known, not accepted.
UnprotectedPools(ranks) ==
    {p \in Pools \ Redundant : /\ PoolOn(p, ranks)
                               /\ seen[p] \in {"unknown", "data_sync"}
                               /\ ~(p \in AcceptsLoss /\ seen[p] = "data_sync")}

\* kvcachePoolsOn
KVCachePoolsOn(ranks) == {p \in KVCache : PoolOn(p, ranks)}

\* The discard-data gate.
LosesData(op, ranks, discarded) ==
    /\ discarded # ranks
    /\ \/ op = "exclude" /\ KVCachePoolsOn(ranks) # {}
       \/ op = "reintegrate" /\ UnprotectedPools(ranks) # {}

Refused(s) ==
    \/ s.req.op \notin Ops
    \/ ~s.formatted
    \/ ~RankOpPrecondition(s.req.op, s.req.ranks, s.ready)
    \/ LosesData(s.req.op, s.req.ranks, s.discard)

-----------------------------------------------------------------------------
(* One pass: read, reconcileRankOp, updateStatus. *)

\* Reconcile reads the DaosSystem from the API server, the pods, and (through
\* reconcileFormat) perhaps a newer membership.
BeginPass ==
    /\ pc = "idle"
    /\ pc' = "rankop"
    /\ \E f \in IF Flaps THEN BOOLEAN ELSE {TRUE} :
          sys' = [req |-> ann, discard |-> discard, formatted |-> f,
                  ready |-> IF External THEN {} ELSE up]
    /\ view' \in {view, member}
    /\ wlast' = last
    /\ UNCHANGED <<human, last, expired, job, world, hist>>

\* The rest of the pass does not use the copy again.
Return == pc' = "update" /\ sys' = NoSys

NoRequest ==
    /\ pc = "rankop" /\ sys.req = None
    /\ Return
    /\ UNCHANGED <<human, last, expired, view, wlast, job, world, hist>>

\* variant: the discard annotation is set to nothing instead of being removed
ClearRankOpBadly ==
    /\ ann' = None /\ discard' = {None}
    /\ dropped' = IF ann = None THEN dropped ELSE dropped \cup {ann.id}

\* clearRankOp: a merge patch computed from the copy the pass read, so it
\* removes whatever the annotations hold by now.
ClearRankOp ==
    /\ ann' = None
    /\ discard' = IF sys.discard # {} THEN {} ELSE discard
    /\ dropped' = IF ann = None THEN dropped ELSE dropped \cup {ann.id}

\* record: the answer goes into the status being built, the request is dropped.
Record(res) ==
    /\ wlast' = [id |-> sys.req.id, op |-> sys.req.op, ranks |-> sys.req.ranks, res |-> res]
    /\ answer' = [answer EXCEPT ![sys.req.id] = res]
    /\ ClearRankOp
    /\ Return

\* variant: the refusal is not recorded
RefuseSilently ==
    /\ pc = "rankop" /\ sys.req # None /\ Refused(sys)
    /\ ClearRankOp /\ Return
    /\ UNCHANGED <<last, wlast, expired, view, job, world, nreq, faults, executed, answer, answered, emptied, drifted>>

Refuse ==
    /\ pc = "rankop" /\ sys.req # None /\ Refused(sys)
    /\ Record("refused")
    /\ UNCHANGED <<last, expired, view, job, world, nreq, faults, executed, answered, emptied, drifted>>

Command == [id |-> sys.req.id, op |-> sys.req.op, ranks |-> sys.req.ranks,
            discard |-> sys.discard]

\* Run did not return a result: the Job was just created, runs, or is going away.
WaitForJob ==
    /\ pc = "rankop" /\ sys.req # None /\ ~Refused(sys) /\ ~Done(job)
    /\ job' = AfterRun(job, Command)
    /\ wlast' = IF wlast = None \/ wlast.res # "running"
                THEN [id |-> sys.req.id, op |-> sys.req.op, ranks |-> sys.req.ranks,
                      res |-> "running"]
                ELSE wlast
    /\ Return
    /\ UNCHANGED <<human, last, expired, view, world, hist>>

\* requested(): is lastRankOp this request, still unanswered?
SameRequest == /\ wlast # None /\ wlast.res = "running"
               /\ wlast.op = sys.req.op /\ wlast.ranks = sys.req.ranks

\* variants: whatever DAOS answered is sent again; the window is not looked at
RetryAnyError == job.out \in {"unreachable", "error"} /\ (SameRequest => ~expired)
RetryForever == job.out = "unreachable"

Retryable == job.out = "unreachable" /\ (SameRequest => ~expired)

\* The request never reached DAOS: it stays, and is sent again.
RetryLater ==
    /\ pc = "rankop" /\ sys.req # None /\ ~Refused(sys) /\ Done(job) /\ Retryable
    /\ job' = AfterRun(job, Command)
    /\ wlast' = [id |-> sys.req.id, op |-> sys.req.op, ranks |-> sys.req.ranks,
                 res |-> "running"]
    /\ Return
    /\ UNCHANGED <<human, last, expired, view, world, hist>>

\* variant: an error without per-rank results counts as success
SucceededUnlessRankErrors(op) == job.out # "rankErrors"

Succeeded(op) == \/ job.out = "ok"
                 \/ job.out = "noPoolRanks" /\ op \in {"drain", "reintegrate"}

\* Run returned the Job's output: it becomes the answer to the request read.
CollectResult ==
    /\ pc = "rankop" /\ sys.req # None /\ ~Refused(sys) /\ Done(job) /\ ~Retryable
    /\ job' = AfterRun(job, Command)
    /\ Record(IF Succeeded(sys.req.op) THEN "ok" ELSE "failed")
    /\ UNCHANGED <<last, expired, view, world, nreq, faults, executed, answered, emptied, drifted>>

\* RequestedAt is carried over while the same request stays unanswered.
SameAsked == /\ last # None /\ wlast # None /\ last.res = "running" /\ wlast.res = "running"
             /\ last.op = wlast.op /\ last.ranks = wlast.ranks

UpdateStatus ==
    /\ pc = "update"
    /\ last' = wlast
    /\ expired' = (expired /\ SameAsked)
    /\ answered' = IF wlast # None /\ wlast.res # "running"
                   THEN answered \cup {wlast.id} ELSE answered
    /\ pc' = "idle" /\ wlast' = None
    /\ UNCHANGED <<human, view, sys, job, world, faults, executed, answer, dropped, emptied, drifted>>

-----------------------------------------------------------------------------
(* Faults. *)

Fault == faults < MaxFaults /\ faults' = faults + 1

\* An API error or a restart ends the pass; nothing it built is stored.
PassEnds ==
    /\ Fault /\ pc # "idle"
    /\ pc' = "idle" /\ sys' = NoSys /\ wlast' = None
    /\ UNCHANGED <<human, last, expired, view, job, world, executed, answer, dropped, answered, emptied, drifted>>

\* ... the same, after Run deleted the Job and before clearRankOp.
PassEndsAfterRun ==
    /\ Fault /\ pc = "rankop" /\ sys.req # None /\ ~Refused(sys)
    /\ job' = AfterRun(job, Command)
    /\ pc' = "idle" /\ sys' = NoSys /\ wlast' = None
    /\ UNCHANGED <<human, last, expired, view, world, executed, answer, dropped, answered, emptied, drifted>>

\* TTLSecondsAfterFinished, while the operator is down: the output is gone.
JobExpires ==
    /\ Fault /\ pc = "idle" /\ Done(job)
    /\ job' = NoJob
    /\ UNCHANGED <<human, last, expired, view, memory, world, executed, answer, dropped, answered, emptied, drifted>>

-----------------------------------------------------------------------------
(* Humans, time, Kubernetes and DAOS. *)

\* kubectl daos rank: both annotations in one patch.
WriteRequest(op, ranks, accept) ==
    /\ nreq < MaxRequests
    /\ Manner = "hasty" \/ ann = None
    /\ Manner = "patient" => job.phase = "absent" /\ pc = "idle"
    /\ nreq' = nreq + 1
    /\ ann' = [id |-> nreq', op |-> op, ranks |-> ranks]
    /\ discard' = IF accept THEN ranks ELSE {}
    /\ UNCHANGED <<last, expired, view, memory, job, world, hist>>

\* kubectl annotate ... rank-op-
Withdraw ==
    /\ Manner = "hasty" /\ ann # None
    /\ ann' = None
    /\ UNCHANGED <<discard, nreq, last, expired, view, memory, job, world, hist>>

WindowPasses ==
    /\ last # None /\ last.res = "running"
    /\ ~expired /\ expired' = TRUE
    /\ UNCHANGED <<human, last, view, memory, job, world, hist>>

JobRemoved ==
    /\ job.phase = "deleting" /\ job' = NoJob
    /\ UNCHANGED <<human, last, expired, view, memory, world, hist>>

\* DAOS carries the command out on the ranks S.
Moved(op, r) ==
    CASE op = "exclude" -> "adminexcluded"
      [] op = "clear-exclude" /\ member[r] = "adminexcluded" -> "excluded"
      [] op = "reintegrate" /\ member[r] = "excluded" -> "joined"
      [] OTHER -> member[r]

\* The pools that lose data, and the loss no one accepted.
Loss(op, S) ==
    {p \in Pools : /\ S # {} /\ PoolOn(p, S)
                   /\ \/ op = "exclude" /\ p \in KVCache
                      \/ op = "reintegrate" /\ p \notin Redundant /\ mode[p] = "data_sync"}

Unaccepted(cmd, S) ==
    {p \in Loss(cmd.op, S) : /\ cmd.discard # cmd.ranks
                             /\ ~(cmd.op = "reintegrate" /\ p \in AcceptsLoss)}

\* The ranks a command with this output took effect on.
Effect(cmd, out) ==
    CASE out = "ok" -> {cmd.ranks}
      [] out \in {"rankErrors", "noAnswer"} -> SUBSET cmd.ranks
      [] OTHER -> {{}}

JobFinishes(out) ==
    /\ job.phase = "running"
    /\ out = "noPoolRanks" => job.cmd.op \in {"drain", "reintegrate"}
    /\ out = "ok" /\ job.cmd.op = "reintegrate" =>
          \A r \in job.cmd.ranks : member[r] # "adminexcluded"   \* DAOS will not reintegrate them
    /\ job' = Finished(job, out)
    /\ executed' = IF out = "unreachable" THEN executed
                   ELSE [executed EXCEPT ![job.cmd.id] = @ + 1]
    /\ \E S \in Effect(job.cmd, out) :
          /\ member' = [r \in Ranks |-> IF r \in S THEN Moved(job.cmd.op, r) ELSE member[r]]
          /\ emptied' = emptied \cup Unaccepted(job.cmd, S)
    /\ UNCHANGED <<human, last, expired, view, memory, up, mode, seen, faults, answer, dropped, answered, drifted>>

\* A server pod or a rank comes and goes.
PodFlips(n) ==
    /\ Flaps
    /\ up' = IF n \in up THEN up \ {n} ELSE up \cup {n}
    /\ UNCHANGED <<human, last, expired, view, memory, job, member, mode, seen, hist>>

RankDies(r) ==
    /\ Flaps /\ member[r] = "joined"
    /\ member' = [member EXCEPT ![r] = "excluded"]
    /\ UNCHANGED <<human, last, expired, view, memory, job, up, mode, seen, hist>>

\* dmg pool set-prop by hand; the pool controller's next query.
ModeChanges(p) ==
    /\ Drift
    /\ mode' = [mode EXCEPT ![p] = IF @ = "data_sync" THEN "incremental" ELSE "data_sync"]
    /\ drifted' = drifted \cup {p}
    /\ UNCHANGED <<human, last, expired, view, memory, job, member, up, seen,
                   faults, executed, answer, dropped, answered, emptied>>

PoolQueried(p) ==
    /\ seen[p] # mode[p]
    /\ seen' = [seen EXCEPT ![p] = mode[p]]
    /\ UNCHANGED <<human, last, expired, view, memory, job, member, up, mode, hist>>

-----------------------------------------------------------------------------
Init ==
    /\ ann = None /\ discard = {} /\ nreq = 0
    /\ last = None /\ expired = FALSE
    /\ member \in [Ranks -> States] /\ view = member
    /\ pc = "idle" /\ sys = NoSys /\ wlast = None
    /\ job = NoJob
    /\ up \in SUBSET Nodes
    /\ mode \in [Pools -> {"incremental", "data_sync"}]
    /\ seen = [p \in Pools |-> "unknown"]
    /\ faults = 0 /\ executed = [i \in Ids |-> 0] /\ answer = [i \in Ids |-> None]
    /\ dropped = {} /\ answered = {} /\ emptied = {} /\ drifted = {}

ReconcileRankOp == NoRequest \/ Refuse \/ WaitForJob \/ RetryLater \/ CollectResult

Operator == BeginPass \/ ReconcileRankOp \/ UpdateStatus

Faulty == PassEnds \/ PassEndsAfterRun \/ JobExpires

Human ==
    \/ \E op \in Asked, S \in (SUBSET Ranks) \ {{}}, accept \in BOOLEAN :
          WriteRequest(op, S, accept)
    \/ Withdraw

Environment ==
    \/ WindowPasses \/ JobRemoved
    \/ \E out \in Outs : JobFinishes(out)
    \/ \E n \in Nodes : PodFlips(n)
    \/ \E r \in Ranks : RankDies(r)
    \/ \E p \in Pools : ModeChanges(p) \/ PoolQueried(p)

Next == Operator \/ Faulty \/ Human \/ Environment

Spec == Init /\ [][Next]_vars

\* Every pass requeues itself (requeueProbe, rankOpRetryDelay, or the regular
\* period), a Job ends by its deadline, and time passes.
Fairness == /\ WF_vars(Operator) /\ WF_vars(JobRemoved) /\ WF_vars(WindowPasses)
            /\ WF_vars(\E out \in Outs : JobFinishes(out))

FairSpec == Spec /\ Fairness
-----------------------------------------------------------------------------
(* Properties. *)

TypeOK ==
    /\ ann \in Requests \cup {None} /\ discard \in SUBSET Ranks /\ nreq \in 0..MaxRequests
    /\ last \in LastOps \cup {None} /\ wlast \in LastOps \cup {None} /\ expired \in BOOLEAN
    /\ view \in [Ranks -> States] /\ member \in [Ranks -> States] /\ up \in SUBSET Nodes
    /\ pc \in {"idle", "rankop", "update"}
    /\ sys \in [req : Requests \cup {None}, discard : SUBSET Ranks, ready : SUBSET Nodes,
                formatted : BOOLEAN]
    /\ job \in Job(Cmds, Outs)
    /\ mode \in [Pools -> {"incremental", "data_sync"}]
    /\ seen \in [Pools -> {"incremental", "data_sync", "unknown"}]
    /\ faults \in 0..MaxFaults /\ executed \in [Ids -> Nat]
    /\ answer \in [Ids -> Results \cup {None}]
    /\ dropped \in SUBSET Ids /\ answered \in SUBSET Ids /\ emptied \in SUBSET Pools
    /\ drifted \in SUBSET Pools

\* DAOS sees a request at most once, plus once for every pass that was cut
\* short or Job that expired: a re-send always has a fault behind it, whatever
\* humans write meanwhile (reconcileRankOp, Run deleting the Job it read).
ResendNeedsFault == \A i \in Ids : executed[i] <= 1 + faults

\* No pool without redundancy loses data to a command unless its spec accepted
\* that, or a human named exactly these ranks with the request, or its mode was
\* changed by hand behind the operator's back (unprotectedPools, kvcachePoolsOn
\* and the discard-data gate, up to the moment DAOS acts).
NoUnacceptedLoss == emptied \subseteq drifted

\* A request reported as succeeded was carried out by DAOS: the answer is never
\* another request's (CollectResult, which only knows the Job's name).
OkMeansRan == \A i \in Ids : answer[i] = "ok" => executed[i] > 0

\* Every request the operator took off the object is answered in the stored
\* status once the pass is over, except one for each pass that was cut short
\* (record and clearRankOp come before updateStatus).
UnansweredNeedsFault ==
    pc = "idle" => Cardinality(dropped \ answered) <= faults

\* Every request is taken off the object: answered, replaced or withdrawn; the
\* retries of a request that cannot reach DAOS end (rankOpRetryWindow).
RequestLeaves == ann # None ~> ann = None
=============================================================================
