--------------------------- MODULE RankOp_proofs ---------------------------
(***************************************************************************)
(* Proofs about RankOp, for any number of ranks, pools, requests and       *)
(* faults and any manner of writing requests.                              *)
(***************************************************************************)
EXTENDS RankOp, FiniteSetTheorems, TLAPS

USE RankOpAssumption

\* What Run leaves behind is a Job value again.
LEMMA AfterRunType ==
    ASSUME NEW C, NEW O, NEW j \in Job(C, O), NEW c \in C
    PROVE  AfterRun(j, c) \in Job(C, O)
  BY Zenon DEF Job, AfterRun, Running, Deleting, Done

\* The command built from a request the guards let through is a command.
LEMMA CommandType ==
    ASSUME TypeOK, sys.req # None, ~Refused(sys)
    PROVE  Command \in Cmds
  BY Zenon DEF TypeOK, Refused, Command, Cmds, Requests

\* The answer to a request is a lastRankOp value.
LEMMA LastOpType ==
    ASSUME TypeOK, sys.req # None, NEW res \in Results \cup {"running"}
    PROVE  /\ [id |-> sys.req.id, op |-> sys.req.op, ranks |-> sys.req.ranks, res |-> res] \in LastOps
           /\ sys.req.id \in Ids
  BY Zenon DEF TypeOK, LastOps, Requests

\* Types are kept by every step of reconcileRankOp, of the faults and of the
\* environment.
LEMMA TypeStep == TypeOK /\ [Next]_vars => TypeOK'
<1> SUFFICES ASSUME TypeOK, [Next]_vars PROVE TypeOK'
  BY Zenon
<1> USE DEF human, memory, world, hist
<1>n. NoSys \in [req : Requests \cup {None}, discard : SUBSET Ranks, ready : SUBSET Nodes,
                 formatted : BOOLEAN]
  BY Zenon DEF NoSys
<1>1. CASE BeginPass
  <2>1. sys' \in [req : Requests \cup {None}, discard : SUBSET Ranks, ready : SUBSET Nodes,
                  formatted : BOOLEAN]
    <3>1. PICK f \in BOOLEAN :
             sys' = [req |-> ann, discard |-> discard, formatted |-> f,
                     ready |-> IF External THEN {} ELSE up]
      <4>1. (IF Flaps THEN BOOLEAN ELSE {TRUE}) \subseteq BOOLEAN
        BY Zenon
      <4> QED BY <1>1, <4>1, Zenon DEF BeginPass
    <3> QED BY <3>1, Zenon DEF TypeOK
  <2> QED BY <1>1, <2>1, Zenon DEF BeginPass, TypeOK
<1>2. CASE NoRequest
  BY <1>2, <1>n, Zenon DEF NoRequest, Return, TypeOK
<1>3. CASE Refuse
  <2>1. sys.req.id \in Ids /\ wlast' \in LastOps
    BY <1>3, LastOpType, Zenon DEF Refuse, Record, Results
  <2>2. dropped' \in SUBSET Ids
    BY <1>3, Zenon DEF Refuse, Record, ClearRankOp, TypeOK, Requests
  <2>3. answer' \in [Ids -> Results \cup {None}]
    BY <1>3, <2>1, Zenon DEF Refuse, Record, TypeOK, Results
  <2> QED BY <1>3, <1>n, <2>1, <2>2, <2>3, Zenon DEF Refuse, Record, ClearRankOp, Return, TypeOK
<1>4. CASE WaitForJob
  <2>1. job' \in Job(Cmds, Outs)
    BY <1>4, CommandType, AfterRunType, Zenon DEF WaitForJob, TypeOK
  <2>2. wlast' \in LastOps \cup {None}
    BY <1>4, LastOpType, Zenon DEF WaitForJob, TypeOK
  <2> QED BY <1>4, <1>n, <2>1, <2>2, Zenon DEF WaitForJob, Return, TypeOK
<1>5. CASE RetryLater
  <2>1. job' \in Job(Cmds, Outs)
    BY <1>5, CommandType, AfterRunType, Zenon DEF RetryLater, TypeOK
  <2>2. wlast' \in LastOps \cup {None}
    BY <1>5, LastOpType, Zenon DEF RetryLater, TypeOK
  <2> QED BY <1>5, <1>n, <2>1, <2>2, Zenon DEF RetryLater, Return, TypeOK
<1>6. CASE CollectResult
  <2>1. job' \in Job(Cmds, Outs)
    BY <1>6, CommandType, AfterRunType, Zenon DEF CollectResult, TypeOK
  <2>2. PICK res \in Results : Record(res)
    BY <1>6, Zenon DEF CollectResult, Results
  <2>3. sys.req.id \in Ids /\ wlast' \in LastOps
    BY <1>6, <2>2, LastOpType DEF CollectResult, Record
  <2>4. dropped' \in SUBSET Ids
    BY <2>2, Zenon DEF Record, ClearRankOp, TypeOK, Requests
  <2>5. answer' \in [Ids -> Results \cup {None}]
    BY <2>2, <2>3, Zenon DEF Record, TypeOK
  <2> QED BY <1>6, <1>n, <2>1, <2>2, <2>3, <2>4, <2>5, Zenon
          DEF CollectResult, Record, ClearRankOp, Return, TypeOK
<1>7. CASE UpdateStatus
  <2>1. expired' \in BOOLEAN
    BY <1>7, Zenon DEF UpdateStatus
  <2> QED BY <1>7, <2>1, Zenon DEF UpdateStatus, TypeOK, LastOps
<1>8. CASE PassEnds
  BY <1>8, <1>n DEF PassEnds, Fault, TypeOK
<1>9. CASE PassEndsAfterRun
  <2>1. job' \in Job(Cmds, Outs)
    BY <1>9, CommandType, AfterRunType, Zenon DEF PassEndsAfterRun, TypeOK
  <2> QED BY <1>9, <1>n, <2>1 DEF PassEndsAfterRun, Fault, TypeOK
<1>10. CASE JobExpires \/ JobRemoved
  <2>1. NoJob \in Job(Cmds, Outs)
    BY Zenon DEF NoJob, Job
  <2> QED BY <1>10, <2>1 DEF JobExpires, JobRemoved, Fault, TypeOK
<1>11. CASE Human
  <2>1. CASE Withdraw
    BY <2>1, Zenon DEF Withdraw, TypeOK
  <2>2. ASSUME NEW op \in Asked, NEW S \in SUBSET Ranks, NEW accept \in BOOLEAN,
               WriteRequest(op, S, accept)
        PROVE  TypeOK'
    <3>1. ann' \in Requests /\ nreq' \in 0..MaxRequests
      <4>1. nreq' \in Ids /\ nreq' \in 0..MaxRequests
        BY <2>2 DEF WriteRequest, TypeOK, Ids
      <4>2. op \in Ops \cup {"bogus"}
        BY Zenon DEF Ops
      <4> QED BY <2>2, <4>1, <4>2, Zenon DEF WriteRequest, Requests
    <3> QED BY <2>2, <3>1, Zenon DEF WriteRequest, TypeOK
  <2> QED BY <1>11, <2>1, <2>2, Zenon DEF Human
<1>12. CASE WindowPasses
  BY <1>12, Zenon DEF WindowPasses, TypeOK
<1>13. ASSUME NEW out \in Outs, JobFinishes(out) PROVE TypeOK'
  <2>1. job.cmd \in Cmds /\ job' \in Job(Cmds, Outs)
    BY <1>13, Zenon DEF JobFinishes, Finished, Job, TypeOK
  <2>2. executed' \in [Ids -> Nat]
    BY <1>13, <2>1 DEF JobFinishes, Cmds, TypeOK
  <2>3. member' \in [Ranks -> States]
    BY <1>13 DEF JobFinishes, Moved, States, TypeOK
  <2>4. emptied' \in SUBSET Pools
    BY <1>13, Zenon DEF JobFinishes, Unaccepted, Loss, TypeOK
  <2> QED BY <1>13, <2>1, <2>2, <2>3, <2>4, Zenon DEF JobFinishes, TypeOK
<1>14. ASSUME NEW n \in Nodes, PodFlips(n) PROVE TypeOK'
  BY <1>14 DEF PodFlips, TypeOK
<1>15. ASSUME NEW r \in Ranks, RankDies(r) PROVE TypeOK'
  BY <1>15, Zenon DEF RankDies, TypeOK, States
<1>16. ASSUME NEW p \in Pools, ModeChanges(p) PROVE TypeOK'
  BY <1>16, Zenon DEF ModeChanges, TypeOK
<1>17. ASSUME NEW p \in Pools, PoolQueried(p) PROVE TypeOK'
  BY <1>17, Zenon DEF PoolQueried, TypeOK
<1>18. CASE UNCHANGED vars
  BY <1>18, Zenon DEF vars, TypeOK
<1> QED
  BY <1>1, <1>2, <1>3, <1>4, <1>5, <1>6, <1>7, <1>8, <1>9, <1>10, <1>11, <1>12, <1>13,
     <1>14, <1>15, <1>16, <1>17, <1>18, Zenon
     DEF Next, Operator, ReconcileRankOp, Faulty, Environment

\* The initial states are well typed.
LEMMA InitType == Init => TypeOK
<1> SUFFICES ASSUME Init PROVE TypeOK
  BY Zenon
<1>1. sys \in [req : Requests \cup {None}, discard : SUBSET Ranks, ready : SUBSET Nodes,
              formatted : BOOLEAN]
  BY Zenon DEF Init, NoSys
<1>2. job \in Job(Cmds, Outs)
  BY Zenon DEF Init, NoJob, Job
<1>3. nreq \in 0..MaxRequests /\ faults \in 0..MaxFaults
  BY DEF Init
<1>4. executed \in [Ids -> Nat] /\ answer \in [Ids -> Results \cup {None}]
  BY Zenon DEF Init
<1>5. seen \in [Pools -> {"incremental", "data_sync", "unknown"}]
  BY Zenon DEF Init
<1> QED BY <1>1, <1>2, <1>3, <1>4, <1>5, Zenon DEF Init, TypeOK

\* Every state the operator, humans, DAOS and faults can reach is well typed.
THEOREM Typing == Spec => []TypeOK
  BY InitType, TypeStep, PTL DEF Spec

-----------------------------------------------------------------------------
(***************************************************************************)
(* A request is re-sent only after a fault.  ResendNeedsFault alone is not *)
(* inductive: a request that may still be sent (it is on the object, in    *)
(* the copy a pass holds, or in a running Job) must have been sent at most *)
(* faults times, unless its result is waiting to be collected.             *)
(***************************************************************************)
MaySend(i) ==
    \/ ann # None /\ ann.id = i
    \/ sys.req # None /\ sys.req.id = i
    \/ job.phase = "running" /\ job.cmd.id = i

ResultWaits(i) == job.phase = "finished" /\ job.cmd.id = i /\ job.out # "unreachable"

\* Identities are handed out in order, so a fresh one was never sent.
IdsUsed ==
    /\ ann # None => ann.id <= nreq
    /\ sys.req # None => sys.req.id <= nreq
    /\ job.phase \in {"running", "finished"} => job.cmd.id <= nreq
    /\ \A i \in Ids : i > nreq => executed[i] = 0

ResendInv ==
    /\ TypeOK /\ IdsUsed /\ ResendNeedsFault
    /\ \A i \in Ids : MaySend(i) /\ ~ResultWaits(i) => executed[i] <= faults

\* A step that sends nothing keeps ResendInv when a request only moves from the
\* object to the pass to the Job, and a result is lost only to a fault or together
\* with its request.
LEMMA ResendKept ==
    ASSUME ResendInv, TypeOK', UNCHANGED <<nreq, executed>>,
           faults' \in {faults, faults + 1},
           ann' # None => ann' = ann,
           sys'.req # None => sys'.req = sys.req \/ sys'.req = ann,
           job'.phase \in {"running", "finished"} =>
               job' = job \/ (job'.phase = "running" /\ sys.req # None /\ job'.cmd.id = sys.req.id),
           \A i \in Ids : ResultWaits(i) => ResultWaits(i)' \/ ~MaySend(i)' \/ faults' = faults + 1
    PROVE  ResendInv'
<1>1. faults \in Nat /\ faults' \in Nat /\ nreq \in Nat /\ executed \in [Ids -> Nat]
  BY DEF ResendInv, TypeOK
<1>2. IdsUsed' /\ ResendNeedsFault'
  BY <1>1 DEF ResendInv, IdsUsed, ResendNeedsFault
<1>3. \A i \in Ids : MaySend(i)' => MaySend(i)
  BY Zenon DEF MaySend
<1>4. \A i \in Ids : executed[i] <= 1 + faults
  BY Zenon DEF ResendInv, ResendNeedsFault
<1>5. \A i \in Ids : MaySend(i) /\ ~ResultWaits(i) => executed[i] <= faults
  BY Zenon DEF ResendInv
<1>6. ASSUME NEW i \in Ids, MaySend(i)', ~ResultWaits(i)' PROVE executed'[i] <= faults'
  <2>1. executed[i] <= faults \/ faults' = faults + 1
    BY <1>3, <1>5, <1>6, Zenon
  <2> QED BY <1>1, <1>4, <2>1
<1> QED BY <1>2, <1>6, Zenon DEF ResendInv

\* A new request has an identity that was never sent.
LEMMA ResendWrite ==
    ASSUME ResendInv, TypeOK', NEW op, NEW S, NEW accept, WriteRequest(op, S, accept)
    PROVE  ResendInv'
<1>t. /\ nreq \in Nat /\ faults \in Nat /\ executed \in [Ids -> Nat] /\ Ids \subseteq Nat
      /\ sys.req # None => sys.req.id \in Nat
      /\ job.phase \in {"running", "finished"} => job.cmd.id \in Nat
  BY SMTT(30) DEF ResendInv, TypeOK, Ids, Requests, Job, Cmds
<1>1. /\ nreq' = nreq + 1 /\ ann'.id = nreq + 1
      /\ UNCHANGED <<sys, job, executed, faults>>
  BY Zenon DEF WriteRequest, memory, hist
<1>2. IdsUsed'
  BY <1>t, <1>1 DEF ResendInv, IdsUsed
<1>3. \A i \in Ids : /\ ResultWaits(i)' = ResultWaits(i)
                     /\ MaySend(i)' => MaySend(i) \/ i = nreq + 1
  BY <1>1, Zenon DEF ResultWaits, MaySend
<1>4. \A i \in Ids : i = nreq + 1 => executed[i] = 0
  BY <1>t DEF ResendInv, IdsUsed
<1> QED BY <1>t, <1>1, <1>2, <1>3, <1>4 DEF ResendInv, ResendNeedsFault

\* ResendInv is kept by every step.
LEMMA ResendStep == ResendInv /\ [Next]_vars => ResendInv'
<1> SUFFICES ASSUME ResendInv, [Next]_vars PROVE ResendInv'
  BY Zenon
<1> USE DEF human, memory, world, hist
<1>t. TypeOK /\ TypeOK'
  BY TypeStep, Zenon DEF ResendInv
<1>f. faults \in Nat /\ nreq \in Nat /\ executed \in [Ids -> Nat] /\ Ids \subseteq Nat
  BY <1>t DEF TypeOK, Ids
<1>j. job.phase \in {"running", "finished"} => job.cmd \in Cmds
  BY <1>t, Zenon DEF TypeOK, Job
<1>1. CASE BeginPass
  BY <1>t, <1>1, ResendKept DEF BeginPass, ResultWaits
<1>2. CASE NoRequest
  BY <1>t, <1>2, ResendKept, Zenon DEF NoRequest, Return, NoSys, ResultWaits
<1>3. CASE Refuse
  BY <1>t, <1>3, ResendKept, Zenon DEF Refuse, Record, ClearRankOp, Return, NoSys, ResultWaits
<1>4. CASE WaitForJob
  <2>1. job' = job \/ (job'.phase = "running" /\ job'.cmd.id = sys.req.id)
    BY <1>4, Zenon DEF WaitForJob, AfterRun, Running, Command
  <2>2. job.phase # "finished"
    BY <1>4, Zenon DEF WaitForJob, Done
  <2> QED BY <1>t, <1>4, <2>1, <2>2, ResendKept, Zenon DEF WaitForJob, Return, NoSys, ResultWaits
<1>5. CASE RetryLater
  <2>1. job'.phase = "deleting" /\ \A i \in Ids : ~ResultWaits(i)
    BY <1>5, Zenon DEF RetryLater, Retryable, AfterRun, Deleting, Done, ResultWaits
  <2> QED BY <1>t, <1>5, <2>1, ResendKept, Zenon DEF RetryLater, Return, NoSys
<1>6. CASE CollectResult
  <2>1. job'.phase = "deleting" /\ ann' = None /\ sys'.req = None
    BY <1>6, Zenon DEF CollectResult, Record, ClearRankOp, AfterRun, Deleting, Done, Return, NoSys
  <2>2. \A i \in Ids : ~MaySend(i)'
    BY <2>1, Zenon DEF MaySend
  <2> QED BY <1>t, <1>6, <2>1, <2>2, ResendKept, Zenon DEF CollectResult, Record
<1>7. CASE UpdateStatus
  BY <1>t, <1>7, ResendKept, Zenon DEF UpdateStatus, ResultWaits
<1>8. CASE PassEnds
  BY <1>t, <1>8, ResendKept, Zenon DEF PassEnds, Fault, NoSys
<1>9. CASE PassEndsAfterRun
  <2>1. /\ job' = job \/ job'.phase \in {"running", "deleting"}
        /\ job'.phase = "running" => job' = job \/ job'.cmd.id = sys.req.id
    BY <1>9, Zenon DEF PassEndsAfterRun, AfterRun, Running, Deleting, Command
  <2> QED BY <1>t, <1>9, <2>1, ResendKept, Zenon DEF PassEndsAfterRun, Fault, NoSys
<1>10. CASE JobExpires
  BY <1>t, <1>10, ResendKept, Zenon DEF JobExpires, NoJob, Fault
<1>11. CASE JobRemoved
  BY <1>t, <1>11, ResendKept, Zenon DEF JobRemoved, NoJob, ResultWaits
<1>h. CASE Human
  <2>1. CASE Withdraw
    BY <1>t, <2>1, ResendKept, Zenon DEF Withdraw, ResultWaits
  <2> QED BY <1>t, <1>h, <2>1, ResendWrite, Zenon DEF Human
<1>12. CASE WindowPasses
  BY <1>t, <1>12, ResendKept, Zenon DEF WindowPasses, ResultWaits
<1>13. ASSUME NEW out \in Outs, JobFinishes(out) PROVE ResendInv'
  <2>1. /\ job.cmd.id \in Ids /\ job'.cmd = job.cmd /\ job'.phase = "finished" /\ job'.out = out
        /\ job.phase = "running" /\ UNCHANGED <<nreq, ann, sys, faults>>
    BY <1>13, <1>t, <1>j, Zenon DEF JobFinishes, Finished, Cmds, TypeOK, Job
  <2>2. executed[job.cmd.id] <= faults
    BY <2>1, Zenon DEF ResendInv, MaySend, ResultWaits
  <2>3. \A i \in Ids : executed'[i] = IF i = job.cmd.id /\ out # "unreachable"
                                      THEN executed[i] + 1 ELSE executed[i]
    BY <1>13, <1>f, <2>1, Zenon DEF JobFinishes
  <2>4. IdsUsed'
    <3>1. IdsUsed /\ job.cmd.id <= nreq
      BY <2>1, Zenon DEF ResendInv, IdsUsed
    <3>2. \A i \in Ids : i > nreq => executed'[i] = 0
      <4>1. \A i \in Ids : i > nreq => executed[i] = 0 /\ i # job.cmd.id
        BY <1>f, <2>1, <3>1 DEF IdsUsed
      <4> QED BY <2>3, <4>1, Zenon
    <3> QED BY <2>1, <3>1, <3>2, Zenon DEF IdsUsed
  <2>5. ResendNeedsFault'
    <3>1. \A i \in Ids : executed[i] \in Nat /\ executed[i] <= 1 + faults
      BY <1>f, Zenon DEF ResendInv, ResendNeedsFault
    <3>2. \A i \in Ids : executed'[i] <= 1 + faults
      BY <1>f, <2>1, <2>2, <2>3, <3>1
    <3> QED BY <2>1, <3>2, Zenon DEF ResendNeedsFault
  <2>6. \A i \in Ids : MaySend(i)' /\ ~ResultWaits(i)' => MaySend(i) /\ ~ResultWaits(i)
                                                        /\ executed'[i] = executed[i]
    BY <2>1, <2>3, Zenon DEF MaySend, ResultWaits
  <2> QED BY <1>t, <2>1, <2>4, <2>5, <2>6, Zenon DEF ResendInv
<1>14. ASSUME NEW n \in Nodes, PodFlips(n) PROVE ResendInv'
  BY <1>t, <1>14, ResendKept, Zenon DEF PodFlips, ResultWaits
<1>15. ASSUME NEW r \in Ranks, RankDies(r) PROVE ResendInv'
  BY <1>t, <1>15, ResendKept, Zenon DEF RankDies, ResultWaits
<1>16. ASSUME NEW p \in Pools, ModeChanges(p) \/ PoolQueried(p) PROVE ResendInv'
  BY <1>t, <1>16, ResendKept, Zenon DEF ModeChanges, PoolQueried, ResultWaits
<1>17. CASE UNCHANGED vars
  BY <1>t, <1>17, ResendKept, Zenon DEF vars, ResultWaits
<1> QED
  BY <1>1, <1>2, <1>3, <1>4, <1>5, <1>6, <1>7, <1>8, <1>9, <1>10, <1>11, <1>h, <1>12, <1>13,
     <1>14, <1>15, <1>16, <1>17, Zenon
     DEF Next, Operator, ReconcileRankOp, Faulty, Environment

\* However humans write, replace and withdraw requests, DAOS is sent each one at
\* most once more than there were passes cut short or Jobs expired unread.
THEOREM ResendsNeedFaults == Spec => []ResendNeedsFault
<1>1. Init => ResendInv
  <2> SUFFICES ASSUME Init PROVE ResendInv
    BY Zenon
  <2>1. TypeOK
    BY InitType, Zenon
  <2> QED BY <2>1 DEF Init, NoSys, NoJob, Ids, ResendInv, IdsUsed, ResendNeedsFault, MaySend
<1>2. ResendInv => ResendNeedsFault
  BY Zenon DEF ResendInv
<1> QED BY <1>1, <1>2, ResendStep, PTL DEF Spec

-----------------------------------------------------------------------------
(***************************************************************************)
(* The discard-data gate holds until DAOS acts.  The gate looked at what   *)
(* DaosPool.status said when the Job was created; the invariant carries    *)
(* that to the moment the Job runs: for a pool nobody re-configured by     *)
(* hand, the recorded mode is unknown or right.                            *)
(***************************************************************************)
RecordedModeIsRight == \A p \in Pools \ drifted : seen[p] \in {"unknown", mode[p]}

Guarded(cmd) ==
    cmd.discard # cmd.ranks =>
        /\ cmd.op = "exclude" => KVCachePoolsOn(cmd.ranks) = {}
        /\ cmd.op = "reintegrate" =>
              \A p \in Pools \ (Redundant \cup AcceptsLoss \cup drifted) :
                  PoolOn(p, cmd.ranks) => mode[p] # "data_sync"

GateInv ==
    /\ TypeOK /\ RecordedModeIsRight /\ NoUnacceptedLoss
    /\ job.phase = "running" => Guarded(job.cmd)

\* A request the guards let through makes a guarded command.
LEMMA GateGuards ==
    ASSUME GateInv, sys.req # None, ~Refused(sys) PROVE Guarded(Command)
<1> SUFFICES ASSUME sys.discard # sys.req.ranks
             PROVE  /\ sys.req.op = "exclude" => KVCachePoolsOn(sys.req.ranks) = {}
                    /\ sys.req.op = "reintegrate" =>
                          \A p \in Pools \ (Redundant \cup AcceptsLoss \cup drifted) :
                              PoolOn(p, sys.req.ranks) => mode[p] # "data_sync"
  BY Zenon DEF Guarded, Command
<1>1. /\ sys.req.op = "exclude" => KVCachePoolsOn(sys.req.ranks) = {}
      /\ sys.req.op = "reintegrate" => UnprotectedPools(sys.req.ranks) = {}
  BY Zenon DEF Refused, LosesData
<1> QED BY <1>1, Zenon DEF GateInv, RecordedModeIsRight, UnprotectedPools

\* A guarded command only takes unaccepted data from pools changed by hand.
LEMMA GuardedLoss ==
    ASSUME NEW cmd \in Cmds, Guarded(cmd), NEW S \in SUBSET cmd.ranks
    PROVE  Unaccepted(cmd, S) \subseteq drifted
<1>1. \A p \in Pools : S # {} /\ PoolOn(p, S) => PoolOn(p, cmd.ranks)
  BY Zenon DEF PoolOn
<1>2. KVCache \subseteq Pools
  BY Zenon
<1> QED BY <1>1, <1>2, Zenon DEF Unaccepted, Loss, Guarded, KVCachePoolsOn

\* A change of mode by hand is remembered, and leaves the other pools alone.
LEMMA OnePoolChanges ==
    ASSUME TypeOK, NEW p \in Pools, ModeChanges(p)
    PROVE  /\ UNCHANGED <<job, seen, emptied>> /\ drifted' = drifted \cup {p}
           /\ \A q \in Pools \ {p} : mode'[q] = mode[q]
<1>1. mode \in [Pools -> {"incremental", "data_sync"}]
  BY Zenon DEF TypeOK
<1> QED BY <1>1, Zenon DEF ModeChanges

\* A pool query records the mode the pool has.
LEMMA OnePoolQueried ==
    ASSUME TypeOK, NEW p \in Pools, PoolQueried(p)
    PROVE  /\ UNCHANGED <<job, mode, drifted, emptied>>
           /\ \A q \in Pools : seen'[q] \in {seen[q], mode[q]}
<1>1. seen \in [Pools -> {"incremental", "data_sync", "unknown"}]
  BY Zenon DEF TypeOK
<1> QED BY <1>1, Zenon DEF PoolQueried, hist

\* GateInv is kept by a step that leaves the pools alone and runs no command the
\* guards did not let through.
LEMMA GateKept ==
    ASSUME GateInv, TypeOK', UNCHANGED <<mode, seen, drifted>>, emptied' \subseteq drifted,
           job'.phase = "running" => job' = job \/ Guarded(job'.cmd)
    PROVE  GateInv'
<1>1. RecordedModeIsRight' /\ NoUnacceptedLoss'
  BY Zenon DEF GateInv, RecordedModeIsRight, NoUnacceptedLoss
<1>2. job'.phase = "running" => Guarded(job'.cmd)
  BY Zenon DEF GateInv
<1>3. (job'.phase = "running" => Guarded(job.cmd)')
  BY <1>2, Zenon DEF Guarded, KVCachePoolsOn, PoolOn
<1> QED BY <1>1, <1>3, Zenon DEF GateInv

\* GateInv is kept by every step.
LEMMA GateStep == GateInv /\ [Next]_vars => GateInv'
<1> SUFFICES ASSUME GateInv, [Next]_vars PROVE GateInv'
  BY Zenon
<1> USE DEF human, memory, world, hist
<1>t. TypeOK /\ TypeOK' /\ emptied \subseteq drifted
  BY TypeStep, Zenon DEF GateInv, NoUnacceptedLoss
<1>1. CASE BeginPass \/ NoRequest \/ Refuse \/ UpdateStatus \/ PassEnds \/ Human \/ WindowPasses
  <2>1. UNCHANGED <<job, mode, seen, drifted, emptied>>
    BY <1>1, Zenon DEF BeginPass, NoRequest, Refuse, Record, ClearRankOp, UpdateStatus, PassEnds,
                Human, WriteRequest, Withdraw, WindowPasses
  <2> QED BY <1>t, <2>1, GateKept, Zenon
<1>2. CASE WaitForJob \/ RetryLater \/ CollectResult \/ PassEndsAfterRun
  <2>1. /\ UNCHANGED <<mode, seen, drifted, emptied>> /\ sys.req # None /\ ~Refused(sys)
        /\ job' = AfterRun(job, Command)
    BY <1>2, Zenon DEF WaitForJob, RetryLater, CollectResult, Record, PassEndsAfterRun
  <2>2. Guarded(Command)
    BY <2>1, GateGuards, Zenon
  <2>3. job'.phase = "running" => job'.cmd = Command \/ job' = job
    BY <2>1, Zenon DEF AfterRun, Running, Deleting
  <2> QED BY <1>t, <2>1, <2>2, <2>3, GateKept, Zenon
<1>3. CASE JobExpires \/ JobRemoved
  <2>1. UNCHANGED <<mode, seen, drifted, emptied>> /\ job'.phase # "running"
    BY <1>3 DEF JobExpires, JobRemoved, NoJob
  <2> QED BY <1>t, <2>1, GateKept, Zenon
<1>4. ASSUME NEW out \in Outs, JobFinishes(out) PROVE GateInv'
  <2>1. job.cmd \in Cmds /\ job'.phase = "finished" /\ UNCHANGED <<mode, seen, drifted>>
    BY <1>4, <1>t, Zenon DEF JobFinishes, Finished, Job, TypeOK
  <2>2. Guarded(job.cmd)
    BY <1>4, Zenon DEF JobFinishes, GateInv
  <2>3. PICK S \in SUBSET job.cmd.ranks : emptied' = emptied \cup Unaccepted(job.cmd, S)
    BY <1>4, Zenon DEF JobFinishes, Effect
  <2>4. emptied' \subseteq drifted
    BY <1>t, <2>1, <2>2, <2>3, GuardedLoss, Zenon
  <2> QED BY <1>t, <2>1, <2>4, GateKept, Zenon
<1>5. ASSUME NEW n \in Nodes, PodFlips(n) PROVE GateInv'
  BY <1>t, <1>5, GateKept, Zenon DEF PodFlips
<1>6. ASSUME NEW r \in Ranks, RankDies(r) PROVE GateInv'
  BY <1>t, <1>6, GateKept, Zenon DEF RankDies
<1>7. ASSUME NEW p \in Pools, ModeChanges(p) PROVE GateInv'
  <2>1. /\ UNCHANGED <<job, seen, emptied>> /\ drifted' = drifted \cup {p}
        /\ \A q \in Pools \ {p} : mode'[q] = mode[q]
    BY <1>t, <1>7, OnePoolChanges, Zenon
  <2>2. RecordedModeIsRight' /\ NoUnacceptedLoss'
    BY <2>1, Zenon DEF GateInv, RecordedModeIsRight, NoUnacceptedLoss
  <2>3. job'.phase = "running" => Guarded(job.cmd)'
    BY <2>1, Zenon DEF GateInv, Guarded, KVCachePoolsOn, PoolOn
  <2> QED BY <1>t, <2>2, <2>3, Zenon DEF GateInv
<1>8. ASSUME NEW p \in Pools, PoolQueried(p) PROVE GateInv'
  <2>1. /\ UNCHANGED <<job, mode, drifted, emptied>>
        /\ \A q \in Pools : seen'[q] \in {seen[q], mode[q]}
    BY <1>t, <1>8, OnePoolQueried, Zenon
  <2>2. RecordedModeIsRight' /\ NoUnacceptedLoss'
    BY <2>1, Zenon DEF GateInv, RecordedModeIsRight, NoUnacceptedLoss
  <2>3. job'.phase = "running" => Guarded(job.cmd)'
    BY <2>1, Zenon DEF GateInv, Guarded, KVCachePoolsOn, PoolOn
  <2> QED BY <1>t, <2>2, <2>3, Zenon DEF GateInv
<1>9. CASE UNCHANGED vars
  BY <1>t, <1>9, GateKept, Zenon DEF vars
<1> QED
  BY <1>1, <1>2, <1>3, <1>4, <1>5, <1>6, <1>7, <1>8, <1>9, Zenon
     DEF Next, Operator, ReconcileRankOp, Faulty, Environment

\* No command takes data from a pool without redundancy that neither its spec
\* nor a human gave up, unless the pool's mode was changed by hand.
THEOREM LossIsAccepted == Spec => []NoUnacceptedLoss
<1>1. Init => GateInv
  <2> SUFFICES ASSUME Init PROVE GateInv
    BY Zenon
  <2>1. RecordedModeIsRight /\ NoUnacceptedLoss
    BY Zenon DEF Init, RecordedModeIsRight, NoUnacceptedLoss
  <2>2. job.phase # "running"
    BY Zenon DEF Init, NoJob
  <2> QED BY <2>1, <2>2, InitType, Zenon DEF GateInv
<1>2. GateInv => NoUnacceptedLoss
  BY Zenon DEF GateInv
<1> QED BY <1>1, <1>2, GateStep, PTL DEF Spec

-----------------------------------------------------------------------------
(***************************************************************************)
(* Whose answer a Job gives.  The code knows the Job by its name only, so  *)
(* OkMeansRan needs that humans wait until no rank-op Job is left.  Then   *)
(* the object, the copy a pass holds and the Job all carry the newest      *)
(* request, and a result that reached DAOS has been counted as sent.       *)
(***************************************************************************)
CopyHeld == pc # "rankop" => sys.req = None

OneRequest ==
    /\ ann # None => ann.id = nreq
    /\ sys.req # None => sys.req.id = nreq
    /\ job.phase \in {"running", "finished"} => job.cmd.id = nreq

ResultCounted ==
    job.phase = "finished" /\ job.out # "unreachable" => executed[job.cmd.id] > 0

OkInv == TypeOK /\ CopyHeld /\ OneRequest /\ ResultCounted /\ OkMeansRan

\* A step that neither writes a request, nor ends a Job, nor answers one with
\* success keeps OkInv.
LEMMA OkKept ==
    ASSUME OkInv, TypeOK', CopyHeld', UNCHANGED <<nreq, executed>>,
           ann' # None => ann' = ann,
           sys'.req # None => sys'.req = sys.req \/ sys'.req = ann,
           job'.phase \in {"running", "finished"} =>
               job' = job \/ (job'.phase = "running" /\ sys.req # None /\ job'.cmd.id = sys.req.id),
           \A i \in Ids : answer'[i] = "ok" => answer[i] = "ok" \/ executed[i] > 0
    PROVE  OkInv'
<1>1. OneRequest'
  BY Zenon DEF OkInv, OneRequest
<1>2. ResultCounted'
  BY DEF OkInv, ResultCounted
<1>3. OkMeansRan'
  BY Zenon DEF OkInv, OkMeansRan
<1> QED BY <1>1, <1>2, <1>3, Zenon DEF OkInv

\* OkInv is kept by every step, provided humans wait for the Job to be gone.
LEMMA OkStep == Manner = "patient" /\ OkInv /\ [Next]_vars => OkInv'
<1> SUFFICES ASSUME Manner = "patient", OkInv, [Next]_vars PROVE OkInv'
  BY Zenon
<1> USE DEF human, memory, world, hist
<1>t. TypeOK /\ TypeOK'
  BY TypeStep, Zenon DEF OkInv
<1>c. CopyHeld /\ OneRequest /\ ResultCounted /\ OkMeansRan
  BY Zenon DEF OkInv
<1>1. CASE BeginPass
  <2>1. CopyHeld'
    BY <1>1, Zenon DEF BeginPass, CopyHeld
  <2> QED BY <1>t, <1>1, <2>1, OkKept DEF BeginPass
<1>2. CASE NoRequest
  <2>1. CopyHeld'
    BY <1>2, Zenon DEF NoRequest, Return, NoSys, CopyHeld
  <2> QED BY <1>t, <1>2, <2>1, OkKept, Zenon DEF NoRequest, Return, NoSys
<1>3. CASE Refuse
  <2>1. CopyHeld' /\ sys'.req = None
    BY <1>3, Zenon DEF Refuse, Record, Return, NoSys, CopyHeld
  <2>2. \A i \in Ids : answer'[i] = "ok" => answer[i] = "ok"
    BY <1>t, <1>3, Zenon DEF Refuse, Record, TypeOK
  <2> QED BY <1>t, <1>3, <2>1, <2>2, OkKept, Zenon DEF Refuse, Record, ClearRankOp
<1>4. CASE WaitForJob \/ RetryLater \/ PassEndsAfterRun
  <2>1. CopyHeld' /\ sys'.req = None
    BY <1>4 DEF WaitForJob, RetryLater, PassEndsAfterRun, Return, NoSys, CopyHeld
  <2>2. /\ sys.req # None /\ UNCHANGED <<nreq, executed, ann, answer>>
        /\ job' = AfterRun(job, Command)
    BY <1>4, Zenon DEF WaitForJob, RetryLater, PassEndsAfterRun
  <2>3. job'.phase \in {"running", "finished"} =>
           job' = job \/ (job'.phase = "running" /\ job'.cmd.id = sys.req.id)
    BY <2>2, Zenon DEF AfterRun, Running, Deleting, Command
  <2> QED BY <1>t, <2>1, <2>2, <2>3, OkKept, Zenon
<1>5. CASE CollectResult
  <2>1. /\ CopyHeld' /\ sys'.req = None /\ ann' = None /\ job'.phase = "deleting"
        /\ UNCHANGED <<nreq, executed>>
    BY <1>5, Zenon DEF CollectResult, Record, ClearRankOp, AfterRun, Deleting, Done, Return, NoSys, CopyHeld
  <2>2. sys.req.id = job.cmd.id /\ job.phase = "finished"
    BY <1>c, <1>5, Zenon DEF CollectResult, Done, OneRequest
  <2>3. Succeeded(sys.req.op) => executed[sys.req.id] > 0
    BY <1>c, <2>2, Zenon DEF ResultCounted, Succeeded
  <2>4. \A i \in Ids : answer'[i] = "ok" => answer[i] = "ok" \/ executed[i] > 0
    BY <1>t, <1>5, <2>3, Zenon DEF CollectResult, Record, TypeOK
  <2> QED BY <1>t, <2>1, <2>4, OkKept, Zenon
<1>6. CASE UpdateStatus \/ PassEnds
  <2>1. CopyHeld' /\ (sys'.req # None => sys'.req = sys.req)
    BY <1>c, <1>6 DEF UpdateStatus, PassEnds, NoSys, CopyHeld
  <2>2. UNCHANGED <<nreq, executed, ann, answer, job>>
    BY <1>6, Zenon DEF UpdateStatus, PassEnds
  <2> QED BY <1>t, <2>1, <2>2, OkKept, Zenon
<1>7. CASE JobExpires \/ JobRemoved
  <2>1. UNCHANGED <<nreq, executed, ann, answer, sys, pc>> /\ job'.phase = "absent"
    BY <1>7 DEF JobExpires, JobRemoved, NoJob
  <2> QED BY <1>t, <1>c, <2>1, OkKept, Zenon DEF CopyHeld
<1>8. ASSUME NEW op \in Asked, NEW S \in SUBSET Ranks, NEW accept \in BOOLEAN,
             WriteRequest(op, S, accept)
      PROVE  OkInv'
  <2>1. /\ ann'.id = nreq' /\ sys.req = None /\ job.phase = "absent"
        /\ UNCHANGED <<sys, pc, job, executed, answer>>
    BY <1>c, <1>8, Zenon DEF WriteRequest, CopyHeld
  <2> QED BY <1>t, <1>c, <2>1, Zenon DEF OkInv, CopyHeld, OneRequest, ResultCounted, OkMeansRan
<1>9. ASSUME NEW out \in Outs, JobFinishes(out) PROVE OkInv'
  <2>1. /\ job.cmd.id \in Ids /\ job'.cmd = job.cmd /\ job'.phase = "finished" /\ job'.out = out
        /\ job.phase = "running" /\ UNCHANGED <<nreq, ann, sys, pc, answer>>
    BY <1>9, <1>t, Zenon DEF JobFinishes, Finished, Cmds, TypeOK, Job
  <2>2. executed \in [Ids -> Nat]
    BY <1>t, Zenon DEF TypeOK
  <2>3. \A i \in Ids : executed'[i] = IF i = job.cmd.id /\ out # "unreachable"
                                      THEN executed[i] + 1 ELSE executed[i]
    BY <1>9, <2>1, <2>2, Zenon DEF JobFinishes
  <2>4. \A i \in Ids : executed[i] > 0 => executed'[i] > 0
    BY <2>2, <2>3
  <2>5. out # "unreachable" => executed'[job.cmd.id] > 0
    BY <2>1, <2>2, <2>3
  <2>6. CopyHeld' /\ OneRequest'
    BY <1>c, <2>1, Zenon DEF CopyHeld, OneRequest
  <2>7. ResultCounted' /\ OkMeansRan'
    BY <1>c, <2>1, <2>4, <2>5, Zenon DEF ResultCounted, OkMeansRan
  <2> QED BY <1>t, <2>6, <2>7, Zenon DEF OkInv
<1>10. CASE WindowPasses
  BY <1>t, <1>c, <1>10, OkKept, Zenon DEF WindowPasses, CopyHeld
<1>11. ASSUME NEW n \in Nodes, PodFlips(n) PROVE OkInv'
  BY <1>t, <1>c, <1>11, OkKept, Zenon DEF PodFlips, CopyHeld
<1>12. ASSUME NEW r \in Ranks, RankDies(r) PROVE OkInv'
  BY <1>t, <1>c, <1>12, OkKept, Zenon DEF RankDies, CopyHeld
<1>13. ASSUME NEW p \in Pools, ModeChanges(p) \/ PoolQueried(p) PROVE OkInv'
  BY <1>t, <1>c, <1>13, OkKept, Zenon DEF ModeChanges, PoolQueried, CopyHeld
<1>14. CASE UNCHANGED vars
  BY <1>t, <1>c, <1>14, OkKept, Zenon DEF vars, CopyHeld
<1>15. ~Withdraw
  BY Zenon DEF Withdraw
<1> QED
  BY <1>1, <1>2, <1>3, <1>4, <1>5, <1>6, <1>7, <1>8, <1>9, <1>10, <1>11, <1>12, <1>13, <1>14, <1>15, Zenon
     DEF Next, Operator, ReconcileRankOp, Faulty, Human, Environment

\* Where humans wait for the rank-op Job to be gone before they write the next
\* request, a request lastRankOp reports as succeeded was carried out by DAOS:
\* reconcileRankOp never takes another request's result for it.
THEOREM OkAnswersRan == Manner = "patient" => (Spec => []OkMeansRan)
<1> SUFFICES ASSUME Manner = "patient" PROVE Spec => []OkMeansRan
  BY Zenon
<1>1. Init => OkInv
  <2> SUFFICES ASSUME Init PROVE OkInv
    BY Zenon
  <2>1. \A i \in Ids : answer[i] = None
    BY Zenon DEF Init
  <2>2. OkMeansRan
    BY <2>1, NoneIsNoAnswer, Zenon DEF OkMeansRan, Results
  <2> QED BY <2>2, InitType, Zenon DEF Init, NoSys, NoJob, OkInv, CopyHeld, OneRequest, ResultCounted
<1>2. OkInv /\ [Next]_vars => OkInv'
  BY OkStep, Zenon
<1>3. OkInv => OkMeansRan
  BY Zenon DEF OkInv
<1> QED BY <1>1, <1>2, <1>3, PTL DEF Spec

-----------------------------------------------------------------------------
(***************************************************************************)
(* No answer is lost without a fault.  A pass answers a request and takes  *)
(* it off the object before it stores the status; Owed discounts the       *)
(* answer the pass still holds.  That the request taken off is the one     *)
(* answered needs that humans leave a pending request alone.               *)
(***************************************************************************)
Holds(i) == pc = "update" /\ wlast # None /\ wlast.res # "running" /\ wlast.id = i

Owed == {i \in dropped \ answered : ~Holds(i)}

AnswerInv ==
    /\ TypeOK /\ CopyHeld
    /\ sys.req # None => ann = sys.req
    /\ Cardinality(Owed) <= faults

\* Owed is a finite set of identities.
LEMMA OwedFinite ==
    ASSUME TypeOK
    PROVE  /\ IsFiniteSet(Ids) /\ \A S \in SUBSET Ids : IsFiniteSet(S)
           /\ Owed \in SUBSET Ids
<1>1. IsFiniteSet(Ids)
  BY FS_Interval DEF Ids
<1> QED BY <1>1, FS_Subset, Zenon DEF TypeOK, Owed

\* A step after which no more is owed keeps AnswerInv.
LEMMA AnswerKept ==
    ASSUME AnswerInv, TypeOK', CopyHeld', sys'.req # None => ann' = sys'.req,
           Owed' \subseteq Owed, faults' \in {faults, faults + 1}
    PROVE  AnswerInv'
<1>1. IsFiniteSet(Owed)
  BY OwedFinite, Zenon DEF AnswerInv
<1>2. Cardinality(Owed') <= Cardinality(Owed) /\ IsFiniteSet(Owed')
  BY <1>1, FS_Subset, Zenon
<1>3. Cardinality(Owed') \in Nat /\ Cardinality(Owed) \in Nat /\ faults \in Nat
  BY <1>1, <1>2, FS_CardinalityType DEF AnswerInv, TypeOK
<1>4. Cardinality(Owed) <= faults
  BY Zenon DEF AnswerInv
<1>5. Cardinality(Owed') <= faults'
  <2>1. CASE faults' = faults
    BY <1>2, <1>3, <1>4, <2>1
  <2>2. CASE faults' = faults + 1
    BY <1>2, <1>3, <1>4, <2>2
  <2> QED BY <2>1, <2>2, Zenon
<1> QED BY <1>5, Zenon DEF AnswerInv

\* A pass cut short loses at most the one answer it held, and is a fault.
LEMMA AnswerLost ==
    ASSUME AnswerInv, TypeOK', PassEnds \/ PassEndsAfterRun
    PROVE  AnswerInv'
<1> USE DEF human, memory, world, hist
<1>1. /\ pc' = "idle" /\ sys'.req = None /\ faults' = faults + 1
      /\ UNCHANGED <<dropped, answered>>
  BY DEF PassEnds, PassEndsAfterRun, Fault, NoSys
<1>2. TypeOK /\ faults \in Nat /\ Cardinality(Owed) <= faults
  BY DEF AnswerInv, TypeOK
<1>3. Owed' \subseteq Owed \cup {wlast.id}
  BY <1>1, Zenon DEF Owed, Holds
<1>4. IsFiniteSet(Owed) /\ Cardinality(Owed) \in Nat
  BY <1>2, OwedFinite, FS_CardinalityType, Zenon
<1>5. /\ IsFiniteSet(Owed \cup {wlast.id})
      /\ Cardinality(Owed \cup {wlast.id}) \in {Cardinality(Owed), Cardinality(Owed) + 1}
  BY <1>4, FS_AddElement, Zenon
<1>6. Cardinality(Owed') \in Nat /\ Cardinality(Owed') <= Cardinality(Owed \cup {wlast.id})
  BY <1>3, <1>5, FS_Subset, FS_CardinalityType, Zenon
<1>7. Cardinality(Owed') <= faults + 1
  <2>1. CASE Cardinality(Owed \cup {wlast.id}) = Cardinality(Owed)
    BY <1>2, <1>4, <1>6, <2>1
  <2>2. CASE Cardinality(Owed \cup {wlast.id}) = Cardinality(Owed) + 1
    BY <1>2, <1>4, <1>6, <2>2
  <2> QED BY <1>5, <2>1, <2>2, Zenon
<1> QED BY <1>1, <1>7, Zenon DEF AnswerInv, CopyHeld

\* What record() says of the request the pass read settles the request it takes
\* off the object.
LEMMA AnswerRecorded ==
    ASSUME AnswerInv, TypeOK', pc = "rankop", sys.req # None, NEW res \in Results, Record(res),
           UNCHANGED <<answered, faults>>
    PROVE  AnswerInv'
<1>1. /\ ann = sys.req /\ pc' = "update" /\ sys'.req = None
      /\ wlast' = [id |-> sys.req.id, op |-> sys.req.op, ranks |-> sys.req.ranks, res |-> res]
      /\ dropped' = dropped \cup {sys.req.id}
  BY Zenon DEF AnswerInv, Record, ClearRankOp, Return, NoSys
<1>2. wlast' \in LastOps
  BY <1>1, LastOpType, Zenon DEF AnswerInv
<1>3. wlast' # None
  BY <1>2, NoneIsNoAnswer, Zenon
<1>4. \A i \in Ids : i = sys.req.id => Holds(i)'
  BY <1>1, <1>3, Zenon DEF Holds, Results
<1>5. ASSUME NEW i \in Owed' PROVE i \in Owed
  <2>1. i \in dropped \ answered
    BY <1>1, <1>2, <1>4, <1>5, Zenon DEF Owed, LastOps
  <2> QED BY <2>1, Zenon DEF Owed, Holds
<1> QED BY <1>1, <1>5, AnswerKept, Zenon DEF CopyHeld

\* AnswerInv is kept by every step, provided humans leave a pending request
\* alone.
LEMMA AnswerStep == Manner # "hasty" /\ AnswerInv /\ [Next]_vars => AnswerInv'
<1> SUFFICES ASSUME Manner # "hasty", AnswerInv, [Next]_vars PROVE AnswerInv'
  BY Zenon
<1> USE DEF human, memory, world, hist
<1>t. TypeOK /\ TypeOK'
  BY TypeStep, Zenon DEF AnswerInv
<1>c. CopyHeld /\ (sys.req # None => ann = sys.req)
  BY Zenon DEF AnswerInv
<1>1. CASE BeginPass
  <2>1. Owed' \subseteq Owed
    BY <1>1, Zenon DEF BeginPass, Owed, Holds
  <2> QED BY <1>t, <1>1, <2>1, AnswerKept DEF BeginPass, CopyHeld
<1>2. CASE NoRequest \/ WaitForJob \/ RetryLater
  <2>1. /\ pc = "rankop" /\ UNCHANGED <<dropped, answered, faults>> /\ sys'.req = None
    BY <1>2 DEF NoRequest, WaitForJob, RetryLater, Return, NoSys
  <2>2. Owed' \subseteq Owed
    BY <2>1, Zenon DEF Owed, Holds
  <2> QED BY <1>t, <2>1, <2>2, AnswerKept, Zenon DEF CopyHeld
<1>3. CASE Refuse
  BY <1>t, <1>3, AnswerRecorded, Zenon DEF Refuse, Results
<1>4. CASE CollectResult
  <2>1. PICK res \in Results : Record(res)
    BY <1>4, Zenon DEF CollectResult, Results
  <2> QED BY <1>t, <1>4, <2>1, AnswerRecorded, Zenon DEF CollectResult
<1>5. CASE UpdateStatus
  <2>1. /\ sys' = sys /\ sys.req = None /\ UNCHANGED <<ann, faults, dropped>>
        /\ pc = "update" /\ pc' = "idle"
        /\ answered' = IF wlast # None /\ wlast.res # "running"
                       THEN answered \cup {wlast.id} ELSE answered
    BY <1>c, <1>5, Zenon DEF UpdateStatus, CopyHeld
  <2>2. Owed' \subseteq Owed
    BY <2>1, Zenon DEF Owed, Holds
  <2> QED BY <1>t, <2>1, <2>2, AnswerKept, Zenon DEF CopyHeld
<1>6. CASE PassEnds \/ PassEndsAfterRun
  BY <1>t, <1>6, AnswerLost, Zenon
<1>7. CASE JobExpires \/ JobRemoved \/ WindowPasses
  <2>1. /\ UNCHANGED <<ann, sys, pc, wlast, dropped, answered>> /\ faults' \in {faults, faults + 1}
    BY <1>7, Zenon DEF JobExpires, JobRemoved, WindowPasses, Fault
  <2>2. Owed' \subseteq Owed
    BY <2>1, Zenon DEF Owed, Holds
  <2> QED BY <1>t, <1>c, <2>1, <2>2, AnswerKept, Zenon DEF CopyHeld
<1>8. ASSUME NEW op \in Asked, NEW S \in SUBSET Ranks, NEW accept \in BOOLEAN,
             WriteRequest(op, S, accept)
      PROVE  AnswerInv'
  <2>1. /\ ann = None /\ UNCHANGED <<sys, pc, wlast, dropped, answered, faults>>
    BY <1>8, Zenon DEF WriteRequest
  <2>2. sys.req = None
    BY <1>c, <2>1, Zenon
  <2>3. Owed' \subseteq Owed
    BY <2>1, Zenon DEF Owed, Holds
  <2> QED BY <1>t, <1>c, <2>1, <2>2, <2>3, AnswerKept, Zenon DEF CopyHeld
<1>9. ASSUME \/ \E out \in Outs : JobFinishes(out)
             \/ \E n \in Nodes : PodFlips(n)
             \/ \E r \in Ranks : RankDies(r)
             \/ \E p \in Pools : ModeChanges(p) \/ PoolQueried(p)
             \/ UNCHANGED vars
      PROVE  AnswerInv'
  <2>1. UNCHANGED <<ann, sys, pc, wlast, dropped, answered, faults>>
    BY <1>9, Zenon DEF JobFinishes, PodFlips, RankDies, ModeChanges, PoolQueried, vars
  <2>2. Owed' \subseteq Owed
    BY <2>1, Zenon DEF Owed, Holds
  <2> QED BY <1>t, <1>c, <2>1, <2>2, AnswerKept, Zenon DEF CopyHeld
<1>10. ~Withdraw
  BY Zenon DEF Withdraw
<1> QED
  BY <1>1, <1>2, <1>3, <1>4, <1>5, <1>6, <1>7, <1>8, <1>9, <1>10, Zenon
     DEF Next, Operator, ReconcileRankOp, Faulty, Human, Environment

\* Where humans leave a pending request alone, every request the operator took
\* off the object is answered in the stored status once the pass is over, except
\* for at most one per pass that was cut short.
THEOREM AnswersAreKept == Manner # "hasty" => (Spec => []UnansweredNeedsFault)
<1> SUFFICES ASSUME Manner # "hasty" PROVE Spec => []UnansweredNeedsFault
  BY Zenon
<1>1. Init => AnswerInv
  <2> SUFFICES ASSUME Init PROVE AnswerInv
    BY Zenon
  <2>1. Owed = {} /\ faults = 0 /\ sys.req = None
    BY Zenon DEF Init, Owed, NoSys
  <2>2. Cardinality(Owed) <= faults
    BY <2>1, FS_EmptySet
  <2> QED BY <2>1, <2>2, InitType, Zenon DEF AnswerInv, CopyHeld
<1>2. AnswerInv /\ [Next]_vars => AnswerInv'
  BY AnswerStep, Zenon
<1>3. AnswerInv => UnansweredNeedsFault
  <2> SUFFICES ASSUME AnswerInv, pc = "idle" PROVE Cardinality(dropped \ answered) <= faults
    BY Zenon DEF UnansweredNeedsFault
  <2>1. Owed = dropped \ answered
    BY Zenon DEF Owed, Holds
  <2> QED BY <2>1, Zenon DEF AnswerInv
<1> QED BY <1>1, <1>2, <1>3, PTL DEF Spec
=============================================================================
