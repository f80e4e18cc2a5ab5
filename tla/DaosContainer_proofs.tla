------------------------ MODULE DaosContainer_proofs ------------------------
(***************************************************************************)
(* Proofs about DaosContainer, for any bounds on changes and faults and    *)
(* any choice of the pool's mode and opt-in, of slow queries and of        *)
(* deletions.                                                              *)
(***************************************************************************)
EXTENDS DaosContainer, TLAPS

USE DaosContainerAssumption

Names == Ops \cup {"query"}

\* What Run leaves behind is a Job value again.
LEMMA AfterRunType ==
    ASSUME NEW C, NEW O, NEW j \in Job(C, O), NEW c \in C
    PROVE  AfterRun(j, c) \in Job(C, O)
  BY Zenon DEF Job, AfterRun, Running, Deleting, Done

\* A running Job that ends with an output is a finished Job value.
LEMMA FinishedType ==
    ASSUME NEW C, NEW O, NEW j \in Job(C, O), j.phase = "running", NEW o \in O
    PROVE  /\ Finished(j, o) \in Job(C, O) /\ j.cmd \in C
           /\ Finished(j, o).phase = "finished" /\ Finished(j, o).out = o
<1>1. j \in [phase : {"running"}, cmd : C, out : {None}]
  BY Zenon DEF Job
<1>2. Finished(j, o) \in [phase : {"finished"}, cmd : C, out : O]
  BY <1>1, Zenon DEF Finished
<1> QED BY <1>1, <1>2, Zenon DEF Job, Finished

\* The values between passes, and the Job that is not there, are well typed.
LEMMA BlankTypes ==
    /\ NoObj \in Objects /\ NoStatus \in Statuses /\ NoPool \in Pools
    /\ \A C, O : NoJob \in Job(C, O)
<1>1. NoObj \in Objects
  BY Zenon DEF NoObj, Objects
<1>2. NoStatus \in Statuses
  BY Zenon DEF NoStatus, Statuses
<1>3. NoPool \in Pools
  BY Zenon DEF NoPool, Pools
<1> QED BY <1>1, <1>2, <1>3, Zenon DEF NoJob, Job

\* The changes of an object give an object.
LEMMA ObjectTypes ==
    ASSUME NEW o \in Objects, NEW b \in BOOLEAN
    PROVE  /\ [o EXCEPT !.finalizer = TRUE] \in Objects
           /\ [o EXCEPT !.deleted = TRUE, !.approved = b] \in Objects
           /\ [o EXCEPT !.gen = @ + 1, !.acl = @ + 1] \in Objects
<1>1. [o EXCEPT !.finalizer = TRUE] \in Objects
  BY Zenon DEF Objects
<1>2. [o EXCEPT !.deleted = TRUE, !.approved = b] \in Objects
  BY Zenon DEF Objects
<1>3. [o EXCEPT !.gen = @ + 1, !.acl = @ + 1] \in Objects
  <2>1. o.gen + 1 \in Nat /\ o.acl + 1 \in Nat
    BY DEF Objects
  <2>2. \A m, n \in Nat : [o EXCEPT !.gen = m, !.acl = n] \in Objects
    BY Zenon DEF Objects
  <2> QED BY <2>1, <2>2, Zenon
<1> QED BY <1>1, <1>2, <1>3, Zenon

\* The changes of a DaosPool, of a pool query and of the DAOS container.
LEMMA PoolTypes ==
    ASSUME NEW p \in Pools, NEW q \in PoolQueries
    PROVE  /\ [p EXCEPT !.newer = FALSE] \in Pools
           /\ [p EXCEPT !.parent = IF @ = "none" THEN "empty" ELSE "ready"] \in Pools
           /\ [p EXCEPT !.mode = q.mode, !.targets = q.targets, !.newer = q.newer] \in Pools
           /\ [q EXCEPT !.newer = FALSE] \in PoolQueries
           /\ \A m \in Modes, t \in Targets : [q EXCEPT !.mode = m, !.targets = t] \in PoolQueries
<1>1. [p EXCEPT !.newer = FALSE] \in Pools
  BY Zenon DEF Pools
<1>2. [p EXCEPT !.parent = IF @ = "none" THEN "empty" ELSE "ready"] \in Pools
  BY Zenon DEF Pools
<1>3. /\ q.mode \in Modes \cup {None} /\ q.targets \in Targets \cup {None} /\ q.newer \in BOOLEAN
  BY Zenon DEF PoolQueries
<1>4. ASSUME NEW m \in Modes \cup {None}, NEW t \in Targets \cup {None}, NEW b \in BOOLEAN
      PROVE  [p EXCEPT !.mode = m, !.targets = t, !.newer = b] \in Pools
  BY Zenon DEF Pools
<1>5. [q EXCEPT !.newer = FALSE] \in PoolQueries
  BY Zenon DEF PoolQueries
<1>6. \A m \in Modes, t \in Targets : [q EXCEPT !.mode = m, !.targets = t] \in PoolQueries
  BY Zenon DEF PoolQueries
<1> QED BY <1>1, <1>2, <1>3, <1>4, <1>5, <1>6, Zenon

\* What happens to the DAOS container leaves one.
LEMMA ContainerTypes ==
    ASSUME NEW d \in DaosContainers, NEW n \in Nat
    PROVE  /\ [d EXCEPT !.unclean = TRUE] \in DaosContainers
           /\ [d EXCEPT !.unclean = FALSE] \in DaosContainers
           /\ [d EXCEPT !.lost = TRUE] \in DaosContainers
           /\ [d EXCEPT !.acl = n] \in DaosContainers
<1>1. [d EXCEPT !.unclean = TRUE] \in DaosContainers
  BY Zenon DEF DaosContainers
<1>2. [d EXCEPT !.unclean = FALSE] \in DaosContainers
  BY Zenon DEF DaosContainers
<1>3. [d EXCEPT !.lost = TRUE] \in DaosContainers
  BY Zenon DEF DaosContainers
<1>4. [d EXCEPT !.acl = n] \in DaosContainers
  BY Zenon DEF DaosContainers
<1> QED BY <1>1, <1>2, <1>3, <1>4, Zenon

\* The statuses a pass builds.
LEMMA StatusTypes ==
    ASSUME NEW s \in Statuses, NEW op \in Ops \cup {None}, NEW r \in Ops \cup {"other"}, NEW n \in Nat
    PROVE  /\ [s EXCEPT !.reason = r] \in Statuses
           /\ [s EXCEPT !.op = op, !.reason = r] \in Statuses
           /\ [s EXCEPT !.reason = r, !.op = op] \in Statuses
           /\ [s EXCEPT !.op = op, !.obs = n, !.reason = r] \in Statuses
           /\ [s EXCEPT !.uuid = n] \in Statuses
  BY Zenon DEF Statuses

\* A pass leaves well-typed state when what it writes is well typed.
LEMMA PassType ==
    ASSUME TypeOK, UNCHANGED outside,
           obj' \in Objects, st' \in Statuses, sys' \in Objects, psys' \in Pools, wst' \in Statuses,
           pc' \in {"idle", "go", "update"}, hold' \in BOOLEAN, pending' \in BOOLEAN,
           jobs' \in [Names -> Job(Nat, Outs)], failed' \in Nat
    PROVE  TypeOK'
  BY Zenon DEF TypeOK, outside, daos, bounds, Names

\* What Return and Store leave of the pass.
LEMMA ReturnType ==
    ASSUME TypeOK
    PROVE  /\ Return => sys' \in Objects /\ psys' \in Pools /\ wst' \in Statuses /\ pc' = "idle"
           /\ \A s \in Statuses : Store(s) =>
                 sys' \in Objects /\ psys' \in Pools /\ wst' \in Statuses /\ pc' = "update"
  BY BlankTypes, Zenon DEF Return, Store, TypeOK

\* Run, on one Job or on several, leaves Jobs.
LEMMA JobsType ==
    ASSUME TypeOK
    PROVE  /\ \A op \in Names : RunJob(op) => jobs' \in [Names -> Job(Nat, Outs)]
           /\ \A names : RunJobs(names) \in [Names -> Job(Nat, Outs)]
           /\ \A op \in Names : Done(jobs[op]) => jobs[op].out \in Outs
<1>1. jobs \in [Names -> Job(Nat, Outs)] /\ sys.acl \in Nat
  BY Zenon DEF TypeOK, Objects, Names
<1>2. \A op \in Names : AfterRun(jobs[op], sys.acl) \in Job(Nat, Outs)
  BY <1>1, AfterRunType, Zenon
<1>3. \A op \in Names : Done(jobs[op]) => jobs[op].out \in Outs
  BY <1>1, Zenon DEF Job, Done
<1> QED BY <1>1, <1>2, <1>3, Zenon DEF RunJob, RunJobs

\* What the parts of TypeOK say one by one.
LEMMA TypeFacts ==
    ASSUME TypeOK
    PROVE  /\ obj \in Objects /\ sys \in Objects /\ st \in Statuses /\ wst \in Statuses
           /\ pool \in Pools /\ psys \in Pools
           /\ hold \in BOOLEAN /\ pending \in BOOLEAN /\ late \in BOOLEAN /\ started \in BOOLEAN
           /\ dpool \in BOOLEAN /\ wholeSince \in BOOLEAN /\ asked \in BOOLEAN
           /\ jobs \in [Names -> Job(Nat, Outs)] /\ sys.gen \in Nat /\ sys.acl \in Nat
           /\ edits \in 0..MaxChanges /\ outs \in 0..MaxChanges /\ flips \in 0..MaxChanges /\ gone \in 0..MaxChanges
           /\ setting.maxFaults \in Nat
           /\ faults \in 0..setting.maxFaults /\ errors \in 0..setting.maxFaults /\ lates \in 0..setting.maxFaults
  BY Zenon DEF TypeOK, Names, Objects

\* Collecting the query, with or without an operation after it.
LEMMA CollectType ==
    ASSUME TypeOK, NEW s \in Statuses, NEW op \in Ops \cup {None}, Collect(s, op)
    PROVE  TypeOK'
<1>1. (IF op = None THEN s ELSE [s EXCEPT !.op = op, !.reason = "other"]) \in Statuses
  BY StatusTypes, Zenon
<1>2. sys' \in Objects /\ psys' \in Pools /\ wst' \in Statuses /\ pc' = "update"
  BY <1>1, ReturnType, Zenon DEF Collect
<1>3. jobs' \in [Names -> Job(Nat, Outs)]
  BY JobsType, Zenon DEF Collect
<1> QED BY <1>2, <1>3, TypeFacts, PassType, Zenon DEF Collect, TypeOK

\* Types are kept by the steps of a pass.
LEMMA ReconcileType == TypeOK /\ (Operator \/ PassEnds) => TypeOK'
<1> SUFFICES ASSUME TypeOK, Operator \/ PassEnds PROVE TypeOK'
  BY Zenon
<1>t. /\ obj \in Objects /\ sys \in Objects /\ st \in Statuses /\ wst \in Statuses
      /\ pool \in Pools /\ psys \in Pools /\ hold \in BOOLEAN /\ pending \in BOOLEAN
      /\ jobs \in [Names -> Job(Nat, Outs)] /\ sys.gen \in Nat /\ sys.acl \in Nat
      /\ failed \in Nat /\ wst.op \in Ops \cup {None}
      /\ pc \in {"idle", "go", "update"}
  BY TypeFacts, Zenon DEF TypeOK, Statuses
<1>o. NoObj \in Objects /\ [obj EXCEPT !.finalizer = TRUE] \in Objects
  BY <1>t, BlankTypes, ObjectTypes, Zenon
<1>s. \A op \in Ops \cup {None}, r \in Ops \cup {"other"}, n \in Nat :
        /\ [wst EXCEPT !.reason = r] \in Statuses
        /\ [wst EXCEPT !.op = op, !.reason = r] \in Statuses
        /\ [wst EXCEPT !.reason = r, !.op = op] \in Statuses
        /\ [wst EXCEPT !.op = op, !.obs = n, !.reason = r] \in Statuses
        /\ [wst EXCEPT !.uuid = n] \in Statuses
  BY <1>t, StatusTypes, Zenon
<1>1. CASE BeginPass
  BY <1>1, <1>t, PassType, Zenon DEF BeginPass
<1>2. CASE NoParent
  <2>1. sys' \in Objects /\ psys' \in Pools /\ wst' \in Statuses /\ pc' \in {"idle", "update"}
    BY <1>2, <1>s, ReturnType, Zenon DEF NoParent, RemoveFinalizer
  <2>2. obj' \in Objects /\ UNCHANGED <<st, hold, pending, jobs, failed, outside>>
    BY <1>2, <1>t, <1>o, Zenon DEF NoParent, RemoveFinalizer
  <2> QED BY <1>t, <2>1, <2>2, PassType, Zenon
<1>3. CASE AddFinalizer
  <2>1. sys' \in Objects /\ psys' \in Pools /\ wst' \in Statuses /\ pc' = "idle"
    BY <1>3, ReturnType, Zenon DEF AddFinalizer
  <2>2. obj' \in Objects
    BY <1>3, <1>t, <1>o, Zenon DEF AddFinalizer
  <2> QED BY <1>3, <1>t, <2>1, <2>2, PassType, Zenon DEF AddFinalizer
<1>4. CASE PoolNotReady
  <2>1. sys' \in Objects /\ psys' \in Pools /\ wst' \in Statuses /\ pc' = "update"
    BY <1>4, <1>s, ReturnType, Zenon DEF PoolNotReady
  <2> QED BY <1>4, <1>t, <2>1, PassType, Zenon DEF PoolNotReady
<1>5. CASE Poll
  <2>1. sys' \in Objects /\ psys' \in Pools /\ wst' \in Statuses /\ pc' = "idle"
    BY <1>5, ReturnType, Zenon DEF Poll
  <2>2. jobs' \in [Names -> Job(Nat, Outs)]
    BY <1>5, <1>t, JobsType, Zenon DEF Poll, Names
  <2> QED BY <1>5, <1>t, <2>1, <2>2, PassType, Zenon DEF Poll
<1>6. CASE PollDone
  <2>1. wst.op \in Ops
    BY <1>6, <1>t, Zenon DEF PollDone
  <2>2. jobs[wst.op].out \in Outs
    BY <1>6, <2>1, JobsType, Zenon DEF PollDone, Names
  <2>3. jobs[wst.op].out.id \in Nat
    BY <2>2 DEF Outs
  <2>4. Applied(wst.op, jobs[wst.op].out.id) \in Statuses
    BY <1>t, <2>1, <2>3, Zenon DEF Applied, Statuses
  <2>5. [wst EXCEPT !.op = None, !.obs = sys.gen, !.reason = wst.op] \in Statuses
    BY <1>t, <1>s, <2>1, Zenon
  <2>6. sys' \in Objects /\ psys' \in Pools /\ wst' \in Statuses /\ pc' = "update"
    BY <1>6, <2>4, <2>5, ReturnType, Zenon DEF PollDone
  <2>7. jobs' \in [Names -> Job(Nat, Outs)]
    BY <1>6, <2>1, JobsType, Zenon DEF PollDone, Names
  <2>8. hold' \in BOOLEAN
    BY <1>6, <1>t, Zenon DEF PollDone
  <2>9. failed' \in Nat
    <3>1. failed' = failed \/ failed' = failed + 1
      BY <1>6, Zenon DEF PollDone
    <3> QED BY <1>t, <3>1
  <2> QED BY <1>6, <1>t, <2>6, <2>7, <2>8, <2>9, PassType, Zenon DEF PollDone
<1>7. CASE Held
  <2>1. sys' \in Objects /\ psys' \in Pools /\ wst' \in Statuses /\ pc' = "idle"
    BY <1>7, ReturnType, Zenon DEF Held
  <2> QED BY <1>7, <1>t, <2>1, PassType, Zenon DEF Held
<1>8. CASE Probing
  <2>1. sys' \in Objects /\ psys' \in Pools /\ wst' \in Statuses /\ pc' = "update"
    BY <1>8, <1>t, ReturnType, Zenon DEF Probing
  <2>2. jobs' \in [Names -> Job(Nat, Outs)]
    BY <1>8, JobsType, Zenon DEF Probing, Names
  <2> QED BY <1>8, <1>t, <2>1, <2>2, PassType, Zenon DEF Probing
<1>9. CASE QueryFails \/ Missing
  BY <1>9, <1>t, <1>s, CollectType, Zenon DEF QueryFails, Missing, Ops
<1>10. CASE Found
  <2>1. jobs["query"].out \in Outs
    BY <1>10, JobsType, Zenon DEF Found, Answered, Names
  <2>2. jobs["query"].out.id \in Nat
    BY <2>1 DEF Outs
  <2>3. [wst EXCEPT !.uuid = jobs["query"].out.id] \in Statuses
    BY <1>s, <2>2, Zenon
  <2>4. [[wst EXCEPT !.uuid = jobs["query"].out.id] EXCEPT !.reason = "other"] \in Statuses
    BY <2>3, StatusTypes, Zenon
  <2> QED BY <1>10, <2>3, <2>4, CollectType, Zenon DEF Found, Ops
<1>11. CASE RfExceeded
  <2>1. jobs' \in [Names -> Job(Nat, Outs)]
    BY <1>11, JobsType, Zenon DEF RfExceeded
  <2>2. sys' \in Objects /\ psys' \in Pools /\ wst' \in Statuses /\ pc' = "update"
    <3>1. \A op \in {"heal", None} : [wst EXCEPT !.reason = "other", !.op = op] \in Statuses
      BY <1>s, Zenon DEF Ops
    <3> QED BY <1>11, <3>1, ReturnType, Zenon DEF RfExceeded
  <2>3. hold' \in BOOLEAN /\ pending' \in BOOLEAN
    BY <1>11, Zenon DEF RfExceeded
  <2> QED BY <1>11, <1>t, <2>1, <2>2, <2>3, PassType, Zenon DEF RfExceeded
<1>12. CASE Released
  <2>1. sys' \in Objects /\ psys' \in Pools /\ wst' \in Statuses /\ pc' = "idle"
    BY <1>12, ReturnType, Zenon DEF Released, RemoveFinalizer
  <2>2. obj' \in Objects /\ UNCHANGED <<st, hold, jobs, failed, outside>> /\ pending' = FALSE
    BY <1>12, <1>t, <1>o, Zenon DEF Released, RemoveFinalizer
  <2> QED BY <1>t, <2>1, <2>2, PassType, Zenon
<1>13. CASE DestroyHeld
  <2>1. sys' \in Objects /\ psys' \in Pools /\ wst' \in Statuses /\ pc' = "idle"
    BY <1>13, ReturnType, Zenon DEF DestroyHeld
  <2> QED BY <1>13, <1>t, <2>1, PassType, Zenon DEF DestroyHeld
<1>14. CASE DestroyWait
  <2>1. sys' \in Objects /\ psys' \in Pools /\ wst' \in Statuses /\ pc' \in {"idle", "update"}
    BY <1>14, <1>s, ReturnType, Zenon DEF DestroyWait, Ops
  <2>2. jobs' \in [Names -> Job(Nat, Outs)]
    BY <1>14, JobsType, Zenon DEF DestroyWait, Names, Ops
  <2> QED BY <1>14, <1>t, <2>1, <2>2, PassType, Zenon DEF DestroyWait
<1>15. CASE DestroyDone
  <2>1. sys' \in Objects /\ psys' \in Pools /\ wst' \in Statuses /\ pc' \in {"idle", "update"}
    BY <1>15, <1>s, ReturnType, Zenon DEF DestroyDone, Ops
  <2>2. jobs' \in [Names -> Job(Nat, Outs)]
    BY <1>15, JobsType, Zenon DEF DestroyDone, Names, Ops
  <2>3. obj' \in Objects /\ hold' \in BOOLEAN
    BY <1>15, <1>t, <1>o, Zenon DEF DestroyDone
  <2> QED BY <1>15, <1>t, <2>1, <2>2, <2>3, PassType, Zenon DEF DestroyDone
<1>16. CASE UpdateStatus
  <2>1. sys' \in Objects /\ psys' \in Pools /\ wst' \in Statuses /\ pc' = "idle"
    BY <1>16, ReturnType, Zenon DEF UpdateStatus
  <2>2. st' \in Statuses
    BY <1>16, <1>t, Zenon DEF UpdateStatus
  <2> QED BY <1>16, <1>t, <2>1, <2>2, PassType, Zenon DEF UpdateStatus
<1>17. CASE PassEnds
  <2>1. sys' \in Objects /\ psys' \in Pools /\ wst' \in Statuses /\ pc' = "idle"
    BY <1>17, ReturnType, Zenon DEF PassEnds
  <2>2. hold' \in BOOLEAN /\ pending' \in BOOLEAN
    BY <1>17, <1>t, Zenon DEF PassEnds
  <2>3. faults' \in 0..setting.maxFaults
    BY <1>17, TypeFacts DEF PassEnds, MayFail
  <2> QED BY <1>17, <2>1, <2>2, <2>3, Zenon DEF PassEnds, TypeOK, daos
<1> QED
  BY <1>1, <1>2, <1>3, <1>4, <1>5, <1>6, <1>7, <1>8, <1>9, <1>10, <1>11, <1>12, <1>13, <1>14,
     <1>15, <1>16, <1>17, Zenon DEF Operator, Reconcile

\* The effect of an operation on the container, when it works.
LEMMA EffectType ==
    ASSUME TypeOK, NEW op \in Ops, jobs[op].phase = "running", Works(op)
    PROVE  Effect(op, jobs[op].cmd) \in DaosContainers \cup {None}
<1>1. jobs[op].cmd \in Nat
  BY Zenon DEF TypeOK, Job
<1>2. made + 1 \in Nat
  BY DEF TypeOK
<1>3. CASE op = "create"
  BY <1>1, <1>2, <1>3, Zenon DEF Effect, DaosContainers
<1>4. CASE op # "create"
  <2>1. dc \in DaosContainers
    BY <1>4, Zenon DEF Works, TypeOK
  <2>2. CASE op = "acl"
    BY <1>1, <2>1, <2>2, ContainerTypes, Zenon DEF Effect
  <2>3. CASE op = "heal"
    BY <2>1, <2>3, ContainerTypes, Zenon DEF Effect
  <2>4. CASE op = "destroy"
    BY <2>4, Zenon DEF Effect
  <2> QED BY <1>4, <2>2, <2>3, <2>4, Zenon DEF Ops
<1> QED BY <1>3, <1>4, Zenon

\* A Job that ends leaves Jobs.
LEMMA EndsType ==
    ASSUME TypeOK, NEW op \in Names, NEW kind, NEW id, [kind |-> kind, id |-> id] \in Outs,
           jobs[op].phase = "running", Ends(op, kind, id)
    PROVE  jobs' \in [Names -> Job(Nat, Outs)]
<1>1. jobs \in [Names -> Job(Nat, Outs)]
  BY Zenon DEF TypeOK, Names
<1>2. Finished(jobs[op], [kind |-> kind, id |-> id]) \in Job(Nat, Outs)
  BY <1>1, FinishedType, Zenon
<1> QED BY <1>1, <1>2, Zenon DEF Ends

\* Marking what is older than a query.
LEMMA MarkType ==
    ASSUME TypeOK, Mark
    PROVE  pool' \in Pools /\ psys' \in Pools /\ pq' \in PoolQueries \cup {None} /\ late' = FALSE
<1>1. pool' \in Pools /\ psys' \in Pools
  <2>1. \A p \in Pools : [p EXCEPT !.newer = FALSE] \in Pools
    BY Zenon DEF Pools
  <2> QED BY <2>1, Zenon DEF Mark, TypeOK
<1>2. pq' \in PoolQueries \cup {None}
  <2>1. \A q \in PoolQueries : [q EXCEPT !.newer = FALSE] \in PoolQueries
    BY Zenon DEF PoolQueries
  <2> QED BY <2>1, Zenon DEF Mark, TypeOK
<1> QED BY <1>1, <1>2, Zenon DEF Mark

\* Types are kept by every step.
LEMMA TypeStep == TypeOK /\ [Next]_vars => TypeOK'
<1> SUFFICES ASSUME TypeOK, [Next]_vars PROVE TypeOK'
  BY Zenon
<1> USE DEF memory, daos, bounds, operator, outside
<1>t. /\ obj \in Objects /\ pool \in Pools /\ pq \in PoolQueries \cup {None}
      /\ jobs \in [Names -> Job(Nat, Outs)] /\ dc \in DaosContainers \cup {None}
      /\ targets \in Targets /\ mode \in Modes /\ made \in Nat
  BY TypeFacts, Zenon DEF TypeOK
<1>b. /\ edits \in 0..MaxChanges /\ outs \in 0..MaxChanges /\ flips \in 0..MaxChanges /\ gone \in 0..MaxChanges
      /\ setting.maxFaults \in Nat
      /\ faults \in 0..setting.maxFaults /\ errors \in 0..setting.maxFaults /\ lates \in 0..setting.maxFaults
  BY TypeFacts, Zenon
<1>1. CASE Operator \/ PassEnds
  BY <1>1, ReconcileType, Zenon
<1>2. CASE Edit
  <2>1. obj' \in Objects
    BY <1>2, <1>t, ObjectTypes, Zenon DEF Edit
  <2>2. edits' \in 0..MaxChanges
    BY <1>2, <1>b DEF Edit, MayChange
  <2> QED BY <1>2, <2>1, <2>2, Zenon DEF Edit, TypeOK
<1>3. ASSUME NEW b \in BOOLEAN, Delete(b) PROVE TypeOK'
  <2>1. obj' \in Objects
    BY <1>3, <1>t, ObjectTypes, BlankTypes, Zenon DEF Delete
  <2>2. asked' \in BOOLEAN
    BY <1>3, Zenon DEF Delete
  <2> QED BY <1>3, <2>1, <2>2, Zenon DEF Delete, TypeOK
<1>4. CASE HoldExpires
  BY <1>4, Zenon DEF HoldExpires, TypeOK
<1>5. CASE WaitExpires
  <2>1. lates' \in 0..setting.maxFaults
    BY <1>5, <1>b DEF WaitExpires, MayFail
  <2> QED BY <1>5, <2>1, Zenon DEF WaitExpires, TypeOK
<1>6. CASE PoolAppears
  <2>1. pool' \in Pools
    <3>1. \A p \in Pools : [p EXCEPT !.parent = IF @ = "none" THEN "empty" ELSE "ready"] \in Pools
      BY Zenon DEF Pools
    <3> QED BY <1>6, <1>t, <3>1, Zenon DEF PoolAppears
  <2>2. dpool' \in BOOLEAN /\ targets' \in Targets /\ wholeSince' \in BOOLEAN
    BY <1>6, TypeFacts, <1>t, Zenon DEF PoolAppears, Targets
  <2> QED BY <1>6, <2>1, <2>2, Zenon DEF PoolAppears, TypeOK
<1>7. CASE PoolGoes
  <2>1. jobs' \in [Names -> Job(Nat, Outs)]
    BY <1>7, <1>t, BlankTypes, Zenon DEF PoolGoes
  <2>2. dc' \in DaosContainers \cup {None} /\ dpool' \in BOOLEAN
    BY <1>7, <1>t, Zenon DEF PoolGoes
  <2>3. pool' \in Pools
    <3>1. setting.optin \in BOOLEAN
      BY DaosContainerAssumption, Zenon DEF TypeOK
    <3> QED BY <1>7, <3>1, Zenon DEF PoolGoes, NoPool, Pools
  <2>4. gone' \in 0..MaxChanges
    BY <1>7, <1>b DEF PoolGoes, MayChange
  <2> QED BY <1>7, <2>1, <2>2, <2>3, <2>4, Zenon DEF PoolGoes, TypeOK, Names
<1>8. CASE PoolQueryStarts
  <2>1. pq' \in PoolQueries
    BY <1>8, <1>t, Zenon DEF PoolQueryStarts, PoolQueries
  <2> QED BY <1>8, <2>1, Zenon DEF PoolQueryStarts, TypeOK
<1>9. CASE PoolQueryAnswers
  <2>1. pq' \in PoolQueries
    BY <1>9, <1>t, PoolTypes, Zenon DEF PoolQueryAnswers
  <2> QED BY <1>9, <2>1, Zenon DEF PoolQueryAnswers, TypeOK
<1>10. CASE PoolStored
  <2>1. pool' \in Pools
    BY <1>10, <1>t, PoolTypes, Zenon DEF PoolStored
  <2> QED BY <1>10, <2>1, Zenon DEF PoolStored, TypeOK
<1>11. CASE QueryStarts
  BY <1>11, MarkType, Zenon DEF QueryStarts, TypeOK
<1>12. CASE QueryFinishes
  <2>1. jobs' \in [Names -> Job(Nat, Outs)]
    <3>1. PICK kind, id : Ends("query", kind, id) /\ [kind |-> kind, id |-> id] \in Outs
      <4>1. dc # None => dc.id \in Nat
        BY <1>t, Zenon DEF DaosContainers
      <4> QED BY <1>12, <4>1, Zenon DEF QueryFinishes, Outs
    <3> QED BY <1>12, <3>1, EndsType, Zenon DEF QueryFinishes, Names
  <2>2. pool' \in Pools /\ psys' \in Pools /\ pq' \in PoolQueries \cup {None} /\ late' \in BOOLEAN
    BY <1>12, MarkType, Zenon DEF QueryFinishes, TypeOK
  <2>3. errors' \in 0..setting.maxFaults
    <3>1. errors' = errors \/ (MayFail /\ errors' = errors + 1)
      BY <1>12, Zenon DEF QueryFinishes, Trouble
    <3> QED BY <3>1, <1>b DEF MayFail
  <2>4. started' \in BOOLEAN /\ wholeSince' \in BOOLEAN
    BY <1>12, Zenon DEF QueryFinishes
  <2> QED BY <1>12, <2>1, <2>2, <2>3, <2>4, Zenon DEF QueryFinishes, TypeOK, Names
<1>13. CASE JobsRemoved
  <2>1. jobs' \in [Names -> Job(Nat, Outs)]
    BY <1>13, <1>t, BlankTypes, Zenon DEF JobsRemoved
  <2> QED BY <1>13, <2>1, Zenon DEF JobsRemoved, TypeOK, Names
<1>14. ASSUME NEW op \in Ops, OpFinishes(op) PROVE TypeOK'
  <2>1. jobs' \in [Names -> Job(Nat, Outs)]
    <3>1. PICK kind, id : Ends(op, kind, id) /\ [kind |-> kind, id |-> id] \in Outs
      <4>1. made + 1 \in Nat
        BY <1>t
      <4> QED BY <1>14, <4>1, Zenon DEF OpFinishes, Outs
    <3> QED BY <1>14, <3>1, EndsType, Zenon DEF OpFinishes, Names
  <2>2. dc' \in DaosContainers \cup {None}
    BY <1>14, <1>t, EffectType, Zenon DEF OpFinishes
  <2>3. errors' \in 0..setting.maxFaults
    <3>1. errors' = errors \/ (MayFail /\ errors' = errors + 1)
      BY <1>14, Zenon DEF OpFinishes, Trouble
    <3> QED BY <3>1, <1>b DEF MayFail
  <2>4. made' \in Nat
    <3>1. made' = made \/ made' = made + 1
      BY <1>14, Zenon DEF OpFinishes
    <3> QED BY <1>t, <3>1
  <2> QED BY <1>14, <2>1, <2>2, <2>3, <2>4, Zenon DEF OpFinishes, TypeOK, Names
<1>15. CASE RankOut
  <2>1. dc' \in DaosContainers
    BY <1>15, <1>t, ContainerTypes, Zenon DEF RankOut
  <2>2. outs' \in 0..MaxChanges
    BY <1>15, <1>b DEF RankOut, MayChange
  <2> QED BY <1>15, <2>1, <2>2, Zenon DEF RankOut, TypeOK, Targets
<1>16. CASE RankBack
  <2>1. dc' \in DaosContainers \cup {None}
    BY <1>16, <1>t, ContainerTypes, Zenon DEF RankBack
  <2> QED BY <1>16, <2>1, Zenon DEF RankBack, TypeOK, Targets
<1>17. CASE RebuildDone
  BY <1>17, Zenon DEF RebuildDone, TypeOK, Targets
<1>18. CASE Outsider
  <2>1. outs' \in 0..MaxChanges
    BY <1>18, <1>b DEF Outsider, MayChange
  <2> QED BY <1>18, <2>1, Zenon DEF Outsider, TypeOK
<1>19. CASE ModeSet
  <2>1. flips' \in 0..MaxChanges
    BY <1>19, <1>b DEF ModeSet, MayChange
  <2> QED BY <1>19, <2>1, Zenon DEF ModeSet, TypeOK
<1>20. CASE UNCHANGED vars
  BY <1>20, Zenon DEF vars, TypeOK
<1> QED
  BY <1>1, <1>2, <1>3, <1>4, <1>5, <1>6, <1>7, <1>8, <1>9, <1>10, <1>11, <1>12, <1>13, <1>14,
     <1>15, <1>16, <1>17, <1>18, <1>19, <1>20, Zenon
     DEF Next, Human, PoolController, Cluster, Daos

\* The initial states are well typed.
LEMMA InitType == Init => TypeOK
<1> SUFFICES ASSUME Init PROVE TypeOK
  BY Zenon
<1>1. setting \in Settings /\ setting.optin \in BOOLEAN /\ setting.mode \in Modes /\ setting.maxFaults \in Nat
  BY Zenon DEF Init
<1>2. obj \in Objects /\ pool \in Pools
  BY <1>1, Zenon DEF Init, NoObj, NoPool, Objects, Pools
<1>3. jobs \in [Ops \cup {"query"} -> Job(Nat, Outs)]
  BY BlankTypes, Zenon DEF Init
<1>4. {hold, pending, late, started, dpool, wholeSince, asked} \subseteq BOOLEAN
  BY Zenon DEF Init
<1>5. {edits, outs, flips, gone} \subseteq 0..MaxChanges /\ {faults, errors, lates} \subseteq 0..setting.maxFaults
  BY <1>1 DEF Init
<1> QED BY <1>1, <1>2, <1>3, <1>4, <1>5, BlankTypes, Zenon DEF Init, TypeOK, Targets

\* Every state that passes, humans, the pool's controller, Jobs, ranks and faults
\* can reach is well typed.
THEOREM Typing == Spec => []TypeOK
  BY InitType, TypeStep, PTL DEF Spec

-----------------------------------------------------------------------------
(* What a pass does to the Jobs and to what it remembers. *)

HealWanted == st.op = "heal" \/ wst.op = "heal"

HealDecided == (Waiting \/ Answered("rf")) /\ PoolIsWhole /\ Fresh

QueryQuiet == jobs["query"].phase \in {"absent", "deleting"}

AfterPhase(phase) ==
    IF phase = "absent" THEN "running" ELSE IF phase = "finished" THEN "deleting" ELSE phase

\* The phase of a Job after Run.
LEMMA AfterPhases == \A j, c : AfterRun(j, c).phase = AfterPhase(j.phase)
  BY Zenon DEF AfterRun, AfterPhase, Running, Deleting, Done

\* A pass runs the heal Job only when the status says so or it has just decided to,
\* and the query only to probe; it decides only then, and waits only for an answer
\* it has collected.
PassSummary ==
    /\ UNCHANGED <<pool, pq, dc, mode, targets, wholeSince, flips, setting, late>>
    /\ psys' = psys \/ psys' = pool \/ psys' = NoPool
    /\ jobs'["heal"].phase = jobs["heal"].phase
         \/ ((wst.op = "heal" \/ HealDecided) /\ jobs'["heal"].phase = AfterPhase(jobs["heal"].phase))
    /\ jobs'["query"].phase = jobs["query"].phase
         \/ (Probe /\ ~hold /\ jobs'["query"].phase = AfterPhase(jobs["query"].phase))
    /\ st' = st \/ st' = wst
    /\ wst'.op = "heal" => HealWanted \/ (HealDecided /\ (pending \/ QueryQuiet'))
    /\ pending' => pending \/ (Answered("rf") /\ QueryQuiet')
    /\ pc' = "go" => wst' = st'

\* PassSummary for a pass that collects the query.
LEMMA CollectSummary ==
    ASSUME TypeOK, Probe, ~hold, NEW s \in Statuses, s.op = wst.op,
           NEW op \in {"create", "acl", None}, Collect(s, op)
    PROVE  PassSummary
<1>1. wst'.op # "heal" /\ pc' = "update" /\ psys' = psys
  BY NoneIsNoName, Zenon DEF Collect, Store, Probe, Statuses, Ops
<1>2. jobs'["heal"] = jobs["heal"] /\ jobs'["query"] = AfterRun(jobs["query"], sys.acl)
  BY NoneIsNoName, Zenon DEF Collect, RunJobs, TypeOK, Ops
<1> QED BY <1>1, <1>2, AfterPhases, Zenon DEF PassSummary, Collect, outside, daos, bounds

\* PassSummary holds of every step of a pass, also of one that is cut short.
LEMMA PassSummarised == TypeOK /\ (Operator \/ PassEnds) => PassSummary
<1> SUFFICES ASSUME TypeOK, Operator \/ PassEnds PROVE PassSummary
  BY Zenon
<1> USE DEF outside, daos, bounds
<1>t. /\ jobs \in [Names -> Job(Nat, Outs)] /\ wst \in Statuses /\ st \in Statuses
      /\ {"heal", "query", "destroy"} \subseteq Names /\ Ops \subseteq Names
      /\ wst.op \in Ops \cup {None} /\ "query" \notin Ops
  BY TypeFacts, Zenon DEF Names, Ops, Statuses
<1>n. NoStatus.op # "heal" /\ None # "heal"
  BY NoneIsNoName, Zenon DEF NoStatus, Ops
<1>1. CASE BeginPass
  BY <1>1, Zenon DEF BeginPass, PassSummary, HealWanted
<1>2. CASE NoParent \/ AddFinalizer \/ PoolNotReady \/ Held \/ Released \/ DestroyHeld
  <2>1. /\ UNCHANGED <<pool, pq, dc, mode, targets, wholeSince, flips, setting, late, jobs, st>>
        /\ psys' = psys \/ psys' = NoPool
        /\ pc' # "go" /\ (pending' => pending)
    BY <1>2 DEF NoParent, AddFinalizer, PoolNotReady, Held, Released, DestroyHeld, RemoveFinalizer, Return, Store
  <2>2. wst' = NoStatus \/ wst' = [wst EXCEPT !.reason = "other"]
    BY <1>2, Zenon DEF NoParent, AddFinalizer, PoolNotReady, Held, Released, DestroyHeld, RemoveFinalizer, Return, Store
  <2>3. wst'.op = "heal" => wst.op = "heal"
    BY <2>2, <1>t, <1>n, Zenon DEF Statuses
  <2> QED BY <2>1, <2>3, Zenon DEF PassSummary, HealWanted
<1>3. CASE Poll
  <2>1. wst.op \in Ops /\ jobs' = [jobs EXCEPT ![wst.op] = AfterRun(@, sys.acl)]
    BY <1>3, <1>t, Zenon DEF Poll, RunJob
  <2>2. jobs'["query"] = jobs["query"]
    BY <1>t, <2>1, Zenon
  <2>3. jobs'["heal"].phase = jobs["heal"].phase
          \/ (wst.op = "heal" /\ jobs'["heal"].phase = AfterPhase(jobs["heal"].phase))
    BY <1>t, <2>1, AfterPhases, Zenon
  <2> QED BY <1>3, <1>n, <2>2, <2>3, Zenon DEF Poll, Return, PassSummary
<1>4. CASE PollDone
  <2>1. wst.op \in Ops /\ jobs' = [jobs EXCEPT ![wst.op] = AfterRun(@, sys.acl)]
    BY <1>4, <1>t, Zenon DEF PollDone, RunJob
  <2>2. jobs'["query"] = jobs["query"]
    BY <1>t, <2>1, Zenon
  <2>3. jobs'["heal"].phase = jobs["heal"].phase
          \/ (wst.op = "heal" /\ jobs'["heal"].phase = AfterPhase(jobs["heal"].phase))
    BY <1>t, <2>1, AfterPhases, Zenon
  <2>4. wst'.op = None /\ pc' = "update" /\ psys' = psys
    BY <1>4, <1>t, Zenon DEF PollDone, Store, Applied, Statuses
  <2> QED BY <1>4, <1>n, <2>2, <2>3, <2>4, Zenon DEF PollDone, PassSummary
<1>5. CASE Probing
  <2>1. jobs'["heal"] = jobs["heal"] /\ jobs'["query"] = AfterRun(jobs["query"], sys.acl)
    BY <1>5, <1>t, Zenon DEF Probing, RunJob
  <2> QED BY <1>5, <1>n, <2>1, AfterPhases, Zenon DEF Probing, Store, PassSummary, HealWanted
<1>6. CASE QueryFails \/ Missing
  <2>1. Probe /\ ~hold
    BY <1>6, Zenon DEF QueryFails, Missing, Answered
  <2>2. [wst EXCEPT !.reason = "other"] \in Statuses /\ [wst EXCEPT !.reason = "other"].op = wst.op
    BY <1>t, Zenon DEF Statuses
  <2> QED BY <1>6, <1>t, <2>1, <2>2, CollectSummary, Zenon DEF QueryFails, Missing
<1>7. CASE Found
  <2>1. Probe /\ ~hold
    BY <1>7, Zenon DEF Found, Answered
  <2>2. jobs["query"].out \in Outs
    BY <1>7, JobsType, Zenon DEF Found, Answered, Names
  <2>3. jobs["query"].out.id \in Nat
    BY <2>2 DEF Outs
  <2> DEFINE s == [wst EXCEPT !.uuid = jobs["query"].out.id]
  <2>4. s \in Statuses /\ s.op = wst.op
    BY <1>t, <2>3, Zenon DEF Statuses
  <2>5. [s EXCEPT !.reason = "other"] \in Statuses /\ [s EXCEPT !.reason = "other"].op = wst.op
    BY <1>t, <2>4, Zenon DEF Statuses
  <2>6. Collect(s, "acl") \/ Collect([s EXCEPT !.reason = "other"], None)
    BY <1>7, Zenon DEF Found
  <2> HIDE DEF s
  <2> QED BY <2>1, <2>4, <2>5, <2>6, CollectSummary, Zenon
<1>8. CASE RfExceeded
  <2> DEFINE heal == PoolIsWhole /\ Fresh
             query == IF Waiting THEN {} ELSE {"query"}
  <2>1. jobs' = RunJobs(IF heal THEN query \cup {"heal"} ELSE query)
    BY <1>8, Zenon DEF RfExceeded
  <2>2. jobs'["heal"] = IF heal THEN AfterRun(jobs["heal"], sys.acl) ELSE jobs["heal"]
    BY <1>t, <2>1, Zenon DEF RunJobs
  <2>3. jobs'["query"] = IF Waiting THEN jobs["query"] ELSE AfterRun(jobs["query"], sys.acl)
    BY <1>t, <2>1, Zenon DEF RunJobs
  <2>4. Waiting \/ Answered("rf")
    BY <1>8, Zenon DEF RfExceeded
  <2>5. Waiting => pending
    BY Zenon DEF Waiting
  <2>6. Answered("rf") => Probe /\ ~hold /\ ~Waiting /\ QueryQuiet'
    BY <2>3 DEF Answered, Probe, QueryQuiet, AfterRun, Deleting, Done
  <2>7. wst'.op = "heal" => heal
    BY <1>8, <1>n, <1>t, Zenon DEF RfExceeded, Store, Statuses
  <2>8. psys' = psys /\ pc' = "update" /\ UNCHANGED <<st, outside>>
    BY <1>8, Zenon DEF RfExceeded, Store
  <2>9. jobs'["heal"].phase = jobs["heal"].phase
          \/ (HealDecided /\ jobs'["heal"].phase = AfterPhase(jobs["heal"].phase))
    BY <2>2, <2>4, AfterPhases, Zenon DEF HealDecided
  <2>10. jobs'["query"].phase = jobs["query"].phase
          \/ (Probe /\ ~hold /\ jobs'["query"].phase = AfterPhase(jobs["query"].phase))
    BY <2>3, <2>4, <2>6, AfterPhases, Zenon
  <2>11. wst'.op = "heal" => HealDecided /\ (pending \/ QueryQuiet')
    BY <2>4, <2>5, <2>6, <2>7, Zenon DEF HealDecided
  <2>12. pending' => pending \/ (Answered("rf") /\ QueryQuiet')
    BY <2>4, <2>5, <2>6, Zenon
  <2> QED BY <2>8, <2>9, <2>10, <2>11, <2>12, Zenon DEF PassSummary
<1>9. CASE DestroyWait \/ DestroyDone
  <2>1. jobs' = [jobs EXCEPT !["destroy"] = AfterRun(@, sys.acl)]
    BY <1>9, Zenon DEF DestroyWait, DestroyDone, RunJob
  <2>2. jobs'["query"] = jobs["query"] /\ jobs'["heal"] = jobs["heal"]
    BY <1>t, <2>1, Zenon
  <2>3. wst'.op # "heal" /\ pc' # "go" /\ (psys' = psys \/ psys' = NoPool)
    BY <1>9, <1>n, <1>t, Zenon DEF DestroyWait, DestroyDone, Return, Store, Statuses
  <2> QED BY <1>9, <2>2, <2>3, Zenon DEF DestroyWait, DestroyDone, PassSummary
<1>10. CASE UpdateStatus \/ PassEnds
  BY <1>10, <1>n DEF UpdateStatus, PassEnds, Return, PassSummary
<1> QED
  BY <1>1, <1>2, <1>3, <1>4, <1>5, <1>6, <1>7, <1>8, <1>9, <1>10, Zenon DEF Operator, Reconcile

-----------------------------------------------------------------------------
(***************************************************************************)
(* The operator clears only what is intact.  While nobody changes the      *)
(* reintegration mode, every mode on its way to a pass is the mode; data   *)
(* is lost in data_sync only; and a heal is wanted, recorded or running in *)
(* incremental only.                                                       *)
(***************************************************************************)
ModesAgree ==
    /\ pool.mode \in {None, mode} /\ psys.mode \in {None, mode}
    /\ pq # None => pq.mode \in {None, mode}

HealsIncremental ==
    /\ dc # None /\ dc.lost => mode = "data_sync"
    /\ HealWanted \/ jobs["heal"].phase = "running" => mode = "incremental"

IntactInv == TypeOK /\ (flips = 0 => ModesAgree /\ HealsIncremental)

\* IntactInv is kept by a step that does not touch the mode, brings no other mode
\* on its way, loses data in data_sync only, and wants or runs a heal only when
\* one was wanted or the pool's status says incremental.
LEMMA IntactKept ==
    ASSUME IntactInv, TypeOK', UNCHANGED <<mode, flips>>,
           pool'.mode \in {pool.mode, None} \/ (pq # None /\ pool'.mode = pq.mode),
           psys'.mode \in {psys.mode, pool.mode, None},
           pq' # None => pq'.mode \in {None, mode} \/ (pq # None /\ pq'.mode = pq.mode),
           dc' # None /\ dc'.lost => (dc # None /\ dc.lost) \/ mode = "data_sync",
           HealWanted' => HealWanted \/ psys.mode = "incremental",
           jobs'["heal"].phase = "running" =>
               jobs["heal"].phase = "running" \/ HealWanted \/ psys.mode = "incremental"
    PROVE  IntactInv'
<1> SUFFICES ASSUME flips = 0 PROVE ModesAgree' /\ HealsIncremental'
  BY Zenon DEF IntactInv
<1>1. ModesAgree /\ HealsIncremental
  BY Zenon DEF IntactInv
<1>2. psys.mode = "incremental" => mode = "incremental"
  BY <1>1, NoneIsNoName, Zenon DEF ModesAgree, Modes
<1>3. ModesAgree'
  BY <1>1, Zenon DEF ModesAgree
<1>4. HealsIncremental'
  BY <1>1, <1>2, Zenon DEF HealsIncremental
<1> QED BY <1>3, <1>4, Zenon

\* Marking changes no mode.
LEMMA MarkKeepsModes ==
    ASSUME TypeOK, Mark
    PROVE  /\ pool'.mode = pool.mode /\ psys'.mode = psys.mode
           /\ pq' # None => pq # None /\ pq'.mode = pq.mode
<1>1. pool'.mode = pool.mode /\ psys'.mode = psys.mode
  BY Zenon DEF TypeOK, Mark, Pools
<1>2. pq' # None => pq # None /\ pq'.mode = pq.mode
  BY Zenon DEF TypeOK, Mark, PoolQueries
<1> QED BY <1>1, <1>2, Zenon

\* IntactInv is kept by every step.
LEMMA IntactStep == IntactInv /\ [Next]_vars => IntactInv'
<1> SUFFICES ASSUME IntactInv, [Next]_vars PROVE IntactInv'
  BY Zenon
<1> USE DEF memory, daos, bounds, operator, outside, HealWanted
<1>t. TypeOK /\ TypeOK'
  BY TypeStep, Zenon DEF IntactInv
<1>j. /\ jobs \in [Names -> Job(Nat, Outs)] /\ "heal" \in Names /\ "query" \in Names /\ "query" # "heal"
      /\ pool \in Pools /\ psys \in Pools
      /\ dc # None => dc \in DaosContainers
      /\ pq # None => pq \in PoolQueries
  BY <1>t, TypeFacts, Zenon DEF Names, Ops, TypeOK
<1>1. CASE Operator \/ PassEnds
  <2>1. PassSummary
    BY <1>1, <1>t, PassSummarised, Zenon
  <2>2. NoPool.mode = None
    BY Zenon DEF NoPool
  <2>3. HealDecided => psys.mode = "incremental"
    BY Zenon DEF HealDecided, PoolIsWhole
  <2>4. HealWanted' => HealWanted \/ psys.mode = "incremental"
    BY <2>1, <2>3, Zenon DEF PassSummary
  <2>5. jobs'["heal"].phase = "running" =>
               jobs["heal"].phase = "running" \/ HealWanted \/ psys.mode = "incremental"
    BY <2>1, <2>3, Zenon DEF PassSummary
  <2> QED BY <1>t, <2>1, <2>2, <2>4, <2>5, IntactKept, Zenon DEF PassSummary
<1>2. CASE Edit \/ HoldExpires \/ WaitExpires
  BY <1>2, <1>t, IntactKept, Zenon DEF Edit, HoldExpires, WaitExpires
<1>3. ASSUME NEW b \in BOOLEAN, Delete(b) PROVE IntactInv'
  BY <1>3, <1>t, IntactKept, Zenon DEF Delete
<1>4. CASE PoolAppears
  <2>1. pool'.mode = pool.mode
    BY <1>4, <1>j, Zenon DEF PoolAppears, Pools
  <2> QED BY <1>4, <1>t, <2>1, IntactKept, Zenon DEF PoolAppears
<1>5. CASE PoolGoes
  <2>1. pool'.mode = None /\ jobs'["heal"].phase = "absent"
    BY <1>5, <1>j, Zenon DEF PoolGoes, NoPool, NoJob
  <2> QED BY <1>5, <1>t, <2>1, IntactKept, Zenon DEF PoolGoes
<1>6. CASE PoolQueryStarts \/ PoolQueryAnswers
  <2>1. pq' # None => pq'.mode \in {None, mode}
    <3>1. CASE PoolQueryStarts
      BY <3>1, Zenon DEF PoolQueryStarts
    <3>2. CASE PoolQueryAnswers
      BY <3>2, <1>j, Zenon DEF PoolQueryAnswers, PoolQueries
    <3> QED BY <1>6, <3>1, <3>2, Zenon
  <2> QED BY <1>6, <1>t, <2>1, IntactKept, Zenon DEF PoolQueryStarts, PoolQueryAnswers
<1>7. CASE PoolStored
  <2>1. pool'.mode = pq.mode
    BY <1>7, <1>j, Zenon DEF PoolStored, Pools
  <2> QED BY <1>7, <1>t, <2>1, IntactKept, Zenon DEF PoolStored
<1>8. CASE QueryStarts
  BY <1>8, <1>t, MarkKeepsModes, IntactKept, Zenon DEF QueryStarts
<1>9. CASE QueryFinishes
  <2>1. PICK kind, id : Ends("query", kind, id)
    BY <1>9, Zenon DEF QueryFinishes
  <2>2. jobs'["heal"] = jobs["heal"]
    BY <1>j, <2>1, Zenon DEF Ends
  <2>3. /\ pool'.mode = pool.mode /\ psys'.mode = psys.mode
        /\ pq' # None => pq # None /\ pq'.mode = pq.mode
    BY <1>9, <1>t, MarkKeepsModes, Zenon DEF QueryFinishes
  <2> QED BY <1>9, <1>t, <2>2, <2>3, IntactKept, Zenon DEF QueryFinishes
<1>10. CASE JobsRemoved
  <2>1. jobs'["heal"].phase = "running" => jobs["heal"].phase = "running"
    BY <1>10, <1>j, Zenon DEF JobsRemoved, NoJob
  <2> QED BY <1>10, <1>t, <2>1, IntactKept, Zenon DEF JobsRemoved
<1>11. ASSUME NEW op \in Ops, OpFinishes(op) PROVE IntactInv'
  <2>1. PICK kind, id : Ends(op, kind, id)
    BY <1>11, Zenon DEF OpFinishes
  <2>2. jobs'["heal"].phase = "running" => jobs["heal"].phase = "running"
    BY <1>j, <2>1 DEF Ends, Finished, Names
  <2>3. Works(op) => LET d == Effect(op, jobs[op].cmd) IN d # None /\ d.lost => dc # None /\ dc.lost
    <3>1. CASE op = "create"
      BY <3>1, Zenon DEF Effect
    <3>2. CASE op = "acl"
      BY <3>2, <1>j, Zenon DEF Effect, Works, DaosContainers
    <3>3. CASE op = "heal"
      BY <3>3, <1>j, Zenon DEF Effect, Works, DaosContainers
    <3>4. CASE op = "destroy"
      BY <3>4, Zenon DEF Effect
    <3> QED BY <3>1, <3>2, <3>3, <3>4, Zenon DEF Ops
  <2>4. dc' = dc \/ (Works(op) /\ dc' = Effect(op, jobs[op].cmd))
    BY <1>11, Zenon DEF OpFinishes
  <2> QED BY <1>11, <1>t, <2>2, <2>3, <2>4, IntactKept, Zenon DEF OpFinishes
<1>12. CASE RankOut
  <2>1. dc # None /\ dc'.lost = dc.lost
    BY <1>12, <1>j, Zenon DEF RankOut, DaosContainers
  <2> QED BY <1>12, <1>t, <2>1, IntactKept, Zenon DEF RankOut
<1>13. CASE RankBack
  <2>1. dc' = dc \/ mode = "data_sync"
    BY <1>13, Zenon DEF RankBack
  <2> QED BY <1>13, <1>t, <2>1, IntactKept, Zenon DEF RankBack
<1>14. CASE RebuildDone \/ Outsider
  BY <1>14, <1>t, IntactKept, Zenon DEF RebuildDone, Outsider
<1>15. CASE ModeSet
  <2>1. flips' # 0
    BY <1>15, <1>t, TypeFacts DEF ModeSet
  <2> QED BY <1>t, <2>1, Zenon DEF IntactInv
<1>16. CASE UNCHANGED vars
  BY <1>16, <1>t, IntactKept, Zenon DEF vars
<1> QED
  BY <1>1, <1>2, <1>3, <1>4, <1>5, <1>6, <1>7, <1>8, <1>9, <1>10, <1>11, <1>12, <1>13, <1>14,
     <1>15, <1>16, Zenon DEF Next, Human, PoolController, Cluster, Daos

\* However ranks leave and return, Jobs fail and passes are cut short, the operator
\* sets no container healthy of which data was dropped, unless somebody changed the
\* reintegration mode.
THEOREM HealsOnlyTheIntact == Spec => []HealedIsIntact
<1>1. Init => IntactInv
  <2> SUFFICES ASSUME Init PROVE IntactInv
    BY Zenon
  <2>1. pool.mode = None /\ psys.mode = None /\ pq = None /\ dc = None
    BY Zenon DEF Init, NoPool
  <2>2. ~HealWanted /\ jobs["heal"].phase = "absent"
    BY NoneIsNoName, Zenon DEF Init, HealWanted, NoStatus, NoJob, Ops
  <2> QED BY <2>1, <2>2, InitType, Zenon DEF IntactInv, ModesAgree, HealsIncremental
<1>2. IntactInv => HealedIsIntact
  BY Zenon DEF IntactInv, HealsIncremental, HealedIsIntact
<1> QED BY <1>1, <1>2, IntactStep, PTL DEF Spec

-----------------------------------------------------------------------------
(***************************************************************************)
(* The operator clears after a refusal was answered by a whole pool.  When *)
(* a query answers, whatever was seen of the pool counts as older; so a    *)
(* newer sighting of a whole pool was made since, as long as the answer is *)
(* not collected or waits.  Then a heal is wanted, and no query runs until *)
(* it is over.                                                             *)
(***************************************************************************)
SeenWhole(p) == p.newer /\ p.targets = "whole" => wholeSince

Sightings ==
    /\ targets = "whole" => wholeSince
    /\ SeenWhole(pool) /\ SeenWhole(psys) /\ (pq # None => SeenWhole(pq))

RefusalInv ==
    /\ TypeOK
    /\ ~setting.slow =>
         /\ Done(jobs["query"]) \/ pending => Sightings
         /\ pending \/ HealWanted => QueryQuiet
         /\ HealWanted => wholeSince
    /\ pc = "go" => wst = st

SawWhole(p) == p # None /\ p.newer /\ p.targets = "whole"

\* RefusalInv is kept by a step outside the passes that starts no query, collects
\* no answer and decides nothing, and shows a whole pool only where it was seen or
\* is.
LEMMA RefusalKept ==
    ASSUME RefusalInv, TypeOK', UNCHANGED <<setting, pending, st, wst, pc>>,
           wholeSince => wholeSince',
           jobs'["query"].phase = jobs["query"].phase \/ QueryQuiet',
           targets' = "whole" => targets = "whole" \/ wholeSince',
           pool'.newer /\ pool'.targets = "whole" =>
               (pool.newer /\ pool.targets = "whole") \/ SawWhole(pq),
           psys' = psys,
           SawWhole(pq') => SawWhole(pq) \/ targets = "whole"
    PROVE  RefusalInv'
<1>1. pc' = "go" => wst' = st'
  BY Zenon DEF RefusalInv
<1> SUFFICES ASSUME ~setting.slow
             PROVE  /\ Done(jobs'["query"]) \/ pending => Sightings'
                    /\ pending \/ HealWanted => QueryQuiet'
                    /\ HealWanted => wholeSince'
  BY <1>1, Zenon DEF RefusalInv, HealWanted
<1>2. Done(jobs'["query"]) => Done(jobs["query"])
  BY Zenon DEF Done, QueryQuiet
<1>3. Done(jobs["query"]) \/ pending => Sightings
  BY Zenon DEF RefusalInv
<1>4. Sightings => Sightings'
  BY Zenon DEF Sightings, SeenWhole, SawWhole
<1>5. (pending \/ HealWanted => QueryQuiet') /\ (HealWanted => wholeSince')
  BY Zenon DEF RefusalInv, QueryQuiet
<1> QED BY <1>2, <1>3, <1>4, <1>5, Zenon

\* RefusalInv is kept by the steps of a pass.
LEMMA RefusalPass ==
    ASSUME RefusalInv, TypeOK', Operator \/ PassEnds PROVE RefusalInv'
<1>1. PassSummary
  BY PassSummarised, Zenon DEF RefusalInv
<1>2. pc' = "go" => wst' = st'
  BY <1>1, Zenon DEF PassSummary
<1> SUFFICES ASSUME ~setting.slow
             PROVE  /\ Done(jobs'["query"]) \/ pending' => Sightings'
                    /\ pending' \/ HealWanted' => QueryQuiet'
                    /\ HealWanted' => wholeSince'
  BY <1>1, <1>2, Zenon DEF RefusalInv, PassSummary
<1>3. /\ Done(jobs["query"]) \/ pending => Sightings
      /\ pending \/ HealWanted => QueryQuiet
      /\ HealWanted => wholeSince
      /\ wholeSince' = wholeSince
  BY <1>1, Zenon DEF RefusalInv, PassSummary
<1>4. Done(jobs'["query"]) => Done(jobs["query"])
  BY <1>1, Zenon DEF PassSummary, Done, AfterPhase
<1>5. Sightings => Sightings'
  BY <1>1 DEF PassSummary, Sightings, SeenWhole, NoPool
<1>6. Done(jobs'["query"]) \/ pending' => Sightings'
  BY <1>1, <1>3, <1>4, <1>5, Zenon DEF PassSummary, Answered
<1>7. HealDecided => wholeSince
  BY <1>3, Zenon DEF HealDecided, Waiting, Answered, PoolIsWhole, Fresh, Sightings, SeenWhole
<1>8. HealWanted' => wholeSince'
  BY <1>1, <1>3, <1>7 DEF PassSummary, HealWanted
<1>9. Probe => ~pending /\ st.op # "heal" /\ wst.op # "heal"
  BY NoneIsNoName, Zenon DEF Probe, Waiting, Live, RefusalInv, Ops
<1>10. pending' => QueryQuiet'
  BY <1>1, <1>3, <1>9, Zenon DEF PassSummary, QueryQuiet
<1>11. HealWanted' => QueryQuiet'
  <2> SUFFICES ASSUME HealWanted' PROVE QueryQuiet'
    BY Zenon
  <2>1. HealWanted \/ pending \/ QueryQuiet'
    BY <1>1, Zenon DEF PassSummary, HealWanted
  <2>2. CASE HealWanted \/ pending
    BY <1>1, <1>3, <1>9, <2>2, Zenon DEF PassSummary, QueryQuiet, HealWanted
  <2> QED BY <2>1, <2>2, Zenon
<1> QED BY <1>6, <1>8, <1>10, <1>11, Zenon

\* RefusalInv is kept by every step.
LEMMA RefusalStep == RefusalInv /\ [Next]_vars => RefusalInv'
<1> SUFFICES ASSUME RefusalInv, [Next]_vars PROVE RefusalInv'
  BY Zenon
<1> USE DEF memory, daos, bounds, operator, outside, SawWhole
<1>t. TypeOK /\ TypeOK'
  BY TypeStep, Zenon DEF RefusalInv
<1>j. /\ jobs \in [Names -> Job(Nat, Outs)] /\ "query" \in Names /\ "query" \notin Ops
      /\ pool \in Pools /\ psys \in Pools
      /\ pq # None => pq \in PoolQueries
  BY <1>t, TypeFacts, Zenon DEF Names, Ops, TypeOK
<1>1. CASE Operator \/ PassEnds
  BY <1>1, <1>t, RefusalPass, Zenon
<1>2. CASE Edit \/ WaitExpires
  BY <1>2, <1>t, RefusalKept DEF Edit, WaitExpires
<1>h. CASE HoldExpires
  BY <1>h, <1>t, RefusalKept, Zenon DEF HoldExpires
<1>3. ASSUME NEW b \in BOOLEAN, Delete(b) PROVE RefusalInv'
  BY <1>3, <1>t, RefusalKept, Zenon DEF Delete
<1>4. CASE PoolAppears
  <2>1. pool'.newer = pool.newer /\ pool'.targets = pool.targets
    BY <1>4, <1>j, Zenon DEF PoolAppears, Pools
  <2> QED BY <1>4, <1>t, <2>1, RefusalKept, Zenon DEF PoolAppears
<1>5. CASE PoolGoes
  <2>1. ~pool'.newer /\ jobs'["query"].phase = "absent"
    BY <1>5, <1>j, Zenon DEF PoolGoes, NoPool, NoJob
  <2> QED BY <1>5, <1>t, <2>1, RefusalKept, Zenon DEF PoolGoes, QueryQuiet
<1>6. CASE PoolQueryStarts
  <2>1. SawWhole(pq') => SawWhole(pq) \/ targets = "whole" \/ setting.slow
    BY <1>6, Zenon DEF PoolQueryStarts
  <2>2. CASE setting.slow
    BY <1>6, <1>t, <2>2, Zenon DEF PoolQueryStarts, RefusalInv
  <2> QED BY <1>6, <1>t, <2>1, <2>2, RefusalKept, Zenon DEF PoolQueryStarts
<1>7. CASE PoolQueryAnswers
  <2>1. pq'.newer = pq.newer /\ pq'.targets = targets
    BY <1>7, <1>j, Zenon DEF PoolQueryAnswers, PoolQueries
  <2> QED BY <1>7, <1>t, <2>1, RefusalKept, Zenon DEF PoolQueryAnswers
<1>8. CASE PoolStored
  <2>1. pool'.newer = pq.newer /\ pool'.targets = pq.targets
    BY <1>8, <1>j, Zenon DEF PoolStored, Pools
  <2> QED BY <1>8, <1>t, <2>1, RefusalKept, Zenon DEF PoolStored
<1>9. CASE QueryStarts
  BY <1>9, <1>t, Zenon DEF QueryStarts, RefusalInv
<1>10. CASE QueryFinishes
  <2>1. pc' = "go" => wst' = st'
    BY <1>10, Zenon DEF QueryFinishes, RefusalInv
  <2>2. CASE setting.slow
    BY <1>10, <1>t, <2>1, <2>2, Zenon DEF QueryFinishes, RefusalInv
  <2>3. CASE ~setting.slow
    <3>1. ~QueryQuiet
      BY <1>10, Zenon DEF QueryFinishes, QueryQuiet
    <3>2. ~pending' /\ ~HealWanted' /\ UNCHANGED <<setting, targets>> /\ wholeSince' = (targets = "whole")
      BY <1>10, <2>3, <3>1, Zenon DEF QueryFinishes, RefusalInv, HealWanted
    <3>3. Mark
      BY <1>10, <2>3, Zenon DEF QueryFinishes
    <3>4. ~pool'.newer /\ ~psys'.newer
      BY <1>j, <3>3, Zenon DEF Mark, Pools
    <3>5. pq' # None => ~pq'.newer
      BY <1>j, <3>3, Zenon DEF Mark, PoolQueries
    <3>6. Sightings'
      BY <3>2, <3>4, <3>5, Zenon DEF Sightings, SeenWhole
    <3> QED BY <1>t, <2>1, <3>2, <3>6, Zenon DEF RefusalInv
  <2> QED BY <2>2, <2>3, Zenon
<1>11. CASE JobsRemoved
  <2>1. jobs'["query"].phase = jobs["query"].phase \/ QueryQuiet'
    BY <1>11, <1>j, Zenon DEF JobsRemoved, NoJob, QueryQuiet
  <2> QED BY <1>11, <1>t, <2>1, RefusalKept, Zenon DEF JobsRemoved
<1>12. ASSUME NEW op \in Ops, OpFinishes(op) PROVE RefusalInv'
  <2>1. PICK kind, id : Ends(op, kind, id)
    BY <1>12, Zenon DEF OpFinishes
  <2>2. jobs'["query"] = jobs["query"]
    BY <1>j, <2>1, Zenon DEF Ends
  <2> QED BY <1>12, <1>t, <2>2, RefusalKept, Zenon DEF OpFinishes
<1>13. CASE RankOut \/ RankBack \/ RebuildDone \/ Outsider \/ ModeSet
  BY <1>13, <1>t, RefusalKept DEF RankOut, RankBack, RebuildDone, Outsider, ModeSet
<1>14. CASE UNCHANGED vars
  BY <1>14, <1>t, RefusalKept, Zenon DEF vars
<1> QED
  BY <1>1, <1>2, <1>h, <1>3, <1>4, <1>5, <1>6, <1>7, <1>8, <1>9, <1>10, <1>11, <1>12, <1>13, <1>14, Zenon
     DEF Next, Human, PoolController, Cluster, Daos

\* Only a pass creates the heal Job.
LEMMA OnlyPassesHeal ==
    ASSUME TypeOK, Next, jobs["heal"].phase = "absent", jobs'["heal"].phase = "running"
    PROVE  Operator
<1> USE DEF memory, daos, bounds, operator, outside
<1>j. jobs \in [Names -> Job(Nat, Outs)] /\ "heal" \in Names /\ "heal" # "query"
  BY TypeFacts, Zenon DEF Names, Ops
<1>1. ~PassEnds /\ ~Human /\ ~HoldExpires /\ ~WaitExpires
  BY Zenon DEF PassEnds, Human, Edit, Delete, HoldExpires, WaitExpires
<1>2. ~PoolAppears /\ ~PoolController /\ ~Daos
  BY Zenon DEF PoolAppears, PoolController, PoolQueryStarts, PoolQueryAnswers, PoolStored,
         Daos, Outsider, RankOut, RankBack, RebuildDone, ModeSet
<1>3. ~PoolGoes /\ ~JobsRemoved
  BY <1>j DEF PoolGoes, JobsRemoved, NoJob
<1>4. ~QueryStarts
  BY Zenon DEF QueryStarts
<1>5. ~QueryFinishes
  <2> SUFFICES ASSUME QueryFinishes PROVE FALSE
    BY Zenon
  <2>1. PICK kind, id : Ends("query", kind, id)
    BY Zenon DEF QueryFinishes
  <2> QED BY <1>j, <2>1, Zenon DEF Ends
<1>6. ASSUME NEW op \in Ops, OpFinishes(op) PROVE FALSE
  <2>1. PICK kind, id : Ends(op, kind, id)
    BY <1>6, Zenon DEF OpFinishes
  <2> QED BY <1>6, <1>j, <2>1, Zenon DEF OpFinishes, Ends
<1> QED BY <1>1, <1>2, <1>3, <1>4, <1>5, <1>6, Zenon DEF Next, Cluster

\* The operator starts to clear a container only when the pool has been whole since
\* DAOS refused it, as long as queries answer as soon as their pod starts.
THEOREM HealsFollowRefusals == Spec => HealAfterRefusal
<1>1. Init => RefusalInv
  <2> SUFFICES ASSUME Init PROVE RefusalInv
    BY Zenon
  <2>1. ~Done(jobs["query"]) /\ ~pending /\ pc = "idle"
    BY Zenon DEF Init, NoJob, Done
  <2>2. ~HealWanted
    BY NoneIsNoName, Zenon DEF Init, HealWanted, NoStatus, Ops
  <2> QED BY <2>1, <2>2, InitType, Zenon DEF RefusalInv
<1>2. RefusalInv /\ [Next]_vars =>
        [~setting.slow /\ jobs["heal"].phase = "absent" /\ jobs'["heal"].phase = "running" => wholeSince]_vars
  <2> SUFFICES ASSUME RefusalInv, Next, ~setting.slow,
                      jobs["heal"].phase = "absent", jobs'["heal"].phase = "running"
               PROVE  wholeSince
    BY Zenon DEF vars
  <2>1. TypeOK /\ PassSummary
    BY OnlyPassesHeal, PassSummarised, Zenon DEF RefusalInv
  <2>2. wst.op = "heal" \/ HealDecided
    BY <2>1, Zenon DEF PassSummary
  <2> QED BY <2>2, Zenon DEF RefusalInv, HealWanted, HealDecided, Waiting, Answered, PoolIsWhole, Fresh,
                      Sightings, SeenWhole
<1> QED BY <1>1, <1>2, RefusalStep, PTL DEF Spec, HealAfterRefusal

-----------------------------------------------------------------------------
(***************************************************************************)
(* OwnsItsContainer: every step of a DaosContainer is a step of OwnedData  *)
(* or changes nothing OwnedData sees.  A create may run only while no more *)
(* containers were made than there were doubts; what stands between the    *)
(* making of a container and a second create is the Job that tells of it,  *)
(* the status that names it, or a doubt.                                   *)
(***************************************************************************)
Active(name) == jobs[name].phase \in {"running", "finished"}

Creating == jobs["create"].phase = "running"

Told(kind) == Done(jobs["query"]) /\ jobs["query"].out.kind = kind

Doubts == faults + failed + gone

\* The status that will be stored next.
Coming == IF pc = "update" THEN wst ELSE st

Sure(s) == s.uuid # 0 /\ s.op # "create"

\* What a pass read is not ahead of the object.
CopiesAgree ==
    /\ pc = "go" => wst = st
    /\ pc # "idle" => sys.exists
    /\ sys.finalizer => obj.finalizer
    /\ obj.finalizer => obj.exists
    /\ sys.deleted => obj.deleted \/ ~obj.exists

\* Without its finalizer an object has done nothing.
NothingYet ==
    obj.exists /\ ~obj.finalizer => made = 0 /\ ~Active("create") /\ ~Active("destroy")

Approvals ==
    /\ obj.approved \/ sys.approved => asked
    /\ st.op = "destroy" \/ wst.op = "destroy" \/ jobs["destroy"].phase = "running" => asked

Plausible(s) == (s.op = "create" => s.uuid = 0) /\ (s.op = "destroy" => s.uuid # 0)

StatusesGrow ==
    /\ Plausible(st) /\ Plausible(wst)
    /\ pc = "update" /\ st.uuid # 0 => wst.uuid # 0

\* A create runs for an object without a container, as far as can be known.
CreatesBlindly ==
    /\ Creating => st.uuid = 0 /\ wst.uuid = 0
    /\ Creating /\ st.op # "create" => dc = None /\ ~Told("found")
    /\ Told("missing") /\ ~Active("create") => dc = None
    /\ st.op = "create" \/ wst.op = "create" => ~Active("query")
    /\ pc = "update" /\ st.op = "create" /\ wst.op # "create" => ~Creating

Identified ==
    /\ dc # None => dc.id # 0 /\ dpool
    /\ Told("found") => jobs["query"].out.id # 0
    /\ Done(jobs["create"]) /\ jobs["create"].out.kind = "ok" => jobs["create"].out.id # 0

DestroyedForGood ==
    /\ Active("destroy") => st.uuid # 0
    /\ Done(jobs["destroy"]) /\ jobs["destroy"].out.kind \in Destroyed => dc = None

Accounted ==
    /\ made <= Doubts + 1
    /\ Creating => made <= Doubts
    /\ obj.exists /\ Creating /\ made = Doubts => Coming.op = "create"
    /\ obj.exists /\ made = Doubts + 1 =>
          Sure(Coming) \/ (Done(jobs["create"]) /\ Coming.op = "create")

OwnedInv ==
    /\ TypeOK /\ CopiesAgree /\ NothingYet /\ Approvals /\ StatusesGrow /\ CreatesBlindly
    /\ Identified /\ DestroyedForGood /\ Accounted

\* What a pass may do that touches neither the create nor the destroy Job: begin,
\* end, note something in the status it builds, and probe.
PlainPass ==
    /\ UNCHANGED <<dc, dpool, made, asked, failed, gone>>
    /\ jobs'["create"] = jobs["create"] /\ jobs'["destroy"] = jobs["destroy"]
    /\ \/ obj' = obj /\ sys' \in {sys, obj, NoObj}
       \/ obj' = NoObj /\ sys' = NoObj
       \/ obj' = [obj EXCEPT !.finalizer = TRUE] /\ obj.exists /\ sys' = NoObj
    /\ psys' \in {psys, pool, NoPool}
    /\ pc' # "idle" => sys'.exists
    /\ jobs'["query"] = jobs["query"]
         \/ (pc = "go" /\ wst.op = None /\ wst'.op # "create" /\ ~Done(jobs'["query"]))
    /\ \/ pc' = "go" /\ wst' = st /\ pc = "idle" /\ UNCHANGED <<st, faults>>
       \/ pc' = "idle" /\ wst' = NoStatus /\ pc = "go" /\ UNCHANGED <<st, faults>>
       \/ pc' = "idle" /\ wst' = NoStatus /\ pc = "update" /\ (st' = wst \/ (st' = st /\ ~obj.exists)) /\ UNCHANGED faults
       \/ pc' = "idle" /\ wst' = NoStatus /\ st' = st /\ faults' = faults + 1
       \/ /\ pc' = "update" /\ pc = "go" /\ UNCHANGED <<st, faults>>
          /\ wst'.op = "create" <=> wst.op = "create"
          /\ wst'.op = "destroy" => wst.op = "destroy"
          /\ \/ wst'.uuid = wst.uuid
             \/ wst.op = None /\ wst'.op # "create" /\ wst'.op # "destroy" /\ Told("found") /\ wst'.uuid = jobs["query"].out.id

\* What None and the blank values are not.
LEMMA Blanks ==
    /\ None # "create" /\ None # "destroy" /\ None # "acl" /\ None # "heal"
    /\ NoStatus.op = None /\ NoStatus.uuid = 0 /\ NoPool.parent = "none"
    /\ ~NoObj.exists /\ ~NoObj.deleted /\ ~NoObj.approved /\ ~NoObj.finalizer
  BY NoneIsNoName, Zenon DEF Ops, NoStatus, NoPool, NoObj

\* The finalizer is added to an object that stays what it was.
LEMMA FinalizerAdded ==
    ASSUME NEW o \in Objects
    PROVE  LET p == [o EXCEPT !.finalizer = TRUE]
           IN  /\ p.exists = o.exists /\ p.deleted = o.deleted /\ p.approved = o.approved /\ p.finalizer
  BY Zenon DEF Objects

\* A plain step of a pass keeps OwnedInv.
LEMMA OwnedPlain ==
    ASSUME OwnedInv, TypeOK', PlainPass PROVE OwnedInv'
<1>t. /\ obj \in Objects /\ made \in Nat /\ faults \in Nat /\ failed \in Nat /\ made' = made /\ failed' = failed
      /\ gone \in Nat /\ gone' = gone
  BY TypeFacts DEF OwnedInv, TypeOK, PlainPass
<1>o. /\ CopiesAgree /\ NothingYet /\ Approvals /\ StatusesGrow /\ CreatesBlindly
      /\ Identified /\ DestroyedForGood /\ Accounted
  BY Zenon DEF OwnedInv
<1>f. obj' # obj /\ obj'.exists => /\ obj.exists /\ obj'.finalizer /\ sys' = NoObj
                                   /\ obj'.deleted = obj.deleted /\ obj'.approved = obj.approved
  BY <1>t, FinalizerAdded, Blanks, Zenon DEF PlainPass
<1>g. obj'.approved => obj.approved
  BY <1>t, FinalizerAdded, Blanks, Zenon DEF PlainPass
<1>1. CopiesAgree'
  <2>1. (pc' = "go" => wst' = st') /\ (pc' # "idle" => sys'.exists)
    BY Zenon DEF PlainPass
  <2>2. (sys'.finalizer => obj'.finalizer) /\ (sys'.deleted => obj'.deleted \/ ~obj'.exists)
    BY <1>o, Blanks, Zenon DEF PlainPass, CopiesAgree
  <2>3. obj'.finalizer => obj'.exists
    BY <1>o, <1>t, FinalizerAdded, Blanks, Zenon DEF PlainPass, CopiesAgree
  <2> QED BY <2>1, <2>2, <2>3, Zenon DEF CopiesAgree
<1>2. NothingYet'
  BY <1>o, <1>f, Zenon DEF PlainPass, NothingYet, Active
<1>3. Approvals'
  BY <1>o, <1>g, Blanks, Zenon DEF PlainPass, Approvals
<1>4. StatusesGrow'
  BY <1>o, Blanks, Zenon DEF PlainPass, StatusesGrow, Plausible, CopiesAgree, Identified
<1>5. CreatesBlindly'
  <2>1. Creating' = Creating /\ Active("create")' = Active("create") /\ dc' = dc
    BY Zenon DEF PlainPass, Creating, Active
  <2>2. Told("found")' => Told("found")
    BY Zenon DEF PlainPass, Told
  <2>3. Told("missing")' => Told("missing")
    BY Zenon DEF PlainPass, Told
  <2>4. Creating => st'.uuid = 0 /\ wst'.uuid = 0
    BY <1>o, Blanks, Zenon DEF PlainPass, CreatesBlindly, CopiesAgree
  <2>5. Creating /\ st'.op # "create" => dc = None /\ ~Told("found")
    BY <1>o, Blanks, Zenon DEF PlainPass, CreatesBlindly
  <2>6. st'.op = "create" \/ wst'.op = "create" => ~Active("query")'
    BY <1>o, Blanks DEF PlainPass, CreatesBlindly, CopiesAgree, Active
  <2>7. pc' = "update" /\ st'.op = "create" /\ wst'.op # "create" => ~Creating
    BY <1>o, Blanks, Zenon DEF PlainPass, CreatesBlindly, CopiesAgree
  <2> QED BY <1>o, <2>1, <2>2, <2>3, <2>4, <2>5, <2>6, <2>7, Zenon DEF CreatesBlindly
<1>6. Identified'
  BY <1>o, Zenon DEF PlainPass, Identified, Told
<1>7. DestroyedForGood'
  BY <1>o, Zenon DEF PlainPass, DestroyedForGood, StatusesGrow, Active
<1>8. Accounted'
  <2>1. CASE faults' = faults + 1
    <3>1. made' <= Doubts' /\ made' # Doubts' + 1
      BY <1>o, <1>t, <2>1 DEF Accounted, Doubts
    <3>2. Creating' => Creating
      BY Zenon DEF PlainPass, Creating
    <3>3. Creating => made' # Doubts'
      BY <1>o, <1>t, <2>1 DEF Accounted, Doubts
    <3>4. made' <= Doubts' + 1
      BY <3>1, <1>t, <2>1 DEF Doubts
    <3> QED BY <3>1, <3>2, <3>3, <3>4, Zenon DEF Accounted, PlainPass
  <2>2. CASE faults' = faults
    <3>1. Doubts' = Doubts /\ Creating' = Creating
      BY <1>t, <2>2, Zenon DEF Doubts, PlainPass, Creating
    <3>2. obj'.exists => obj.exists
      BY <1>f, Blanks, Zenon DEF PlainPass
    <3>3. faults' # faults + 1
      BY <1>t, <2>2
    <3>4. obj.exists => (Coming.op = "create" => Coming'.op = "create") /\ (Sure(Coming) => Sure(Coming'))
      BY <1>o, <3>3, Blanks, Zenon DEF PlainPass, Coming, Sure, CopiesAgree, Identified
    <3> QED BY <1>o, <1>t, <3>1, <3>2, <3>4, Zenon DEF Accounted, PlainPass
  <2> QED BY <2>1, <2>2, Zenon DEF PlainPass
<1> QED BY <1>1, <1>2, <1>3, <1>4, <1>5, <1>6, <1>7, <1>8, Zenon DEF OwnedInv

\* A status with another reason.
LEMMA Noted ==
    ASSUME NEW s \in Statuses, NEW r
    PROVE  [s EXCEPT !.reason = r].op = s.op /\ [s EXCEPT !.reason = r].uuid = s.uuid
  BY Zenon DEF Statuses

\* Run, on one Job or on several, leaves the others alone.
LEMMA OtherJobs ==
    ASSUME TypeOK
    PROVE  /\ \A n \in Names : RunJob(n) =>
                 /\ jobs'[n] = AfterRun(jobs[n], sys.acl)
                 /\ \A m \in Names : m # n => jobs'[m] = jobs[m]
           /\ \A names : \A m \in Names :
                 RunJobs(names)[m] = IF m \in names THEN AfterRun(jobs[m], sys.acl) ELSE jobs[m]
           /\ {"create", "acl", "heal", "destroy", "query"} = Names /\ None \notin Ops
<1>1. jobs \in [Names -> Job(Nat, Outs)]
  BY TypeFacts, Zenon
<1> QED BY <1>1, NoneIsNoName, Zenon DEF RunJob, RunJobs, Names, Ops

\* Steps of a pass that run no Job are plain.
LEMMA PlainWithoutJobs ==
    ASSUME OwnedInv,
           BeginPass \/ NoParent \/ AddFinalizer \/ PoolNotReady \/ Held \/ Released \/ DestroyHeld
             \/ UpdateStatus \/ PassEnds
    PROVE  PlainPass
<1> USE DEF outside, daos, bounds
<1>t. wst \in Statuses /\ CopiesAgree
  BY TypeFacts, Zenon DEF OwnedInv
<1>1. CASE BeginPass
  BY <1>1, Zenon DEF BeginPass, PlainPass
<1>2. CASE AddFinalizer
  BY <1>2, <1>t, Zenon DEF AddFinalizer, Return, PlainPass, CopiesAgree
<1>3. CASE NoParent \/ PoolNotReady
  <2>1. CASE NoParent /\ sys.deleted
    BY <2>1, Zenon DEF NoParent, RemoveFinalizer, Return, PlainPass
  <2>2. CASE PoolNotReady \/ ~sys.deleted
    <3>1. /\ pc = "go" /\ Store([wst EXCEPT !.reason = "other"])
          /\ UNCHANGED <<obj, st, jobs, failed, outside>>
      BY <1>3, <2>2, Zenon DEF NoParent, PoolNotReady
    <3>2. wst'.op = wst.op /\ wst'.uuid = wst.uuid
      BY <1>t, <3>1, Noted, Zenon DEF Store
    <3> QED BY <1>t, <3>1, <3>2, Zenon DEF Store, PlainPass, CopiesAgree
  <2> QED BY <1>3, <2>1, <2>2, Zenon
<1>4. CASE Held \/ DestroyHeld
  BY <1>4, Zenon DEF Held, DestroyHeld, Probe, Live, Finalizing, Return, PlainPass
<1>5. CASE Released
  BY <1>5, Zenon DEF Released, Finalizing, RemoveFinalizer, Return, PlainPass
<1>6. CASE UpdateStatus
  BY <1>6, Zenon DEF UpdateStatus, Return, PlainPass
<1>7. CASE PassEnds
  BY <1>7, Zenon DEF PassEnds, Return, PlainPass
<1> QED BY <1>1, <1>2, <1>3, <1>4, <1>5, <1>6, <1>7, Zenon

\* A plain step stores a status and probes, or runs the Job of another operation.
LEMMA PlainStore ==
    ASSUME OwnedInv, pc = "go", NEW s, Store(s), UNCHANGED <<obj, st, failed, outside>>,
           jobs'["create"] = jobs["create"], jobs'["destroy"] = jobs["destroy"],
           jobs'["query"] = jobs["query"]
             \/ (wst.op = None /\ s.op # "create" /\ ~Done(jobs'["query"])),
           s.op = "create" <=> wst.op = "create",
           s.op = "destroy" => wst.op = "destroy",
           \/ s.uuid = wst.uuid
           \/ wst.op = None /\ s.op # "create" /\ s.op # "destroy" /\ Told("found") /\ s.uuid = jobs["query"].out.id
    PROVE  PlainPass
  BY Zenon DEF OwnedInv, CopiesAgree, Store, PlainPass, outside, daos, bounds

\* Steps of a pass that probe, collect an answer or heal are plain, except the one
\* that starts a create.
LEMMA PlainProbe ==
    ASSUME OwnedInv, Probing \/ QueryFails \/ (Missing /\ wst'.op # "create") \/ Found \/ RfExceeded
    PROVE  PlainPass
<1>t. wst \in Statuses /\ TypeOK
  BY TypeFacts, Zenon DEF OwnedInv
<1>c. ASSUME NEW s \in Statuses, NEW op \in {None, "acl"}, Collect(s, op), Probe, s.op = wst.op,
             Done(jobs["query"]),
             s.uuid = wst.uuid \/ (Told("found") /\ s.uuid = jobs["query"].out.id)
      PROVE  PlainPass
  <2>1. PICK r : Store(r) /\ r.op \in {None, "acl"} /\ r.uuid = s.uuid
    <3>1. CASE op = None
      BY <1>c, <3>1, Zenon DEF Collect, Probe
    <3>2. CASE op = "acl"
      <4>1. Store([s EXCEPT !.op = "acl", !.reason = "other"])
        BY <1>c, <3>2, Blanks, Zenon DEF Collect
      <4>2. /\ [s EXCEPT !.op = "acl", !.reason = "other"].op = "acl"
            /\ [s EXCEPT !.op = "acl", !.reason = "other"].uuid = s.uuid
        BY <1>c, Zenon DEF Statuses
      <4> QED BY <4>1, <4>2, Zenon
    <3> QED BY <3>1, <3>2, Zenon
  <2>2. /\ jobs'["create"] = jobs["create"] /\ jobs'["destroy"] = jobs["destroy"]
        /\ jobs'["query"] = AfterRun(jobs["query"], sys.acl)
    BY <1>c, <1>t, OtherJobs, Blanks DEF Collect
  <2>3. ~Done(jobs'["query"])
    BY <1>c, <2>2 DEF AfterRun, Deleting, Done
  <2> QED BY <1>c, <2>1, <2>2, <2>3, PlainStore, Blanks, Zenon DEF Collect, Probe, Live
<1>n. /\ [wst EXCEPT !.reason = "other"] \in Statuses
      /\ [wst EXCEPT !.reason = "other"].op = wst.op
      /\ [wst EXCEPT !.reason = "other"].uuid = wst.uuid
  BY <1>t, Noted, StatusTypes, Zenon
<1>1. CASE Probing
  <2>1. /\ jobs'["create"] = jobs["create"] /\ jobs'["destroy"] = jobs["destroy"]
        /\ jobs'["query"] = AfterRun(jobs["query"], sys.acl)
    BY <1>1, <1>t, OtherJobs DEF Probing
  <2>2. ~Done(jobs'["query"])
    BY <1>1, <2>1 DEF Probing, AfterRun, Running, Done
  <2> QED BY <1>1, <2>1, <2>2, PlainStore, Blanks, Zenon DEF Probing, Probe, Live
<1>2. CASE QueryFails
  BY <1>2, <1>c, <1>n, Zenon DEF QueryFails, Answered
<1>3. CASE Missing /\ wst'.op # "create"
  <2>1. Probe /\ Done(jobs["query"])
    BY <1>3, Zenon DEF Missing, Answered
  <2>2. ~Collect(wst, "create")
    BY <1>3, <1>t, Blanks, Zenon DEF Collect, Store, Statuses
  <2> QED BY <1>3, <1>c, <1>n, <1>t, <2>1, <2>2, Zenon DEF Missing
<1>4. CASE Found
  <2>1. Probe /\ Done(jobs["query"]) /\ Told("found")
    BY <1>4, Zenon DEF Found, Answered, Told
  <2>2. jobs["query"].out \in Outs
    BY <1>t, <2>1, JobsType, Zenon DEF Names
  <2>3. jobs["query"].out.id \in Nat
    BY <2>2 DEF Outs
  <2> DEFINE s == [wst EXCEPT !.uuid = jobs["query"].out.id]
  <2>4. s \in Statuses /\ s.op = wst.op /\ s.uuid = jobs["query"].out.id
    BY <1>t, <2>3, Zenon DEF Statuses
  <2>5. Collect(s, "acl") \/ Collect([s EXCEPT !.reason = "other"], None)
    BY <1>4, Zenon DEF Found
  <2> HIDE DEF s
  <2>6. /\ [s EXCEPT !.reason = "other"] \in Statuses
        /\ [s EXCEPT !.reason = "other"].op = s.op
        /\ [s EXCEPT !.reason = "other"].uuid = s.uuid
    BY <2>4, Noted, StatusTypes, Zenon
  <2> QED BY <1>c, <2>1, <2>4, <2>5, <2>6, Zenon
<1>5. CASE RfExceeded
  <2>1. pc = "go" /\ wst.op = None /\ (~Waiting => Done(jobs["query"]))
    BY <1>5, Zenon DEF RfExceeded, Waiting, Answered, Probe, Live
  <2>2. PICK names \in SUBSET {"query", "heal"} :
           jobs' = RunJobs(names) /\ ("query" \in names => Done(jobs["query"]))
    BY <1>5, <2>1 DEF RfExceeded
  <2>3. /\ jobs'["create"] = jobs["create"] /\ jobs'["destroy"] = jobs["destroy"]
        /\ jobs'["query"] = jobs["query"] \/ ~Done(jobs'["query"])
    BY <1>t, <2>2, OtherJobs DEF AfterRun, Deleting, Done
  <2>4. PICK s : Store(s) /\ s.op \in {None, "heal"} /\ s.uuid = wst.uuid
    <3>1. PICK op \in {None, "heal"} : Store([wst EXCEPT !.reason = "other", !.op = op])
      BY <1>5, Zenon DEF RfExceeded
    <3>2. /\ [wst EXCEPT !.reason = "other", !.op = op].op = op
          /\ [wst EXCEPT !.reason = "other", !.op = op].uuid = wst.uuid
      BY <1>t, Zenon DEF Statuses
    <3> QED BY <3>1, <3>2, Zenon
  <2> QED BY <1>5, <2>1, <2>3, <2>4, PlainStore, Blanks, Zenon DEF RfExceeded
<1> QED BY <1>1, <1>2, <1>3, <1>4, <1>5, Zenon

\* What a pass that runs the create or the destroy Job knows of the object.
LEMMA ActsOnOwn ==
    ASSUME OwnedInv, pc = "go", sys.finalizer
    PROVE  obj.exists /\ obj.finalizer /\ wst = st /\ Coming = st
  BY Zenon DEF OwnedInv, CopiesAgree, Coming

\* A create is started only while no more was made than there were doubts.
LEMMA MadeAtMost ==
    ASSUME OwnedInv, obj.exists, ~Sure(Coming),
           Coming.op # "create" \/ ~Done(jobs["create"])
    PROVE  made <= Doubts
<1>1. made \in Nat /\ Doubts \in Nat
  BY TypeFacts DEF OwnedInv, TypeOK, Doubts
<1>2. made <= Doubts + 1 /\ made # Doubts + 1
  BY Zenon DEF OwnedInv, Accounted
<1> QED BY <1>1, <1>2

\* Polling keeps OwnedInv: a create Job that is not there is created again, and so
\* is a destroy Job.
LEMMA OwnedPoll == ASSUME OwnedInv, TypeOK', Poll PROVE OwnedInv'
<1> USE DEF outside, daos, bounds
<1>t. TypeOK /\ wst.op \in Ops /\ wst.op \in Names
  BY TypeFacts, Zenon DEF OwnedInv, Poll, Statuses, Names
<1>o. /\ CopiesAgree /\ NothingYet /\ Approvals /\ StatusesGrow /\ CreatesBlindly
      /\ Identified /\ DestroyedForGood /\ Accounted
  BY Zenon DEF OwnedInv
<1>p. /\ pc = "go" /\ pc' = "idle" /\ sys.finalizer /\ ~sys.deleted /\ psys.parent = "ready"
      /\ sys' = NoObj /\ psys' = NoPool /\ wst' = NoStatus
      /\ UNCHANGED <<obj, st, failed, pool, dc, dpool, made, asked, faults, gone>>
      /\ ~Done(jobs[wst.op])
  BY Zenon DEF Poll, Live, Return
<1>j. /\ jobs'[wst.op] = AfterRun(jobs[wst.op], sys.acl)
      /\ \A m \in Names : m # wst.op => jobs'[m] = jobs[m]
      /\ {"create", "acl", "heal", "destroy", "query"} = Names
  BY <1>t, OtherJobs, Zenon DEF Poll
<1>a. /\ obj.exists /\ obj.finalizer /\ wst = st /\ Coming = st /\ Coming' = st
  BY <1>p, ActsOnOwn, Zenon DEF Coming
<1>q. wst.op \in Ops => jobs'["query"] = jobs["query"]
  BY <1>j, Zenon DEF Ops
<1>1. CASE jobs'["create"] = jobs["create"] /\ jobs'["destroy"] = jobs["destroy"]
  <2>1. PlainPass
    BY <1>1, <1>p, <1>q, <1>t, Zenon DEF PlainPass
  <2> QED BY <2>1, OwnedPlain, Zenon
<1>2. CASE jobs'["create"] # jobs["create"] \/ jobs'["destroy"] # jobs["destroy"]
  <2>1. CopiesAgree' /\ NothingYet' /\ StatusesGrow'
    <3>1. CopiesAgree'
      BY <1>o, <1>p, Blanks, Zenon DEF CopiesAgree
    <3>2. NothingYet'
      BY <1>p, <1>a, Zenon DEF NothingYet
    <3>3. StatusesGrow'
      BY <1>o, <1>p, Blanks, Zenon DEF StatusesGrow, Plausible
    <3> QED BY <3>1, <3>2, <3>3, Zenon
  <2>2. CASE wst.op = "create"
    <3>1. jobs'["destroy"] = jobs["destroy"] /\ jobs["create"].phase = "absent" /\ Creating'
      BY <1>2, <1>j, <1>p, <2>2 DEF AfterRun, Running, Creating
    <3>2. Approvals'
      BY <1>o, <1>p, <3>1, Blanks, Zenon DEF Approvals
    <3>3. CreatesBlindly'
      BY <1>o, <1>a, <1>p, <1>q, <1>t, <2>2, <3>1, Blanks, Zenon
         DEF CreatesBlindly, StatusesGrow, Plausible, Creating, Active
    <3>4. Identified' /\ DestroyedForGood'
      BY <1>o, <1>p, <1>q, <1>t, <3>1, Zenon DEF Identified, DestroyedForGood, Told, Active, Creating, Done
    <3>5. made <= Doubts
      BY <1>a, <1>o, <1>p, <2>2, MadeAtMost, Zenon DEF Sure, StatusesGrow, Plausible
    <3>6. Doubts' = Doubts /\ made' = made /\ made \in Nat /\ Doubts \in Nat
      BY <1>p, <1>t DEF Doubts, TypeOK
    <3>7. Accounted'
      BY <1>a, <1>o, <1>p, <2>2, <3>5, <3>6, Zenon DEF Accounted
    <3> QED BY <2>1, <3>2, <3>3, <3>4, <3>7, Zenon DEF OwnedInv
  <2>3. CASE wst.op = "destroy"
    <3>1. /\ jobs'["create"] = jobs["create"] /\ jobs'["destroy"].phase = "running"
          /\ jobs["destroy"].phase = "absent"
      BY <1>2, <1>j, <1>p, <2>3 DEF AfterRun, Running
    <3>2. Approvals'
      BY <1>o, <1>p, <2>3, Blanks, Zenon DEF Approvals
    <3>3. CreatesBlindly'
      BY <1>o, <1>a, <1>p, <1>q, <1>t, <3>1, Blanks, Zenon
         DEF CreatesBlindly, Creating, Active, Told
    <3>4. Identified' /\ DestroyedForGood'
      BY <1>o, <1>a, <1>p, <1>q, <1>t, <2>3, <3>1, Zenon
         DEF Identified, DestroyedForGood, Told, Active, Done, StatusesGrow, Plausible
    <3>5. Doubts' = Doubts /\ Creating' = Creating
      BY <1>p, <3>1, Zenon DEF Doubts, Creating
    <3>6. Accounted'
      BY <1>a, <1>o, <1>p, <3>1, <3>5, Zenon DEF Accounted
    <3> QED BY <2>1, <3>2, <3>3, <3>4, <3>6, Zenon DEF OwnedInv
  <2> QED BY <1>2, <1>j, <2>2, <2>3, Zenon
<1> QED BY <1>1, <1>2, Zenon

\* Polling an operation that ended keeps OwnedInv: the status names the container a
\* create made, or its failure is one more doubt.
LEMMA OwnedPollDone == ASSUME OwnedInv, TypeOK', PollDone PROVE OwnedInv'
<1> USE DEF outside, daos, bounds
<1>t. TypeOK /\ wst \in Statuses /\ wst.op \in Ops /\ wst.op \in Names
  BY TypeFacts, Zenon DEF OwnedInv, PollDone, Statuses, Names
<1>o. /\ CopiesAgree /\ NothingYet /\ Approvals /\ StatusesGrow /\ CreatesBlindly
      /\ Identified /\ DestroyedForGood /\ Accounted
  BY Zenon DEF OwnedInv
<1>p. /\ pc = "go" /\ pc' = "update" /\ sys.finalizer /\ ~sys.deleted /\ psys.parent = "ready"
      /\ UNCHANGED <<sys, psys, obj, st, pool, dc, dpool, made, asked, faults, gone>>
      /\ Done(jobs[wst.op])
  BY Zenon DEF PollDone, Live, Store
<1>j. /\ jobs'[wst.op] = AfterRun(jobs[wst.op], sys.acl)
      /\ \A m \in Names : m # wst.op => jobs'[m] = jobs[m]
      /\ {"create", "acl", "heal", "destroy", "query"} = Names
  BY <1>t, OtherJobs, Zenon DEF PollDone
<1>a. /\ obj.exists /\ obj.finalizer /\ wst = st /\ Coming = st /\ Coming' = wst'
  BY <1>p, ActsOnOwn, Zenon DEF Coming
<1>q. jobs'["query"] = jobs["query"] /\ jobs'[wst.op].phase = "deleting"
  BY <1>j, <1>p, <1>t DEF Ops, AfterRun, Deleting, Done
<1>w. /\ wst'.op = None
      /\ wst'.uuid = IF wst.op = "create" /\ jobs["create"].out.kind = "ok"
                     THEN jobs["create"].out.id ELSE wst.uuid
      /\ failed' = IF wst.op = "create" /\ jobs["create"].out.kind # "ok" THEN failed + 1 ELSE failed
  <2>1. CASE jobs[wst.op].out.kind = "ok"
    <3>1. wst' = Applied(wst.op, jobs[wst.op].out.id) /\ failed' = failed
      BY <2>1, Zenon DEF PollDone, Store
    <3>2. wst'.op = None /\ wst'.uuid = IF wst.op = "create" THEN jobs[wst.op].out.id ELSE wst.uuid
      BY <1>t, <3>1, Zenon DEF Applied, Statuses
    <3> QED BY <2>1, <3>1, <3>2, Zenon
  <2>2. CASE jobs[wst.op].out.kind # "ok"
    <3>1. /\ wst' = [wst EXCEPT !.op = None, !.obs = sys.gen, !.reason = wst.op]
          /\ failed' = IF wst.op = "create" THEN failed + 1 ELSE failed
      BY <2>2, Zenon DEF PollDone, Store
    <3>2. wst'.op = None /\ wst'.uuid = wst.uuid
      BY <1>t, <3>1, Zenon DEF Statuses
    <3> QED BY <2>2, <3>1, <3>2, Zenon
  <2> QED BY <2>1, <2>2, Zenon
<1>1. CASE wst.op \in {"acl", "heal"}
  <2>1. jobs'["create"] = jobs["create"] /\ jobs'["destroy"] = jobs["destroy"] /\ failed' = failed
    BY <1>1, <1>j, <1>w, Zenon
  <2>2. PlainPass
    BY <1>1, <1>o, <1>p, <1>q, <1>w, <2>1, Blanks, Zenon DEF PlainPass, CopiesAgree
  <2> QED BY <2>2, OwnedPlain, Zenon
<1>2. CASE wst.op \in {"create", "destroy"}
  <2>1. CopiesAgree' /\ NothingYet' /\ Approvals' /\ StatusesGrow'
    <3>1. CopiesAgree'
      BY <1>o, <1>p, Zenon DEF CopiesAgree
    <3>2. NothingYet'
      BY <1>p, <1>a, Zenon DEF NothingYet
    <3>3. jobs'["destroy"].phase = "running" => jobs["destroy"].phase = "running"
      BY <1>2, <1>j, <1>q, Zenon
    <3>4. Approvals'
      BY <1>o, <1>p, <1>w, <3>3, Blanks, Zenon DEF Approvals
    <3>5. StatusesGrow'
      BY <1>a, <1>o, <1>p, <1>w, Blanks, Zenon DEF StatusesGrow, Plausible, Identified
    <3> QED BY <3>1, <3>2, <3>4, <3>5, Zenon
  <2>2. CASE wst.op = "create"
    <3>1. jobs'["destroy"] = jobs["destroy"] /\ ~Creating' /\ ~Active("create")' /\ Done(jobs["create"])
      BY <1>j, <1>p, <1>q, <2>2, Zenon DEF Creating, Active
    <3>2. CreatesBlindly'
      BY <1>a, <1>o, <1>p, <1>q, <1>t, <1>w, <2>2, <3>1, Blanks, Zenon DEF CreatesBlindly, Active, Told, Done
    <3>3. Identified' /\ DestroyedForGood'
      BY <1>o, <1>p, <1>q, <1>t, <3>1, Zenon DEF Identified, DestroyedForGood, Told, Active, Done
    <3>4. /\ made' = made /\ made \in Nat /\ faults' = faults /\ faults \in Nat /\ failed \in Nat
          /\ gone' = gone /\ gone \in Nat
      BY <1>p, <1>t DEF TypeOK
    <3>5. Accounted'
      <4>1. CASE jobs["create"].out.kind = "ok"
        <5>1. Sure(Coming')
          BY <1>a, <1>o, <1>w, <2>2, <3>1, <4>1, Blanks, Zenon DEF Sure, Identified
        <5>2. Doubts' = Doubts
          BY <1>w, <3>4, <4>1, Zenon DEF Doubts
        <5> QED BY <1>o, <3>1, <3>4, <5>1, <5>2, Zenon DEF Accounted
      <4>2. CASE jobs["create"].out.kind # "ok"
        <5>1. made <= (faults + failed + gone) + 1
          BY <1>o, Zenon DEF Accounted, Doubts
        <5>2. Doubts' = (faults + failed + gone) + 1
          BY <1>w, <2>2, <3>4, <4>2 DEF Doubts
        <5>3. made' <= Doubts' + 1 /\ made' # Doubts' + 1
          BY <3>4, <5>1, <5>2
        <5> QED BY <3>1, <5>3, Zenon DEF Accounted
      <4> QED BY <4>1, <4>2, Zenon
    <3> QED BY <2>1, <3>2, <3>3, <3>5, Zenon DEF OwnedInv
  <2>3. CASE wst.op = "destroy"
    <3>1. /\ jobs'["create"] = jobs["create"] /\ ~Active("destroy")' /\ ~Done(jobs'["destroy"])
          /\ failed' = failed /\ wst'.uuid = wst.uuid
      BY <1>j, <1>q, <1>w, <2>3, Zenon DEF Active, Done
    <3>2. CreatesBlindly'
      BY <1>o, <1>a, <1>p, <1>q, <1>t, <1>w, <2>3, <3>1, Blanks, Zenon DEF CreatesBlindly, Creating, Active, Told
    <3>3. Identified' /\ DestroyedForGood'
      BY <1>o, <1>p, <1>q, <3>1, Zenon DEF Identified, DestroyedForGood, Told
    <3>4. Doubts' = Doubts /\ Creating' = Creating
      BY <1>p, <3>1, Zenon DEF Doubts, Creating
    <3>5. Sure(Coming')
      BY <1>a, <1>o, <1>w, <2>3, <3>1, Blanks, Zenon DEF Sure, StatusesGrow, Plausible
    <3>6. ~Creating
      BY <1>a, <1>o, <2>3, Zenon DEF CreatesBlindly, StatusesGrow, Plausible
    <3>7. Accounted'
      BY <1>a, <1>o, <1>p, <3>4, <3>5, <3>6, Zenon DEF Accounted
    <3> QED BY <2>1, <3>2, <3>3, <3>7, Zenon DEF OwnedInv
  <2> QED BY <1>2, <2>2, <2>3, Zenon
<1> QED BY <1>1, <1>2, <1>t, Zenon DEF Ops

\* The start of a create keeps OwnedInv: it needs an answer that there is no
\* container, and a status that names none.
LEMMA OwnedCreate == ASSUME OwnedInv, TypeOK', Missing, wst'.op = "create" PROVE OwnedInv'
<1> USE DEF outside, daos, bounds
<1>t. TypeOK /\ wst \in Statuses
  BY TypeFacts, Zenon DEF OwnedInv
<1>o. /\ CopiesAgree /\ NothingYet /\ Approvals /\ StatusesGrow /\ CreatesBlindly
      /\ Identified /\ DestroyedForGood /\ Accounted
  BY Zenon DEF OwnedInv
<1>n. wst.op = None
  BY Zenon DEF Missing, Answered, Probe
<1>c. Collect(wst, "create") /\ wst.uuid = 0
  <2>1. ~Collect([wst EXCEPT !.reason = "other"], None) /\ ~Collect(wst, None)
    BY <1>n, <1>t, Noted, Blanks, ZenonT(30) DEF Collect, Store
  <2> QED BY <2>1, Zenon DEF Missing
<1>p. /\ pc = "go" /\ pc' = "update" /\ sys.finalizer /\ ~sys.deleted /\ psys.parent = "ready"
      /\ UNCHANGED <<sys, psys, obj, st, pool, dc, dpool, made, asked, faults, failed, gone>>
      /\ Told("missing")
  BY <1>c, Zenon DEF Missing, Answered, Probe, Live, Collect, Store, Told
<1>w. wst'.uuid = 0
  BY <1>c, <1>t, Blanks, Zenon DEF Collect, Store, Statuses
<1>j. /\ jobs'["create"] = AfterRun(jobs["create"], sys.acl)
      /\ jobs'["query"] = AfterRun(jobs["query"], sys.acl)
      /\ jobs'["destroy"] = jobs["destroy"]
  BY <1>c, <1>t, OtherJobs DEF Collect
<1>q. jobs'["query"].phase = "deleting"
  BY <1>j, <1>p DEF Told, AfterRun, Deleting, Done
<1>s. /\ Creating' => Creating \/ jobs["create"].phase = "absent"
      /\ ~Done(jobs'["create"])
      /\ jobs'["create"] = jobs["create"] \/ jobs["create"].phase \in {"absent", "finished"}
  BY <1>j DEF Creating, AfterRun, Running, Deleting, Done
<1>a. /\ obj.exists /\ obj.finalizer /\ wst = st /\ Coming = st /\ Coming' = wst'
  BY <1>p, ActsOnOwn, Zenon DEF Coming
<1>1. CopiesAgree'
  BY <1>o, <1>p, Zenon DEF CopiesAgree
<1>2. NothingYet'
  BY <1>p, <1>a, Zenon DEF NothingYet
<1>3. Approvals'
  BY <1>o, <1>p, <1>j, Zenon DEF Approvals
<1>4. StatusesGrow'
  BY <1>a, <1>c, <1>o, <1>p, <1>w, Zenon DEF StatusesGrow, Plausible
<1>5. CreatesBlindly'
  <2>1. ~Told("found")' /\ ~Told("missing")' /\ ~Active("query")'
    BY <1>q, Zenon DEF Told, Active, Done
  <2>2. Creating' => dc = None
    <3>1. jobs["create"].phase = "absent" => dc = None
      BY <1>o, <1>p, Zenon DEF CreatesBlindly, Active
    <3>2. Creating => dc = None
      BY <1>a, <1>n, <1>o, Blanks, Zenon DEF CreatesBlindly
    <3> QED BY <1>s, <3>1, <3>2, Zenon
  <2> QED BY <1>a, <1>c, <1>p, <1>w, <2>1, <2>2, Zenon DEF CreatesBlindly
<1>6. Identified' /\ DestroyedForGood'
  BY <1>j, <1>o, <1>p, <1>q, <1>s, Zenon DEF Identified, DestroyedForGood, Told, Active, Done
<1>7. Accounted'
  <2>1. made <= Doubts
    BY <1>a, <1>c, <1>n, MadeAtMost, Blanks, Zenon DEF Sure
  <2>2. Doubts' = Doubts /\ made' = made /\ made \in Nat /\ Doubts \in Nat
    BY <1>p, <1>t DEF Doubts, TypeOK
  <2> QED BY <1>a, <1>o, <1>p, <2>1, <2>2 DEF Accounted
<1> QED BY <1>1, <1>2, <1>3, <1>4, <1>5, <1>6, <1>7, Zenon DEF OwnedInv

\* Destroying keeps OwnedInv: it needs the approval and a status that names the
\* container, so no create runs.
LEMMA OwnedDestroy == ASSUME OwnedInv, TypeOK', DestroyWait \/ DestroyDone PROVE OwnedInv'
<1> USE DEF outside, daos, bounds
<1>t. TypeOK /\ wst \in Statuses
  BY TypeFacts, Zenon DEF OwnedInv
<1>o. /\ CopiesAgree /\ NothingYet /\ Approvals /\ StatusesGrow /\ CreatesBlindly
      /\ Identified /\ DestroyedForGood /\ Accounted
  BY Zenon DEF OwnedInv
<1>p. /\ pc = "go" /\ sys.finalizer /\ sys.deleted /\ sys.approved /\ wst.uuid # 0
      /\ UNCHANGED <<st, pool, dc, dpool, made, asked, faults, failed, gone>>
      /\ obj' \in {obj, NoObj}
  BY Zenon DEF DestroyWait, DestroyDone, Finalizing, Destroyable
<1>r. \/ pc' = "idle" /\ sys' = NoObj /\ psys' = NoPool /\ wst' = NoStatus
      \/ /\ pc' = "update" /\ sys' = sys /\ psys' = psys /\ obj' = obj
         /\ wst'.op \in {"destroy", None} /\ wst'.uuid = wst.uuid
  <2>1. CASE Return
    BY <2>1, Zenon DEF Return
  <2>2. CASE ~Return
    <3>1. PICK op \in {"destroy", None}, r \in {"other", "destroy"} : Store([wst EXCEPT !.op = op, !.reason = r]) /\ obj' = obj
      BY <2>2, Zenon DEF DestroyWait, DestroyDone
    <3>2. /\ [wst EXCEPT !.op = op, !.reason = r].op = op
          /\ [wst EXCEPT !.op = op, !.reason = r].uuid = wst.uuid
      BY <1>t, Zenon DEF Statuses
    <3> QED BY <3>1, <3>2, Zenon DEF Store
  <2> QED BY <2>1, <2>2, Zenon
<1>j. /\ jobs'["create"] = jobs["create"] /\ jobs'["query"] = jobs["query"]
      /\ jobs'["destroy"] = AfterRun(jobs["destroy"], sys.acl)
  BY <1>t, OtherJobs DEF DestroyWait, DestroyDone
<1>s. ~Done(jobs'["destroy"])
  BY <1>j DEF AfterRun, Running, Deleting, Done
<1>a. /\ obj.exists /\ obj.finalizer /\ wst = st /\ Coming = st
      /\ st.uuid # 0 /\ st.op # "create" /\ ~Creating /\ asked
  BY <1>o, <1>p, ActsOnOwn, Zenon DEF StatusesGrow, Plausible, CreatesBlindly, Approvals
<1>1. CopiesAgree'
  <2>1. CASE obj' = obj
    BY <1>o, <1>p, <1>r, <2>1, Blanks, Zenon DEF CopiesAgree
  <2>2. CASE obj' = NoObj /\ pc' = "idle"
    BY <1>r, <2>2, Blanks, Zenon DEF CopiesAgree
  <2> QED BY <1>p, <1>r, <2>1, <2>2, Zenon
<1>2. NothingYet'
  BY <1>a, <1>p, Blanks, Zenon DEF NothingYet
<1>3. Approvals'
  BY <1>a, <1>p, Zenon DEF Approvals
<1>4. StatusesGrow'
  BY <1>a, <1>o, <1>p, <1>r, Blanks, Zenon DEF StatusesGrow, Plausible
<1>5. CreatesBlindly'
  BY <1>a, <1>j, <1>o, <1>p, <1>r, Blanks, Zenon DEF CreatesBlindly, Creating, Active, Told
<1>6. Identified' /\ DestroyedForGood'
  BY <1>a, <1>j, <1>o, <1>p, <1>s, Zenon DEF Identified, DestroyedForGood, Told
<1>7. Accounted'
  <2>1. Sure(Coming')
    BY <1>a, <1>p, <1>r, Blanks, Zenon DEF Sure, Coming
  <2>2. Doubts' = Doubts /\ ~Creating'
    BY <1>a, <1>j, <1>p, Zenon DEF Doubts, Creating
  <2> QED BY <1>o, <1>p, <2>1, <2>2, Zenon DEF Accounted
<1> QED BY <1>1, <1>2, <1>3, <1>4, <1>5, <1>6, <1>7, Zenon DEF OwnedInv

\* Every step of a pass keeps OwnedInv.
LEMMA OwnedPass == ASSUME OwnedInv, TypeOK', Operator \/ PassEnds PROVE OwnedInv'
  BY PlainWithoutJobs, PlainProbe, OwnedPlain, OwnedPoll, OwnedPollDone, OwnedCreate, OwnedDestroy, Zenon
     DEF Operator, Reconcile

\* OwnedInv is kept by a step outside the passes that removes Jobs that are done
\* with, and leaves the container what it was or destroys it.
LEMMA OwnedQuiet ==
    ASSUME OwnedInv, TypeOK', UNCHANGED <<st, wst, pc, sys, dpool, made, failed, faults, gone, asked>>,
           obj'.exists = obj.exists, obj'.deleted = obj.deleted, obj'.approved = obj.approved,
           obj'.finalizer = obj.finalizer,
           \A n \in {"create", "destroy", "query"} :
              jobs'[n] = jobs[n] \/ (~Active(n) /\ jobs'[n].phase \notin {"running", "finished"}),
           dc' = dc \/ dc' = None \/ (dc # None /\ dc'.id = dc.id)
    PROVE  OwnedInv'
<1>o. /\ CopiesAgree /\ NothingYet /\ Approvals /\ StatusesGrow /\ CreatesBlindly
      /\ Identified /\ DestroyedForGood /\ Accounted
  BY Zenon DEF OwnedInv
<1>j. /\ Active("create")' = Active("create") /\ Active("destroy")' = Active("destroy")
      /\ Active("query")' = Active("query") /\ Creating' = Creating
      /\ jobs'["destroy"].phase = "running" => jobs["destroy"].phase = "running"
      /\ Done(jobs'["create"]) => jobs'["create"] = jobs["create"]
      /\ Done(jobs["create"]) => jobs'["create"] = jobs["create"]
      /\ Done(jobs'["destroy"]) => jobs'["destroy"] = jobs["destroy"]
      /\ Done(jobs'["query"]) => jobs'["query"] = jobs["query"]
  BY DEF Active, Creating, Done
<1>1. CopiesAgree'
  BY <1>o, Zenon DEF CopiesAgree
<1>2. NothingYet'
  BY <1>o, <1>j, Zenon DEF NothingYet
<1>3. Approvals' /\ StatusesGrow'
  BY <1>o, <1>j, Zenon DEF Approvals, StatusesGrow, Plausible
<1>4. dc = None => dc' = None
  BY Zenon
<1>5. \A kind : Told(kind)' => Told(kind)
  BY <1>j, Zenon DEF Told
<1>6. CreatesBlindly'
  BY <1>o, <1>j, <1>4, <1>5, Zenon DEF CreatesBlindly
<1>7. Identified' /\ DestroyedForGood'
  BY <1>o, <1>j, <1>4, <1>5, Zenon DEF Identified, DestroyedForGood, Told
<1>8. Doubts' = Doubts /\ Coming' = Coming
  BY Zenon DEF Doubts, Coming
<1>9. Accounted'
  BY <1>o, <1>j, <1>8, Zenon DEF Accounted
<1> QED BY <1>1, <1>2, <1>3, <1>6, <1>7, <1>9, Zenon DEF OwnedInv

\* The changes of the object and the pool that others make.
LEMMA OthersChange ==
    ASSUME TypeOK
    PROVE  /\ Edit => /\ obj'.exists = obj.exists /\ obj'.deleted = obj.deleted
                      /\ obj'.approved = obj.approved /\ obj'.finalizer = obj.finalizer
           /\ \A b \in BOOLEAN : Delete(b) /\ obj.finalizer =>
                /\ obj'.exists /\ obj'.deleted /\ obj'.approved = b /\ obj'.finalizer
           /\ PoolAppears => pool'.parent = IF pool.parent = "none" THEN "empty" ELSE "ready"
           /\ PoolStored => pool'.parent = pool.parent
           /\ Mark => pool'.parent = pool.parent /\ psys'.parent = psys.parent
           /\ RankOut => dc # None /\ dc' # None /\ dc'.id = dc.id
           /\ RankBack => dc' = dc \/ (dc # None /\ dc' # None /\ dc'.id = dc.id)
<1>t. /\ obj \in Objects /\ pool \in Pools /\ psys \in Pools /\ (dc # None => dc \in DaosContainers)
  BY TypeFacts, Zenon DEF TypeOK
<1>1. Edit => /\ obj'.exists = obj.exists /\ obj'.deleted = obj.deleted
              /\ obj'.approved = obj.approved /\ obj'.finalizer = obj.finalizer
  BY <1>t, Zenon DEF Edit, Objects
<1>2. \A b \in BOOLEAN : Delete(b) /\ obj.finalizer =>
                /\ obj'.exists /\ obj'.deleted /\ obj'.approved = b /\ obj'.finalizer
  BY <1>t, Zenon DEF Delete, Objects
<1>3. /\ PoolAppears => pool'.parent = IF pool.parent = "none" THEN "empty" ELSE "ready"
      /\ PoolStored => pool'.parent = pool.parent
      /\ Mark => pool'.parent = pool.parent /\ psys'.parent = psys.parent
  BY <1>t, Zenon DEF PoolAppears, PoolStored, Mark, Pools
<1>4. \A d \in DaosContainers :
        /\ [d EXCEPT !.unclean = TRUE] # None /\ [d EXCEPT !.unclean = TRUE].id = d.id
        /\ [d EXCEPT !.lost = TRUE] # None /\ [d EXCEPT !.lost = TRUE].id = d.id
  <2> SUFFICES ASSUME NEW d \in DaosContainers
               PROVE  /\ [d EXCEPT !.unclean = TRUE] # None /\ [d EXCEPT !.unclean = TRUE].id = d.id
                      /\ [d EXCEPT !.lost = TRUE] # None /\ [d EXCEPT !.lost = TRUE].id = d.id
    BY Zenon
  <2>1. [d EXCEPT !.unclean = TRUE] \in DaosContainers /\ [d EXCEPT !.lost = TRUE] \in DaosContainers
    BY Zenon DEF DaosContainers
  <2>2. [d EXCEPT !.unclean = TRUE].id = d.id /\ [d EXCEPT !.lost = TRUE].id = d.id
    BY Zenon DEF DaosContainers
  <2> QED BY <2>1, <2>2, NoneIsNoContainer, Zenon
<1>5. RankOut => dc # None /\ dc' # None /\ dc'.id = dc.id
  BY <1>t, <1>4, Zenon DEF RankOut
<1>6. RankBack => dc' = dc \/ (dc # None /\ dc' # None /\ dc'.id = dc.id)
  BY <1>t, <1>4, Zenon DEF RankBack
<1> QED BY <1>1, <1>2, <1>3, <1>5, <1>6, Zenon

\* An operation that ends makes a container where there was none, changes it, or
\* destroys it, and its Job says which.
LEMMA OpOutcome ==
    ASSUME TypeOK, NEW op \in Ops, OpFinishes(op)
    PROVE  /\ jobs[op].phase = "running" /\ jobs'[op].phase = "finished"
           /\ \A m \in Names : m # op => jobs'[m] = jobs[m]
           /\ op \in {"acl", "heal"} => made' = made /\ (dc' = dc \/ (dc # None /\ dc' # None /\ dc'.id = dc.id))
           /\ op = "destroy" =>
                /\ made' = made /\ dc' \in {dc, None}
                /\ jobs'[op].out.kind \in Destroyed => dc' = None \/ ~dpool
           /\ op = "create" =>
                \/ dc' = dc /\ made' = made /\ jobs'[op].out.kind # "ok"
                \/ /\ dc = None /\ dc' # None /\ dc'.id = made + 1 /\ made' = made + 1
                   /\ dpool
                   /\ jobs'[op].out.kind = "ok" => jobs'[op].out.id = made + 1
<1>t. /\ jobs \in [Names -> Job(Nat, Outs)] /\ op \in Names /\ (dc # None => dc \in DaosContainers)
      /\ made \in Nat /\ jobs[op] \in Job(Nat, Outs) /\ jobs[op].phase = "running"
  BY TypeFacts, Zenon DEF TypeOK, Names, OpFinishes
<1>e. PICK kind, id : /\ Ends(op, kind, id)
                      /\ \/ Works(op) /\ dc' = Effect(op, jobs[op].cmd) /\ kind = "ok" /\ id = IF op = "create" THEN made + 1 ELSE 0
                         \/ ~Works(op) /\ dc' = dc /\ kind = IF op = "create" THEN "error" ELSE "notfound"
                         \/ /\ kind = "error"
                            /\ dc' = dc \/ (Works(op) /\ dc' = Effect(op, jobs[op].cmd))
  <2>1. CASE /\ Works(op) /\ dc' = Effect(op, jobs[op].cmd)
             /\ Ends(op, "ok", IF op = "create" THEN made + 1 ELSE 0)
    BY <2>1, Zenon
  <2>2. CASE ~Works(op) /\ dc' = dc /\ Ends(op, IF op = "create" THEN "error" ELSE "notfound", 0)
    BY <2>2, Zenon
  <2>3. CASE /\ dc' \in {dc} \cup (IF Works(op) THEN {Effect(op, jobs[op].cmd)} ELSE {})
             /\ Ends(op, "error", 0)
    BY <2>3, Zenon
  <2> QED BY <2>1, <2>2, <2>3, Zenon DEF OpFinishes
<1>j. /\ jobs'[op].phase = "finished" /\ jobs'[op].out = [kind |-> kind, id |-> id]
      /\ \A m \in Names : m # op => jobs'[m] = jobs[m]
  <2>1. jobs'[op] = Finished(jobs[op], [kind |-> kind, id |-> id]) /\ \A m \in Names : m # op => jobs'[m] = jobs[m]
    BY <1>e, <1>t, Zenon DEF Ends
  <2>2. jobs[op] \in [phase : {"running"}, cmd : Nat, out : {None}]
    BY <1>t, Zenon DEF Job
  <2> QED BY <2>1, <2>2, Zenon DEF Finished
<1>k. jobs'[op].out.kind = kind /\ jobs'[op].out.id = id
  BY <1>j
<1>1. CASE op = "create"
  <2>1. Works(op) /\ dc' = Effect(op, jobs[op].cmd) =>
           dc = None /\ dc' # None /\ dc'.id = made + 1 /\ dpool
    <3> SUFFICES ASSUME Works(op), dc' = Effect(op, jobs[op].cmd)
                 PROVE  dc = None /\ dc' # None /\ dc'.id = made + 1 /\ dpool
      BY Zenon
    <3>1. dc = None /\ dpool
      BY <1>1, Zenon DEF Works
    <3>2. dc' = [id |-> made + 1, acl |-> jobs[op].cmd, unclean |-> FALSE, lost |-> FALSE]
      BY <1>1, Zenon DEF Effect
    <3>3. jobs[op].cmd \in Nat /\ made + 1 \in Nat
      BY <1>t DEF Job
    <3>4. dc' \in DaosContainers
      BY <3>2, <3>3 DEF DaosContainers
    <3>5. dc' # None
      BY <3>4, NoneIsNoContainer, Zenon
    <3>6. dc'.id = made + 1
      BY <3>2
    <3> QED BY <3>1, <3>5, <3>6, Zenon
  <2>2. made' = IF dc' # dc THEN made + 1 ELSE made
    BY <1>1, Zenon DEF OpFinishes
  <2>3. \/ dc' = dc /\ kind # "ok"
        \/ Works(op) /\ dc' = Effect(op, jobs[op].cmd) /\ (kind = "ok" => id = made + 1)
    BY <1>1, <1>e, Zenon
  <2> QED BY <1>1, <1>j, <1>k, <1>t, <2>1, <2>2, <2>3, Zenon
<1>2. CASE op # "create"
  <2>1. made' = made
    BY <1>2, Zenon DEF OpFinishes
  <2>2. Works(op) => dc # None
    BY <1>2, Zenon DEF Works
  <2>3. op \in {"acl", "heal"} /\ Works(op) =>
          Effect(op, jobs[op].cmd) # None /\ Effect(op, jobs[op].cmd).id = dc.id
    <3> SUFFICES ASSUME op \in {"acl", "heal"}, Works(op)
                 PROVE  Effect(op, jobs[op].cmd) # None /\ Effect(op, jobs[op].cmd).id = dc.id
      BY Zenon
    <3>1. dc \in DaosContainers /\ jobs[op].cmd \in Nat
      BY <1>t, <2>2, Zenon DEF Job
    <3>2. CASE op = "acl"
      BY <3>1, <3>2, ContainerTypes, NoneIsNoContainer DEF Effect, DaosContainers
    <3>3. CASE op = "heal"
      <4>1. Effect(op, jobs[op].cmd) = [dc EXCEPT !.unclean = FALSE]
        BY <3>3, Zenon DEF Effect
      <4>2. [dc EXCEPT !.unclean = FALSE] \in DaosContainers
        BY <3>1, Zenon DEF DaosContainers
      <4>3. [dc EXCEPT !.unclean = FALSE].id = dc.id
        BY <3>1, Zenon DEF DaosContainers
      <4> QED BY <4>1, <4>2, <4>3, NoneIsNoContainer, Zenon
    <3> QED BY <3>2, <3>3, Zenon
  <2>4. op = "destroy" => Effect(op, jobs[op].cmd) = None
    BY Zenon DEF Effect
  <2>5. op = "destroy" /\ ~Works(op) => dc = None \/ ~dpool
    BY Zenon DEF Works
  <2> QED BY <1>2, <1>e, <1>j, <1>k, <1>t, <2>1, <2>2, <2>3, <2>4, <2>5, Zenon DEF Destroyed
<1> QED BY <1>1, <1>2, Zenon

\* OwnedInv is kept by every step.
LEMMA OwnedStep == OwnedInv /\ [Next]_vars => OwnedInv'
<1> SUFFICES ASSUME OwnedInv, [Next]_vars PROVE OwnedInv'
  BY Zenon
<1> USE DEF memory, daos, bounds, operator, outside
<1>t. TypeOK /\ TypeOK'
  BY TypeStep, Zenon DEF OwnedInv
<1>o. /\ CopiesAgree /\ NothingYet /\ Approvals /\ StatusesGrow /\ CreatesBlindly
      /\ Identified /\ DestroyedForGood /\ Accounted
  BY Zenon DEF OwnedInv
<1>j. /\ jobs \in [Names -> Job(Nat, Outs)] /\ {"create", "acl", "heal", "destroy", "query"} = Names
      /\ made \in Nat /\ Doubts \in Nat
  <2>1. /\ jobs \in [Names -> Job(Nat, Outs)] /\ {"create", "acl", "heal", "destroy", "query"} = Names
        /\ made \in Nat /\ failed \in Nat
    BY <1>t, TypeFacts, OtherJobs, Zenon DEF TypeOK
  <2>2. setting.maxFaults \in Nat /\ faults \in 0..setting.maxFaults /\ gone \in 0..MaxChanges
    BY <1>t, TypeFacts, Zenon
  <2> HIDE DEF memory, daos, bounds, operator, outside
  <2>3. Doubts \in Nat
    BY <2>1, <2>2, DaosContainerAssumption DEF Doubts
  <2> QED BY <2>1, <2>3, Zenon
<1>1. CASE Operator \/ PassEnds
  BY <1>1, <1>t, OwnedPass, Zenon
<1>2. CASE Edit
  BY <1>2, <1>t, OthersChange, OwnedQuiet, Zenon DEF Edit
<1>3. CASE HoldExpires \/ WaitExpires \/ PoolQueryStarts \/ PoolQueryAnswers \/ RebuildDone \/ ModeSet
             \/ Outsider \/ UNCHANGED vars
  <2>1. /\ UNCHANGED <<st, wst, pc, sys, dpool, made, failed, faults, gone, asked, obj, jobs>>
        /\ dc' \in {dc, None}
    BY <1>3, Zenon DEF HoldExpires, WaitExpires, PoolQueryStarts, PoolQueryAnswers, RebuildDone, ModeSet, Outsider, vars
  <2> QED BY <1>t, <2>1, OwnedQuiet, Zenon
<1>4. CASE PoolStored
  BY <1>4, <1>t, OthersChange, OwnedQuiet, Zenon DEF PoolStored
<1>5. CASE QueryStarts
  BY <1>5, <1>t, OthersChange, OwnedQuiet, Zenon DEF QueryStarts
<1>6. CASE RankOut \/ RankBack
  BY <1>6, <1>t, OthersChange, OwnedQuiet, Zenon DEF RankOut, RankBack
<1>7. CASE JobsRemoved
  <2>1. \A n \in {"create", "destroy", "query"} :
              jobs'[n] = jobs[n] \/ (~Active(n) /\ jobs'[n].phase \notin {"running", "finished"})
    BY <1>7, <1>j, Zenon DEF JobsRemoved, NoJob, Active
  <2> QED BY <1>7, <1>t, <2>1, OwnedQuiet, Zenon DEF JobsRemoved
<1>8. ASSUME NEW b \in BOOLEAN, Delete(b) PROVE OwnedInv'
  <2>1. /\ UNCHANGED <<st, wst, pc, sys, psys, pool, jobs, dc, dpool, made, failed, faults, gone>>
        /\ asked' = (asked \/ b) /\ obj.exists
        /\ \/ obj.finalizer /\ obj'.exists /\ obj'.deleted /\ obj'.approved = b /\ obj'.finalizer
           \/ ~obj.finalizer /\ obj' = NoObj
    BY <1>8, <1>t, OthersChange, Zenon DEF Delete
  <2>2. CopiesAgree'
    BY <1>o, <2>1, Blanks, Zenon DEF CopiesAgree
  <2>3. NothingYet'
    BY <2>1, Blanks, Zenon DEF NothingYet
  <2>4. Approvals'
    BY <1>o, <2>1, Blanks, Zenon DEF Approvals
  <2>5. StatusesGrow' /\ CreatesBlindly' /\ Identified' /\ DestroyedForGood'
    <3>1. StatusesGrow'
      BY <1>o, <2>1, Zenon DEF StatusesGrow, Plausible
    <3>2. CreatesBlindly'
      BY <1>o, <2>1, Zenon DEF CreatesBlindly, Creating, Active, Told, Done
    <3>3. Identified' /\ DestroyedForGood'
      BY <1>o, <2>1, OthersChange, Zenon DEF Identified, DestroyedForGood, Active, Told, Done
    <3> QED BY <3>1, <3>2, <3>3, Zenon
  <2>6. Doubts' = Doubts /\ Coming' = Coming /\ Creating' = Creating
    BY <2>1, Zenon DEF Doubts, Coming, Creating
  <2>7. Accounted'
    BY <1>o, <2>1, <2>6, Zenon DEF Accounted
  <2> QED BY <1>t, <2>2, <2>3, <2>4, <2>5, <2>7, Zenon DEF OwnedInv
<1>9. CASE PoolAppears
  <2>1. /\ UNCHANGED <<st, wst, pc, sys, psys, obj, jobs, dc, made, failed, faults, gone, asked>>
        /\ dpool => dpool'
    BY <1>9, Zenon DEF PoolAppears
  <2>2. CopiesAgree' /\ NothingYet' /\ Approvals' /\ StatusesGrow'
    BY <1>o, <2>1, Zenon DEF CopiesAgree, NothingYet, Approvals, StatusesGrow, Plausible, Active
  <2>3. CreatesBlindly' /\ Identified' /\ DestroyedForGood'
    BY <1>o, <2>1, Zenon DEF CreatesBlindly, Identified, DestroyedForGood, Creating, Active, Told, Done
  <2>4. Doubts' = Doubts /\ Coming' = Coming /\ Creating' = Creating
    BY <2>1, Zenon DEF Doubts, Coming, Creating
  <2>5. Accounted'
    BY <1>o, <2>1, <2>4, Zenon DEF Accounted
  <2> QED BY <1>t, <2>2, <2>3, <2>5, Zenon DEF OwnedInv
<1>10. CASE PoolGoes
  <2>1. /\ UNCHANGED <<st, wst, pc, sys, psys, obj, made, failed, faults, asked>>
        /\ (dc' = dc /\ dpool') \/ dc' = None
        /\ gone' = gone + 1
        /\ \A n \in Names : jobs'[n].phase = "absent"
    BY <1>10, <1>j, Zenon DEF PoolGoes, NoJob
  <2>2. CopiesAgree' /\ Approvals' /\ StatusesGrow'
    BY <1>j, <1>o, <2>1, Zenon DEF CopiesAgree, Approvals, StatusesGrow, Plausible
  <2>3. NothingYet'
    BY <1>j, <1>o, <2>1, Zenon DEF NothingYet, Active
  <2>4. CreatesBlindly' /\ Identified' /\ DestroyedForGood'
    BY <1>j, <1>o, <2>1, Zenon DEF CreatesBlindly, Identified, DestroyedForGood, Creating, Active, Told, Done
  <2>5. Accounted'
    <3>1. ~Creating'
      BY <1>j, <2>1, Zenon DEF Creating
    <3>2. Doubts' = Doubts + 1
      <4>1. gone \in Nat /\ faults \in Nat /\ failed \in Nat
        BY <1>t, TypeFacts DEF TypeOK
      <4> QED BY <2>1, <4>1 DEF Doubts
    <3>3. made <= Doubts + 1 /\ made' = made
      BY <1>o, <2>1, Zenon DEF Accounted
    <3>4. made' <= Doubts' + 1 /\ made' # Doubts' + 1
      BY <1>j, <3>2, <3>3
    <3> QED BY <3>1, <3>4, Zenon DEF Accounted
  <2> QED BY <1>t, <2>2, <2>3, <2>4, <2>5, Zenon DEF OwnedInv
<1>11. CASE QueryFinishes
  <2>1. /\ UNCHANGED <<st, wst, pc, sys, obj, dc, dpool, made, failed, faults, gone, asked>>
        /\ jobs["query"].phase = "running"
    BY <1>11, <1>t, OthersChange, Zenon DEF QueryFinishes
  <2>2. PICK kind, id : /\ Ends("query", kind, id)
                        /\ kind = "missing" => dc = None
                        /\ kind = "found" => dc # None /\ id = dc.id
    <3>1. \/ dc = None /\ Ends("query", "missing", 0)
          \/ Ends("query", "rf", 0)
          \/ dc # None /\ Ends("query", "found", dc.id)
          \/ Ends("query", "error", 0)
      BY <1>11, Zenon DEF QueryFinishes
    <3>2. "missing" # "found" /\ "rf" \notin {"missing", "found"} /\ "error" \notin {"missing", "found"}
      BY Zenon
    <3> QED BY <3>1, <3>2, Zenon
  <2>3. /\ jobs'["create"] = jobs["create"] /\ jobs'["destroy"] = jobs["destroy"]
        /\ jobs'["query"] = Finished(jobs["query"], [kind |-> kind, id |-> id])
    BY <1>j, <2>2, Zenon DEF Ends
  <2>4. jobs["query"] \in Job(Nat, Outs)
    BY <1>j, Zenon
  <2>5. jobs["query"] \in [phase : {"running"}, cmd : Nat, out : {None}]
    BY <2>1, <2>4, Zenon DEF Job
  <2>6. jobs'["query"].phase = "finished" /\ jobs'["query"].out = [kind |-> kind, id |-> id]
    BY <2>3, <2>5, Zenon DEF Finished
  <2>7. jobs'["query"].out.kind = kind /\ jobs'["query"].out.id = id
    BY <2>6
  <2>8. CopiesAgree' /\ NothingYet' /\ Approvals' /\ StatusesGrow'
    BY <1>o, <2>1, <2>3, Zenon DEF CopiesAgree, NothingYet, Approvals, StatusesGrow, Plausible, Active
  <2>9. CreatesBlindly'
    BY <1>o, <2>1, <2>2, <2>3, <2>6, <2>7, Zenon DEF CreatesBlindly, Creating, Active, Told, Done
  <2>10. Identified' /\ DestroyedForGood'
    BY <1>o, <2>1, <2>2, <2>3, <2>6, <2>7, Zenon DEF Identified, DestroyedForGood, Active, Told, Done
  <2>11. Doubts' = Doubts /\ Coming' = Coming /\ Creating' = Creating
    BY <2>1, <2>3, Zenon DEF Doubts, Coming, Creating
  <2>12. Accounted'
    BY <1>o, <2>1, <2>3, <2>11, Zenon DEF Accounted
  <2> QED BY <1>t, <2>8, <2>9, <2>10, <2>12, Zenon DEF OwnedInv
<1>12. ASSUME NEW op \in Ops, OpFinishes(op) PROVE OwnedInv'
  <2>1. /\ UNCHANGED <<st, wst, pc, sys, psys, obj, pool, dpool, failed, faults, gone, asked>>
        /\ jobs[op].phase = "running" /\ jobs'[op].phase = "finished"
        /\ \A m \in Names : m # op => jobs'[m] = jobs[m]
    BY <1>12, <1>t, OpOutcome, Zenon DEF OpFinishes
  <2>2. CASE op \in {"acl", "heal"}
    BY <1>12, <1>j, <1>t, <2>1, <2>2, OpOutcome, OwnedQuiet, Zenon
  <2>3. CASE op = "destroy"
    <3>1. /\ made' = made /\ dc' \in {dc, None}
          /\ jobs'["destroy"].out.kind \in Destroyed => dc' = None \/ ~dpool
          /\ jobs'["create"] = jobs["create"] /\ jobs'["query"] = jobs["query"]
      BY <1>12, <1>j, <1>t, <2>1, <2>3, OpOutcome, Zenon
    <3>2. CopiesAgree' /\ NothingYet' /\ Approvals' /\ StatusesGrow'
      BY <1>o, <2>1, <2>3, <3>1, Zenon DEF CopiesAgree, NothingYet, Approvals, StatusesGrow, Plausible, Active
    <3>3. CreatesBlindly' /\ Identified'
      BY <1>o, <2>1, <3>1, Zenon DEF CreatesBlindly, Identified, Creating, Active, Told
    <3>4. DestroyedForGood'
      BY <1>o, <2>1, <2>3, <3>1, Zenon DEF DestroyedForGood, Identified, Active
    <3>5. Doubts' = Doubts /\ Coming' = Coming /\ Creating' = Creating
      BY <2>1, <3>1, Zenon DEF Doubts, Coming, Creating
    <3>6. Accounted'
      BY <1>o, <2>1, <3>1, <3>5, Zenon DEF Accounted
    <3> QED BY <1>t, <3>2, <3>3, <3>4, <3>6, Zenon DEF OwnedInv
  <2>4. CASE op = "create"
    <3>1. /\ jobs'["destroy"] = jobs["destroy"] /\ jobs'["query"] = jobs["query"] /\ Creating /\ ~Creating'
          /\ Active("create") /\ Active("create")' /\ Done(jobs'["create"])
      BY <1>j, <2>1, <2>4, Zenon DEF Creating, Active, Done
    <3>2. \/ dc' = dc /\ made' = made /\ jobs'["create"].out.kind # "ok"
          \/ /\ dc = None /\ dc' # None /\ dc'.id = made + 1 /\ made' = made + 1
             /\ dpool
             /\ jobs'["create"].out.kind = "ok" => jobs'["create"].out.id = made + 1
      BY <1>12, <1>t, <2>4, OpOutcome, Zenon
    <3>3. made + 1 # 0
      BY <1>j
    <3>4. CopiesAgree' /\ Approvals' /\ StatusesGrow'
      BY <1>o, <2>1, <3>1, Zenon DEF CopiesAgree, Approvals, StatusesGrow, Plausible
    <3>5. NothingYet'
      BY <1>o, <2>1, <3>1, Zenon DEF NothingYet
    <3>6. CreatesBlindly'
      BY <1>o, <2>1, <3>1, Zenon DEF CreatesBlindly, Told, Active
    <3>7. Identified'
      BY <1>o, <2>1, <3>1, <3>2, <3>3, Zenon DEF Identified, Told
    <3>8. DestroyedForGood'
      BY <1>o, <2>1, <3>1, Zenon DEF DestroyedForGood, CreatesBlindly, Active, Done
    <3>9. Doubts' = Doubts /\ Coming' = Coming
      BY <2>1, Zenon DEF Doubts, Coming
    <3>10. Accounted'
      <4>1. CASE made' = made
        BY <1>j, <1>o, <2>1, <3>1, <3>9, <4>1, Zenon DEF Accounted
      <4>2. CASE made' = made + 1
        <5>1. made <= Doubts /\ (obj.exists /\ made = Doubts => Coming.op = "create")
          BY <1>o, <3>1, <4>2, Zenon DEF Accounted
        <5>2. made' <= Doubts + 1 /\ (obj.exists /\ made' = Doubts + 1 => Coming.op = "create")
          BY <1>j, <4>2, <5>1
        <5> QED BY <2>1, <3>1, <3>9, <5>2, Zenon DEF Accounted
      <4> QED BY <3>2, <4>1, <4>2, Zenon
    <3> QED BY <1>t, <3>4, <3>5, <3>6, <3>7, <3>8, <3>10, Zenon DEF OwnedInv
  <2> QED BY <2>2, <2>3, <2>4, Zenon DEF Ops
<1> QED
  BY <1>1, <1>2, <1>3, <1>4, <1>5, <1>6, <1>7, <1>8, <1>9, <1>10, <1>11, <1>12, Zenon
     DEF Next, Human, PoolController, Cluster, Daos

\* What OwnedData sees stays as it is.
LEMMA Unseen ==
    ASSUME obj'.exists = obj.exists, obj'.deleted = obj.deleted,
           dc' = dc \/ (dc # None /\ dc' # None /\ dc'.id = dc.id),
           UNCHANGED <<made, faults, failed, gone, asked, outs>>, pool'.parent = pool.parent
    PROVE  UNCHANGED Owned!vars
  BY Zenon DEF Owned!vars

\* What a pass does to the object, and to what else OwnedData sees: nothing, a
\* doubt, or the end of an object that owes nothing.
LEMMA PassSeen ==
    ASSUME OwnedInv, Operator \/ PassEnds
    PROVE  /\ UNCHANGED <<dc, made, asked, outs, gone, pool>>
           /\ \/ /\ obj'.exists = obj.exists /\ obj'.deleted = obj.deleted
                 /\ \/ faults' = faults /\ failed' \in {failed, failed + 1}
                    \/ faults' = faults + 1 /\ failed' = failed
              \/ /\ obj.exists /\ obj.deleted /\ ~obj'.exists /\ UNCHANGED <<faults, failed>>
                 /\ ~(obj.approved /\ st.uuid # 0 /\ pool.parent = "ready" /\ psys.parent = "ready")
                      \/ dc = None
<1> USE DEF outside, daos, bounds
<1>t. obj \in Objects /\ CopiesAgree /\ DestroyedForGood
  BY TypeFacts, Zenon DEF OwnedInv
<1>1. CASE BeginPass \/ PoolNotReady \/ Poll \/ Held \/ Probing \/ QueryFails \/ Missing \/ Found
             \/ RfExceeded \/ DestroyHeld \/ DestroyWait \/ UpdateStatus
  BY <1>1, Zenon DEF BeginPass, PoolNotReady, Poll, Held, Probing, QueryFails, Missing, Found, Collect,
              RfExceeded, DestroyHeld, DestroyWait, UpdateStatus
<1>2. CASE AddFinalizer
  <2>1. obj' = obj \/ obj' = [obj EXCEPT !.finalizer = TRUE]
    BY <1>2, Zenon DEF AddFinalizer
  <2>2. obj'.exists = obj.exists /\ obj'.deleted = obj.deleted
    BY <1>t, <2>1, FinalizerAdded, Zenon
  <2> QED BY <1>2, <2>2, Zenon DEF AddFinalizer
<1>3. CASE PollDone
  BY <1>3, Zenon DEF PollDone
<1>4. CASE PassEnds
  BY <1>4, Zenon DEF PassEnds
<1>5. CASE NoParent
  BY <1>5, <1>t, Blanks, Zenon DEF NoParent, RemoveFinalizer, CopiesAgree
<1>6. CASE Released
  BY <1>6, <1>t, Blanks, Zenon DEF Released, RemoveFinalizer, Finalizing, Destroyable, CopiesAgree
<1>7. CASE DestroyDone
  BY <1>7, <1>t, Blanks, Zenon DEF DestroyDone, Finalizing, CopiesAgree, DestroyedForGood
<1> QED BY <1>1, <1>2, <1>3, <1>4, <1>5, <1>6, <1>7, Zenon DEF Operator, Reconcile

\* Every step is one of OwnedData, or changes nothing OwnedData sees.
LEMMA OwnedRefined == OwnedInv /\ [Next]_vars => [Owned!Next]_(Owned!vars)
<1> SUFFICES ASSUME OwnedInv, [Next]_vars PROVE [Owned!Next]_(Owned!vars)
  BY Zenon
<1> USE DEF memory, daos, bounds, operator, outside
<1>t. TypeOK /\ CopiesAgree /\ NothingYet /\ Approvals /\ Accounted
  BY Zenon DEF OwnedInv
<1>n. made \in Nat /\ failed \in Nat /\ faults \in Nat /\ gone \in Nat /\ outs \in Nat /\ asked \in BOOLEAN
  BY <1>t, TypeFacts DEF TypeOK
<1>1. CASE Operator \/ PassEnds
  <2>1. /\ UNCHANGED <<dc, made, asked, outs, gone, pool>>
        /\ \/ /\ obj'.exists = obj.exists /\ obj'.deleted = obj.deleted
              /\ \/ faults' = faults /\ failed' \in {failed, failed + 1}
                 \/ faults' = faults + 1 /\ failed' = failed
           \/ /\ obj.exists /\ obj.deleted /\ ~obj'.exists /\ UNCHANGED <<faults, failed>>
              /\ ~(obj.approved /\ st.uuid # 0 /\ pool.parent = "ready" /\ psys.parent = "ready")
                   \/ dc = None
    BY <1>1, PassSeen, Zenon
  <2>2. CASE obj'.exists = obj.exists /\ obj'.deleted = obj.deleted /\ faults' = faults /\ failed' = failed
    BY <2>1, <2>2, Unseen, Zenon
  <2>3. CASE /\ obj'.exists = obj.exists /\ obj'.deleted = obj.deleted
             /\ \/ faults' = faults /\ failed' = failed + 1
                \/ faults' = faults + 1 /\ failed' = failed
    <3>1. faults' + failed' + gone' = faults + failed + gone + 1
      BY <1>n, <2>1, <2>3
    <3>2. Owned!Doubt
      BY <2>1, <2>3, <3>1, Zenon DEF Owned!Doubt
    <3> QED BY <3>2, Zenon DEF Owned!Next
  <2>4. CASE obj.exists /\ obj.deleted /\ ~obj'.exists /\ UNCHANGED <<faults, failed>>
    <3>1. Owned!Release
      BY <2>1, <2>4, Zenon DEF Owned!Release
    <3> QED BY <3>1, Zenon DEF Owned!Next
  <2> QED BY <2>1, <2>2, <2>3, <2>4, Zenon
<1>2. CASE Edit \/ HoldExpires \/ WaitExpires \/ PoolQueryStarts \/ PoolQueryAnswers \/ PoolStored
             \/ QueryStarts \/ QueryFinishes \/ JobsRemoved \/ RankBack \/ RebuildDone \/ ModeSet
             \/ UNCHANGED vars
  <2>1. UNCHANGED <<made, faults, failed, gone, asked, outs>>
    BY <1>2, Zenon DEF Edit, HoldExpires, WaitExpires, PoolQueryStarts, PoolQueryAnswers, PoolStored,
                QueryStarts, QueryFinishes, JobsRemoved, RankBack, RebuildDone, ModeSet, vars
  <2>2. obj'.exists = obj.exists /\ obj'.deleted = obj.deleted
    BY <1>2, <1>t, OthersChange, Zenon
       DEF Edit, HoldExpires, WaitExpires, PoolQueryStarts, PoolQueryAnswers, PoolStored,
           QueryStarts, QueryFinishes, JobsRemoved, RankBack, RebuildDone, ModeSet, vars
  <2>3. pool'.parent = pool.parent
    BY <1>2, <1>t, OthersChange, Zenon
       DEF Edit, HoldExpires, WaitExpires, PoolQueryStarts, PoolQueryAnswers, PoolStored,
           QueryStarts, QueryFinishes, JobsRemoved, RankBack, RebuildDone, ModeSet, vars
  <2>4. dc' = dc \/ (dc # None /\ dc' # None /\ dc'.id = dc.id)
    BY <1>2, <1>t, OthersChange, Zenon
       DEF Edit, HoldExpires, WaitExpires, PoolQueryStarts, PoolQueryAnswers, PoolStored,
           QueryStarts, QueryFinishes, JobsRemoved, RebuildDone, ModeSet, vars
  <2> QED BY <2>1, <2>2, <2>3, <2>4, Unseen, Zenon
<1>3. ASSUME NEW b \in BOOLEAN, Delete(b) PROVE [Owned!Next]_(Owned!vars)
  <2>1. /\ UNCHANGED <<dc, made, failed, faults, gone, outs, pool>> /\ asked' \in {asked, TRUE}
        /\ obj.exists /\ ~obj.deleted
    BY <1>3, <1>n, Zenon DEF Delete
  <2>2. \/ obj'.exists /\ obj'.deleted
        \/ ~obj'.exists /\ made = 0
    BY <1>3, <1>t, <2>1, OthersChange, Blanks, Zenon DEF Delete, NothingYet
  <2>3. Owned!Delete
    BY <2>1, <2>2, Zenon DEF Owned!Delete
  <2> QED BY <2>3, Zenon DEF Owned!Next
<1>4. CASE PoolAppears \/ PoolGoes \/ RankOut \/ Outsider
  <2>1. UNCHANGED <<obj, made, faults, failed, asked>> /\ gone' \in {gone, gone + 1}
    BY <1>4, Zenon DEF PoolAppears, PoolGoes, RankOut, Outsider
  <2>2. dc' \in {dc, None} \/ (dc # None /\ dc' # None /\ dc'.id = dc.id)
    BY <1>4, <1>t, OthersChange, Zenon DEF PoolAppears, PoolGoes, Outsider
  <2>3. outs' # outs \/ pool'.parent # pool.parent
    <3>1. CASE PoolGoes
      BY <3>1, Zenon DEF PoolGoes, NoPool
    <3>2. CASE PoolAppears
      <4>1. pool'.parent = IF pool.parent = "none" THEN "empty" ELSE "ready"
        BY <1>t, <3>2, OthersChange, Zenon
      <4>2. pool.parent # "ready"
        BY <3>2, Zenon DEF PoolAppears
      <4> QED BY <4>1, <4>2
    <3>3. CASE RankOut \/ Outsider
      BY <1>n, <3>3 DEF RankOut, Outsider
    <3> QED BY <1>4, <3>1, <3>2, <3>3, Zenon
  <2>4. <<outs', pool'.parent>> # <<outs, pool.parent>>
    BY <2>3, Zenon
  <2>5. faults' + failed' + gone' \in {faults + failed + gone, faults + failed + gone + 1}
    <3>1. CASE gone' = gone
      BY <2>1, <3>1, Zenon
    <3>2. CASE gone' = gone + 1
      <4>1. faults' + failed' + gone' = faults + failed + gone + 1
        BY <1>n, <2>1, <3>2
      <4> QED BY <4>1, Zenon
    <3> QED BY <2>1, <3>1, <3>2, Zenon
  <2>6. Owned!SomeoneElse
    BY <2>1, <2>2, <2>4, <2>5, Zenon DEF Owned!SomeoneElse
  <2> QED BY <2>6, Zenon DEF Owned!Next
<1>5. ASSUME NEW op \in Ops, OpFinishes(op) PROVE [Owned!Next]_(Owned!vars)
  <2>1. UNCHANGED <<obj, pool, faults, failed, gone, asked, outs>>
    BY <1>5, Zenon DEF OpFinishes
  <2>2. CASE op \in {"acl", "heal"}
    BY <1>5, <1>t, <2>1, <2>2, OpOutcome, Unseen, Zenon
  <2>3. CASE op = "destroy"
    <3>1. dc' \in {dc, None} /\ made' = made /\ jobs["destroy"].phase = "running"
      BY <1>5, <1>t, <2>3, OpOutcome, Zenon
    <3>2. asked
      BY <1>t, <3>1, Zenon DEF Approvals
    <3>3. CASE dc' = dc
      BY <2>1, <3>1, <3>3, Unseen, Zenon
    <3>4. CASE dc' = None
      <4>1. Owned!Destroy
        BY <2>1, <3>1, <3>2, <3>4, Zenon DEF Owned!Destroy
      <4> QED BY <4>1, Zenon DEF Owned!Next
    <3> QED BY <3>1, <3>3, <3>4, Zenon
  <2>4. CASE op = "create"
    <3>1. \/ dc' = dc /\ made' = made
          \/ /\ dc = None /\ dc' # None /\ dc'.id = made + 1 /\ made' = made + 1
      BY <1>5, <1>t, <2>4, OpOutcome, Zenon
    <3>2. CASE dc' = dc /\ made' = made
      BY <2>1, <3>2, Unseen, Zenon
    <3>3. CASE /\ dc = None /\ dc' # None /\ dc'.id = made + 1 /\ made' = made + 1
      <4>1. Creating
        BY <1>5, <2>4, Zenon DEF OpFinishes, Creating
      <4>2. made <= faults + failed + gone
        BY <1>t, <3>3, <4>1, Zenon DEF Accounted, Doubts
      <4>3. Owned!Make
        BY <2>1, <3>3, <4>2, Zenon DEF Owned!Make
      <4> QED BY <4>3, Zenon DEF Owned!Next
    <3> QED BY <3>1, <3>2, <3>3, Zenon
  <2> QED BY <2>2, <2>3, <2>4, Zenon DEF Ops
<1> QED
  BY <1>1, <1>2, <1>3, <1>4, <1>5, Zenon DEF Next, Human, PoolController, Cluster, Daos

\* A new object owns nothing, in both specifications.
LEMMA OwnedInit == Init => OwnedInv /\ Owned!Init
<1> SUFFICES ASSUME Init PROVE OwnedInv /\ Owned!Init
  BY Zenon
<1>1. TypeOK
  BY InitType, Zenon
<1>2. /\ obj.exists /\ ~obj.deleted /\ ~obj.approved /\ ~obj.finalizer
      /\ st = NoStatus /\ wst = NoStatus /\ pc = "idle" /\ sys = NoObj /\ psys = NoPool
      /\ dc = None /\ made = 0 /\ failed = 0 /\ faults = 0 /\ gone = 0 /\ asked = FALSE
  BY Zenon DEF Init, NoObj
<1>3. \A n \in {"create", "destroy", "query"} : jobs[n].phase = "absent"
  BY Zenon DEF Init, Ops, NoJob
<1>4. CopiesAgree /\ NothingYet /\ Approvals /\ StatusesGrow
  BY <1>2, <1>3, Blanks, Zenon DEF CopiesAgree, NothingYet, Approvals, StatusesGrow, Plausible, Active
<1>5. CreatesBlindly /\ Identified /\ DestroyedForGood
  BY <1>2, <1>3, Blanks, Zenon DEF CreatesBlindly, Identified, DestroyedForGood, Creating, Active, Told, Done
<1>6. Accounted
  BY <1>2, <1>3 DEF Accounted, Creating, Doubts
<1>7. Owned!Init
  BY <1>2 DEF Owned!Init
<1> QED BY <1>1, <1>4, <1>5, <1>6, <1>7, Zenon DEF OwnedInv

\* Reconcile, ContainerMissing (daoscontainer_controller.go:308-312), finalize and
\* releaseOrphan (235-238): with any bounds on faults and changes, a DaosContainer
\* makes a second container only after a create whose outcome was in doubt (it
\* failed, the pass was cut short, or its Job went with the DaosPool),
\* destroys one only on approval, and does not go before a container it owes.
THEOREM OwnsSafely == Spec => OwnsItsContainer
<1>1. Init => OwnedInv /\ Owned!Init
  BY OwnedInit, Zenon
<1>2. OwnedInv /\ [Next]_vars => OwnedInv'
  BY OwnedStep, Zenon
<1>3. OwnedInv /\ [Next]_vars => [Owned!Next]_(Owned!vars)
  BY OwnedRefined, Zenon
<1> QED BY <1>1, <1>2, <1>3, PTL DEF Spec, OwnsItsContainer, Owned!Safety
=============================================================================
