--------------------------- MODULE DaosPool_proofs ---------------------------
(***************************************************************************)
(* Proofs about DaosPool, for any bounds on edits and troubles, any choice *)
(* of pinned properties and of human manners, with or without deletions.   *)
(***************************************************************************)
EXTENDS DaosPool, TLAPS

USE DaosPoolAssumption

Names == Ops \cup {"query"}
Specs == [ranks : Nat, acl : Nat]
Jobs  == [Names -> Job(Specs, Outs)]

\* What Run leaves behind is a Job value again.
LEMMA AfterRunType ==
    ASSUME NEW C, NEW O, NEW j \in Job(C, O), NEW c \in C
    PROVE  AfterRun(j, c) \in Job(C, O)
  BY Zenon DEF Job, AfterRun, Running, Deleting, Done

\* A running Job that ends with an output is a finished Job value.
LEMMA FinishedType ==
    ASSUME NEW C, NEW O, NEW j \in Job(C, O), j.phase = "running", NEW o \in O
    PROVE  /\ Finished(j, o) \in Job(C, O) /\ j.cmd \in C
           /\ Finished(j, o).phase = "finished" /\ Finished(j, o).out = o
           /\ Finished(j, o).cmd = j.cmd
<1>1. j \in [phase : {"running"}, cmd : C, out : {None}]
  BY Zenon DEF Job
<1>2. Finished(j, o) \in [phase : {"finished"}, cmd : C, out : O]
  BY <1>1, Zenon DEF Finished
<1> QED BY <1>1, <1>2, Zenon DEF Job, Finished

\* The values between passes, and the Job that is not there, are well typed.
LEMMA BlankTypes ==
    /\ NoObj \in Objects /\ NoStatus \in Statuses /\ \A C, O : NoJob \in Job(C, O)
<1>1. NoObj \in Objects
  BY Zenon DEF NoObj, Objects
<1>2. NoStatus \in Statuses
  BY DEF NoStatus, Statuses, DestroyStallAfter
<1> QED BY <1>1, <1>2, Zenon DEF NoJob, Job

\* The changes of an object give an object.
LEMMA ObjectTypes ==
    ASSUME NEW o \in Objects, NEW b \in BOOLEAN
    PROVE  /\ [o EXCEPT !.finalizer = TRUE] \in Objects
           /\ [o EXCEPT !.deleted = TRUE, !.approved = b] \in Objects
           /\ [o EXCEPT !.approved = b] \in Objects
           /\ [o EXCEPT !.gen = @ + 1, !.ranks = @ + 1] \in Objects
           /\ [o EXCEPT !.gen = @ + 1, !.acl = @ + 1] \in Objects
           /\ SpecOf(o) \in Specs
<1>1. [o EXCEPT !.finalizer = TRUE] \in Objects
  BY Zenon DEF Objects
<1>2. [o EXCEPT !.deleted = TRUE, !.approved = b] \in Objects /\ [o EXCEPT !.approved = b] \in Objects
  BY Zenon DEF Objects
<1>3. [o EXCEPT !.gen = @ + 1, !.ranks = @ + 1] \in Objects
  <2>1. o.gen + 1 \in Nat /\ o.ranks + 1 \in Nat
    BY DEF Objects
  <2>2. \A m, n \in Nat : [o EXCEPT !.gen = m, !.ranks = n] \in Objects
    BY Zenon DEF Objects
  <2> QED BY <2>1, <2>2, Zenon
<1>4. [o EXCEPT !.gen = @ + 1, !.acl = @ + 1] \in Objects
  <2>1. o.gen + 1 \in Nat /\ o.acl + 1 \in Nat
    BY DEF Objects
  <2>2. \A m, n \in Nat : [o EXCEPT !.gen = m, !.acl = n] \in Objects
    BY Zenon DEF Objects
  <2> QED BY <2>1, <2>2, Zenon
<1>5. SpecOf(o) \in Specs
  BY Zenon DEF SpecOf, Objects, Specs
<1> QED BY <1>1, <1>2, <1>3, <1>4, <1>5, Zenon

\* The statuses a pass builds without looking at an answer.
LEMMA StatusTypes ==
    ASSUME NEW s \in Statuses, NEW op \in Ops \cup {None}, NEW r \in Ops \cup {"other"}, NEW n \in Nat
    PROVE  /\ [s EXCEPT !.reason = r] \in Statuses
           /\ [s EXCEPT !.op = op, !.reason = r] \in Statuses
           /\ [s EXCEPT !.op = op, !.obs = n, !.reason = r] \in Statuses
  BY Zenon DEF Statuses

\* The status after a destroy that failed.
LEMMA StallType ==
    ASSUME NEW s \in Statuses
    PROVE  [s EXCEPT !.op = None, !.reason = "destroy",
                     !.attempts = IF @ < DestroyStallAfter THEN @ + 1 ELSE @] \in Statuses
<1>1. (IF s.attempts < DestroyStallAfter THEN s.attempts + 1 ELSE s.attempts) \in 0..DestroyStallAfter
  BY DEF Statuses, DestroyStallAfter
<1>2. \A a \in 0..DestroyStallAfter :
        [s EXCEPT !.op = None, !.reason = "destroy", !.attempts = a] \in Statuses
  BY Zenon DEF Statuses, Ops
<1> QED BY <1>1, <1>2, Zenon

\* TypeOK, and that a create which succeeded tells which pool it made.
TypeInv ==
    /\ TypeOK
    /\ Done(jobs["create"]) /\ jobs["create"].out.kind = "ok" => jobs["create"].out.pool \in DaosPools

\* What the parts of TypeOK say one by one.
LEMMA TypeFacts ==
    ASSUME TypeOK
    PROVE  /\ obj \in Objects /\ sys \in Objects /\ st \in Statuses /\ old \in Statuses /\ wst \in Statuses
           /\ hold \in BOOLEAN /\ asked \in BOOLEAN /\ setting.patient \in BOOLEAN
           /\ jobs \in Jobs /\ dp \in DaosPools \cup {None}
           /\ sys.gen \in Nat /\ sys.acl \in Nat /\ SpecOf(sys) \in Specs
           /\ made \in Nat /\ unsure \in Nat
           /\ edits \in 0..MaxEdits /\ faults \in 0..MaxTroubles /\ stale \in 0..MaxTroubles
           /\ errors \in 0..MaxTroubles /\ drifts \in 0..MaxTroubles
           /\ wst.op \in Ops \cup {None} /\ Pinned \in SUBSET Props
<1>1. SpecOf(sys) \in Specs
  BY ObjectTypes, Zenon DEF TypeOK
<1>2. setting \in [pinned : SUBSET Props, patient : BOOLEAN]
  BY Zenon DEF TypeOK
<1>3. setting.patient \in BOOLEAN /\ Pinned \in SUBSET Props
  BY <1>2, Zenon DEF Pinned
<1>4. wst.op \in Ops \cup {None}
  BY Zenon DEF TypeOK, Statuses
<1> QED BY <1>1, <1>3, <1>4, Zenon DEF TypeOK, Names, Objects, Jobs, Specs

\* While there is room for one more trouble, every kind of it may grow.
LEMMA TroubleFits ==
    ASSUME TypeOK, Trouble
    PROVE  /\ faults + 1 \in 0..MaxTroubles /\ stale + 1 \in 0..MaxTroubles
           /\ errors + 1 \in 0..MaxTroubles /\ drifts + 1 \in 0..MaxTroubles
<1>1. /\ faults \in Nat /\ stale \in Nat /\ errors \in Nat /\ drifts \in Nat /\ edits \in Nat
      /\ MaxTroubles \in Nat
  BY TypeFacts
<1>2. Hurried \in Nat
  BY <1>1, Zenon DEF Hurried
<1>3. faults + stale + errors + drifts + Hurried < MaxTroubles
  BY Zenon DEF Trouble
<1> QED BY <1>1, <1>2, <1>3

\* Run, on one Job or with the query, leaves Jobs.
LEMMA JobsType ==
    ASSUME TypeOK
    PROVE  /\ \A op \in Names : RunJob(op) =>
                /\ jobs' \in Jobs /\ jobs'[op] = AfterRun(jobs[op], SpecOf(sys))
                /\ \A m \in Names : m # op => jobs'[m] = jobs[m]
           /\ \A s, op : Collect(s, op) =>
                /\ jobs' \in Jobs
                /\ \A m \in Names : jobs'[m] = IF m \in {"query", op} THEN AfterRun(jobs[m], SpecOf(sys)) ELSE jobs[m]
           /\ \A op \in Names : Done(jobs[op]) => jobs[op].out \in Outs
           /\ LetGo => /\ jobs' \in Jobs
                       /\ \A m \in Names : jobs'[m] = IF jobs[m].phase = "running" THEN jobs[m] ELSE NoJob
           /\ {"create", "extend", "acl", "reintmode", "selfheal", "destroy", "query"} = Names
<1>1. jobs \in Jobs /\ SpecOf(sys) \in Specs
  BY TypeFacts, Zenon
<1>2. \A op \in Names : AfterRun(jobs[op], SpecOf(sys)) \in Job(Specs, Outs)
  BY <1>1, AfterRunType, Zenon DEF Jobs
<1>3. \A op \in Names : Done(jobs[op]) => jobs[op].out \in Outs
  BY <1>1, Zenon DEF Job, Done, Jobs
<1>4. {"create", "extend", "acl", "reintmode", "selfheal", "destroy", "query"} = Names
  BY Zenon DEF Names, Ops
<1>5. \A op \in Names : RunJob(op) =>
        /\ jobs' \in Jobs /\ jobs'[op] = AfterRun(jobs[op], SpecOf(sys))
        /\ \A m \in Names : m # op => jobs'[m] = jobs[m]
  BY <1>1, <1>2, Zenon DEF RunJob, Jobs
<1>6. \A s, op : Collect(s, op) =>
        /\ jobs' \in Jobs
        /\ \A m \in Names : jobs'[m] = IF m \in {"query", op} THEN AfterRun(jobs[m], SpecOf(sys)) ELSE jobs[m]
  BY <1>1, <1>2, Zenon DEF Collect, Jobs
<1>7. LetGo => /\ jobs' \in Jobs
               /\ \A m \in Names : jobs'[m] = IF jobs[m].phase = "running" THEN jobs[m] ELSE NoJob
  BY <1>1, BlankTypes DEF LetGo, Jobs
<1> QED BY <1>3, <1>4, <1>5, <1>6, <1>7, Zenon

\* What Return and Store leave of the pass.
LEMMA ReturnType ==
    ASSUME TypeOK
    PROVE  /\ Return => sys' \in Objects /\ wst' \in Statuses /\ pc' = "idle"
           /\ \A s \in Statuses : Store(s) => sys' \in Objects /\ wst' \in Statuses /\ pc' = "update"
  BY BlankTypes, Zenon DEF Return, Store, TypeOK

\* A pass leaves well-typed state when what it writes is well typed.
LEMMA PassType ==
    ASSUME TypeOK, UNCHANGED <<setting, system, dp, made, asked, edits, errors, drifts>>,
           obj' \in Objects, st' \in Statuses, old' \in Statuses, sys' \in Objects, wst' \in Statuses,
           pc' \in {"idle", "go", "update"}, hold' \in BOOLEAN,
           jobs' \in Jobs, failed' \subseteq (Ops \X Nat), unsure' \in Nat,
           faults' \in 0..MaxTroubles, stale' \in 0..MaxTroubles
    PROVE  TypeOK'
  BY Zenon DEF TypeOK, Names, Jobs, Specs

\* The pool a query found, and the status that takes it over.
LEMMA QueriedType ==
    ASSUME TypeOK, Answered(Full \cup Health)
    PROVE  /\ jobs["query"].out.pool \in DaosPools
           /\ Queried(jobs["query"].out) \in Statuses
           /\ Queried(jobs["query"].out).op = wst.op
           /\ Queried(jobs["query"].out).uuid = jobs["query"].out.pool.id
           /\ Queried(jobs["query"].out).acl = wst.acl
<1>1. jobs["query"].out \in Outs /\ jobs["query"].out.kind \in Full \cup Health
  BY JobsType, Zenon DEF Answered
<1>2. jobs["query"].out.pool \in DaosPools
  BY <1>1, Zenon DEF Outs, Full, Health
<1>3. \A p \in DaosPools : p.id \in Nat /\ p.ranks \in Nat
  BY Zenon DEF DaosPools
<1>4. wst \in Statuses /\ wst.off \in SUBSET Props /\ setting \in Settings
  BY TypeFacts, Zenon DEF Statuses, TypeOK
<1>5. Pinned \in SUBSET Props
  BY <1>4, DaosPoolAssumption, Zenon DEF Pinned
<1> DEFINE q == jobs["query"].out.pool
           S == IF jobs["query"].out.kind \in {"pool", "health"} THEN Pinned \ q.props ELSE wst.off
<1>6. q.id \in Nat /\ q.ranks \in Nat /\ S \in SUBSET Props
  BY <1>2, <1>3, <1>4, <1>5, Zenon
<1>7. Queried(jobs["query"].out) = [wst EXCEPT !.uuid = q.id, !.ranks = q.ranks, !.off = S]
  BY Zenon DEF Queried
<1> HIDE DEF q, S
<1>8. LET r == [wst EXCEPT !.uuid = q.id, !.ranks = q.ranks, !.off = S]
      IN  r \in Statuses /\ r.op = wst.op /\ r.uuid = q.id /\ r.acl = wst.acl
  BY <1>4, <1>6, Zenon DEF Statuses
<1> QED BY <1>2, <1>7, <1>8, Zenon DEF q

\* The status after an operation that succeeded.
LEMMA AppliedType ==
    ASSUME TypeInv, wst.op # None, Done(jobs[wst.op]), jobs[wst.op].out.kind = "ok"
    PROVE  LET s == Applied(wst.op, jobs[wst.op].out.pool)
           IN  /\ s \in Statuses /\ s.op = None
               /\ s.uuid = IF wst.op = "create" THEN jobs["create"].out.pool.id ELSE wst.uuid
               /\ s.acl = IF wst.op \in {"create", "acl"} THEN sys.acl ELSE wst.acl
<1>t. wst \in Statuses /\ wst.op \in Ops /\ sys.gen \in Nat /\ sys.acl \in Nat
  BY TypeFacts, Zenon DEF TypeInv
<1> DEFINE done == [wst EXCEPT !.op = None, !.obs = sys.gen, !.reason = "other"]
<1>d. done \in Statuses /\ done.op = None /\ done.uuid = wst.uuid /\ done.acl = wst.acl
  BY <1>t, Zenon DEF Statuses
<1>a. Applied(wst.op, jobs[wst.op].out.pool) =
        CASE wst.op = "create" -> [done EXCEPT !.uuid = jobs[wst.op].out.pool.id,
                                               !.ranks = jobs[wst.op].out.pool.ranks, !.acl = sys.acl,
                                               !.off = @ \ {"reintmode"}]
          [] wst.op = "acl" -> [done EXCEPT !.acl = sys.acl]
          [] wst.op \in {"reintmode", "selfheal"} -> [done EXCEPT !.off = @ \ {wst.op}]
          [] OTHER -> done
  BY Zenon DEF Applied
<1> HIDE DEF done
<1>p. done.off \in SUBSET Props
  BY <1>d, Zenon DEF Statuses
<1>1. CASE wst.op = "create"
  <2>1. jobs["create"].out.pool \in DaosPools
    BY <1>1, Zenon DEF TypeInv
  <2>2. jobs["create"].out.pool.id \in Nat /\ jobs["create"].out.pool.ranks \in Nat
    BY <2>1, Zenon DEF DaosPools
  <2>3. done.off \ {"reintmode"} \in SUBSET Props
    BY <1>p, Zenon DEF Props
  <2> DEFINE q == jobs["create"].out.pool
             S == done.off \ {"reintmode"}
             r == [done EXCEPT !.uuid = q.id, !.ranks = q.ranks, !.acl = sys.acl, !.off = S]
  <2>4. Applied(wst.op, jobs[wst.op].out.pool) = r
    BY <1>1, <1>a, Zenon
  <2>5. q.id \in Nat /\ q.ranks \in Nat /\ S \in SUBSET Props
    BY <2>2, <2>3, Zenon
  <2> HIDE DEF q, S
  <2>6. r \in Statuses /\ r.op = done.op /\ r.uuid = q.id /\ r.acl = sys.acl
    BY <1>d, <1>t, <2>5, Zenon DEF Statuses
  <2> HIDE DEF r
  <2> QED BY <1>1, <1>d, <2>4, <2>6, Zenon DEF q
<1>2. CASE wst.op = "acl"
  <2>1. /\ [done EXCEPT !.acl = sys.acl] \in Statuses /\ [done EXCEPT !.acl = sys.acl].op = done.op
        /\ [done EXCEPT !.acl = sys.acl].uuid = done.uuid /\ [done EXCEPT !.acl = sys.acl].acl = sys.acl
    BY <1>d, <1>t, Zenon DEF Statuses
  <2> QED BY <1>2, <1>a, <1>d, <2>1, Zenon
<1>3. CASE wst.op \in {"reintmode", "selfheal"}
  <2>1. done.off \ {wst.op} \in SUBSET Props
    BY <1>3, <1>p, Zenon DEF Props
  <2>2. \A S \in SUBSET Props :
          /\ [done EXCEPT !.off = S] \in Statuses /\ [done EXCEPT !.off = S].op = done.op
          /\ [done EXCEPT !.off = S].uuid = done.uuid /\ [done EXCEPT !.off = S].acl = done.acl
    BY <1>d, Zenon DEF Statuses
  <2> QED BY <1>3, <1>a, <1>d, <2>1, <2>2, Zenon
<1>4. CASE wst.op \notin {"create", "acl", "reintmode", "selfheal"}
  BY <1>4, <1>a, <1>d, Zenon
<1> QED BY <1>1, <1>2, <1>3, <1>4, Zenon

\* Collecting the query, with or without an operation after it.
LEMMA CollectType ==
    ASSUME TypeOK, NEW s \in Statuses, NEW op \in Ops \cup {None}, Collect(s, op)
    PROVE  TypeOK'
<1>1. [s EXCEPT !.reason = "other"] \in Statuses /\ [s EXCEPT !.op = op, !.reason = "other"] \in Statuses
  BY StatusTypes, Zenon
<1>2. sys' \in Objects /\ wst' \in Statuses /\ pc' = "update"
  BY <1>1, ReturnType, Zenon DEF Collect
<1>3. jobs' \in Jobs
  BY JobsType, Zenon
<1> QED BY <1>2, <1>3, TypeFacts, PassType, Zenon DEF Collect, TypeOK, history, bounds

\* Types are kept by the steps of a pass.
LEMMA ReconcileType == TypeInv /\ (Operator \/ PassEnds) => TypeOK'
<1> SUFFICES ASSUME TypeInv, Operator \/ PassEnds PROVE TypeOK'
  BY Zenon
<1> USE DEF history, bounds
<1>t. /\ TypeOK /\ obj \in Objects /\ sys \in Objects /\ st \in Statuses /\ old \in Statuses /\ wst \in Statuses
      /\ hold \in BOOLEAN /\ jobs \in Jobs /\ sys.gen \in Nat
      /\ failed \subseteq (Ops \X Nat) /\ unsure \in Nat /\ wst.op \in Ops \cup {None}
      /\ pc \in {"idle", "go", "update"}
      /\ faults \in 0..MaxTroubles /\ stale \in 0..MaxTroubles
  BY TypeFacts, Zenon DEF TypeInv, TypeOK
<1>o. NoObj \in Objects /\ [obj EXCEPT !.finalizer = TRUE] \in Objects
  BY <1>t, BlankTypes, ObjectTypes, Zenon
<1>n. Ops \subseteq Names /\ "query" \in Names /\ "destroy" \in Ops
  BY Zenon DEF Names, Ops
<1>s. \A op \in Ops \cup {None}, r \in Ops \cup {"other"}, n \in Nat :
        /\ [wst EXCEPT !.reason = r] \in Statuses
        /\ [wst EXCEPT !.op = op, !.reason = r] \in Statuses
        /\ [wst EXCEPT !.op = op, !.obs = n, !.reason = r] \in Statuses
  BY <1>t, StatusTypes, Zenon
<1>1. CASE BeginPass
  <2>1. wst' \in Statuses
    BY <1>1, <1>t, Zenon DEF BeginPass
  <2>2. stale' \in 0..MaxTroubles
    BY <1>1, <1>t, TroubleFits, Zenon DEF BeginPass
  <2> QED BY <1>1, <1>t, <2>1, <2>2, PassType, Zenon DEF BeginPass
<1>2. CASE NoSystem
  <2>1. sys' \in Objects /\ wst' \in Statuses /\ pc' = "update"
    BY <1>2, <1>s, <1>t, ReturnType, Zenon DEF NoSystem
  <2> QED BY <1>2, <1>t, <2>1, PassType, Zenon DEF NoSystem
<1>3. CASE AddFinalizer
  <2>1. sys' \in Objects /\ wst' \in Statuses /\ pc' = "idle" /\ obj' \in Objects
    BY <1>3, <1>o, <1>t, ReturnType, Zenon DEF AddFinalizer
  <2> QED BY <1>3, <1>t, <2>1, PassType, Zenon DEF AddFinalizer
<1>4. CASE Poll
  <2>1. sys' \in Objects /\ wst' \in Statuses /\ pc' = "idle" /\ jobs' \in Jobs
    BY <1>4, <1>n, <1>t, ReturnType, JobsType, Zenon DEF Poll
  <2> QED BY <1>4, <1>t, <2>1, PassType, Zenon DEF Poll
<1>5. CASE PollDone
  <2>1. wst.op \in Ops /\ wst.op # None /\ Done(jobs[wst.op])
    BY <1>5, <1>t, Zenon DEF PollDone
  <2>2. jobs[wst.op].out.kind = "ok" => Applied(wst.op, jobs[wst.op].out.pool) \in Statuses
    BY <2>1, AppliedType, Zenon
  <2>3. [wst EXCEPT !.op = None, !.obs = sys.gen, !.reason = wst.op] \in Statuses
    BY <1>s, <1>t, <2>1, Zenon
  <2>4. sys' \in Objects /\ wst' \in Statuses /\ pc' = "update"
    BY <1>5, <1>t, <2>2, <2>3, ReturnType, Zenon DEF PollDone
  <2>5. jobs' \in Jobs
    BY <1>5, <1>n, <1>t, <2>1, JobsType, Zenon DEF PollDone
  <2>6. hold' \in BOOLEAN
    BY <1>5, <1>t, Zenon DEF PollDone
  <2>7. failed' \subseteq (Ops \X Nat)
    BY <1>5, <1>t, <2>1 DEF PollDone
  <2>8. unsure' \in Nat
    <3>1. unsure' = unsure \/ unsure' = unsure + 1
      BY <1>5, Zenon DEF PollDone
    <3> QED BY <1>t, <3>1
  <2> QED BY <1>5, <1>t, <2>4, <2>5, <2>6, <2>7, <2>8, PassType, Zenon DEF PollDone
<1>6. CASE Held
  <2>1. sys' \in Objects /\ wst' \in Statuses /\ pc' = "idle"
    BY <1>6, <1>t, ReturnType, Zenon DEF Held
  <2> QED BY <1>6, <1>t, <2>1, PassType, Zenon DEF Held
<1>7. CASE Probing
  <2>1. sys' \in Objects /\ wst' \in Statuses /\ pc' = "update" /\ jobs' \in Jobs
    BY <1>7, <1>n, <1>t, ReturnType, JobsType, Zenon DEF Probing
  <2> QED BY <1>7, <1>t, <2>1, PassType, Zenon DEF Probing
<1>8. CASE QueryFails
  BY <1>8, <1>t, CollectType, Zenon DEF QueryFails
<1>9. CASE Missing
  <2>1. CASE Collect(wst, None) \/ Collect(wst, "create")
    BY <1>t, <2>1, CollectType, Zenon DEF Ops
  <2>2. CASE ~(Collect(wst, None) \/ Collect(wst, "create"))
    <3>1. /\ hold' = TRUE /\ RunJob("query") /\ Store(wst)
          /\ UNCHANGED <<obj, st, old, setting, system, dp, history, bounds>>
      BY <1>9, <2>2, Zenon DEF Missing
    <3>2. sys' \in Objects /\ wst' \in Statuses /\ pc' = "update" /\ jobs' \in Jobs
      BY <1>n, <1>t, <3>1, ReturnType, JobsType, Zenon
    <3> QED BY <1>t, <3>1, <3>2, PassType, Zenon
  <2> QED BY <2>1, <2>2, Zenon
<1>10. CASE HealthOnly
  <2>1. Queried(jobs["query"].out) \in Statuses
    BY <1>10, <1>t, QueriedType, Zenon DEF HealthOnly, Answered
  <2> QED BY <1>10, <1>t, <2>1, CollectType, Zenon DEF HealthOnly
<1>11. CASE Found
  <2>1. Queried(jobs["query"].out) \in Statuses
    BY <1>11, <1>t, QueriedType, Zenon DEF Found, Answered
  <2>2. \A s : First(s) \in Ops \cup {None}
    BY Zenon DEF First, Ops
  <2> QED BY <1>11, <1>t, <2>1, <2>2, CollectType, Zenon DEF Found
<1>12. CASE Released
  <2>1. sys' \in Objects /\ wst' \in Statuses /\ pc' = "idle"
    BY <1>12, <1>t, ReturnType, Zenon DEF Released, RemoveFinalizer
  <2>2. jobs' \in Jobs /\ obj' \in Objects
    BY <1>12, <1>o, <1>t, JobsType, Zenon DEF Released, RemoveFinalizer, LetGo
  <2> QED BY <1>12, <1>t, <2>1, <2>2, PassType, Zenon DEF Released, RemoveFinalizer
<1>13. CASE DestroyWait
  <2>1. sys' \in Objects /\ wst' \in Statuses /\ pc' \in {"idle", "update"}
    BY <1>13, <1>n, <1>s, <1>t, ReturnType, Zenon DEF DestroyWait
  <2>2. jobs' \in Jobs
    BY <1>13, <1>n, <1>t, JobsType, Zenon DEF DestroyWait
  <2> QED BY <1>13, <1>t, <2>1, <2>2, PassType, Zenon DEF DestroyWait
<1>14. CASE DestroyDone
  <2>1. sys' \in Objects /\ wst' \in Statuses /\ pc' = "idle"
    BY <1>14, <1>t, ReturnType, Zenon DEF DestroyDone
  <2>2. jobs' \in Jobs /\ obj' \in Objects
    BY <1>14, <1>n, <1>o, <1>t, JobsType, Zenon DEF DestroyDone, LetGo
  <2> QED BY <1>14, <1>t, <2>1, <2>2, PassType, Zenon DEF DestroyDone
<1>15. CASE DestroyFails
  <2>1. sys' \in Objects /\ wst' \in Statuses /\ pc' = "update"
    BY <1>15, <1>t, StallType, ReturnType, Zenon DEF DestroyFails
  <2>2. jobs' \in Jobs
    BY <1>15, <1>n, <1>t, JobsType, Zenon DEF DestroyFails
  <2> QED BY <1>15, <1>t, <2>1, <2>2, PassType, Zenon DEF DestroyFails
<1>16. CASE UpdateStatus
  <2>1. sys' \in Objects /\ wst' \in Statuses /\ pc' = "idle"
    BY <1>16, <1>t, ReturnType, Zenon DEF UpdateStatus
  <2>2. st' \in Statuses /\ old' \in Statuses
    BY <1>16, <1>t, Zenon DEF UpdateStatus
  <2> QED BY <1>16, <1>t, <2>1, <2>2, PassType, Zenon DEF UpdateStatus
<1>17. CASE PassEnds
  <2>1. sys' \in Objects /\ wst' \in Statuses /\ pc' = "idle"
    BY <1>17, <1>t, ReturnType, Zenon DEF PassEnds
  <2>2. hold' \in BOOLEAN /\ faults' \in 0..MaxTroubles
    BY <1>17, <1>t, TroubleFits, Zenon DEF PassEnds
  <2> QED BY <1>17, <1>t, <2>1, <2>2, PassType, Zenon DEF PassEnds
<1> QED
  BY <1>1, <1>2, <1>3, <1>4, <1>5, <1>6, <1>7, <1>8, <1>9, <1>10, <1>11, <1>12, <1>13, <1>14,
     <1>15, <1>16, <1>17, Zenon DEF Operator, Reconcile

\* What an operation that works makes of the pool.
LEMMA EffectType ==
    ASSUME TypeOK, NEW op \in Ops, jobs[op].phase = "running", Works(op)
    PROVE  LET e == Effect(op, jobs[op].cmd)
           IN  /\ jobs[op].cmd.acl \in Nat
               /\ op = "create" => /\ dp = None /\ e \in DaosPools /\ e.id = made + 1
                                   /\ e.acl = jobs[op].cmd.acl
               /\ op = "destroy" => e = None
               /\ op \notin {"create", "destroy"} =>
                     /\ dp # None /\ e \in DaosPools /\ e.id = dp.id
                     /\ e.acl = IF op = "acl" THEN jobs[op].cmd.acl ELSE dp.acl
<1>t. made + 1 \in Nat /\ Pinned \in SUBSET Props
  BY TypeFacts
<1>c. jobs[op].cmd \in Specs
  BY TypeFacts, Zenon DEF Jobs, Job, Names
<1>n. jobs[op].cmd.ranks \in Nat /\ jobs[op].cmd.acl \in Nat
  BY <1>c, Zenon DEF Specs
<1> DEFINE r == jobs[op].cmd.ranks
           a == jobs[op].cmd.acl
<1>1. CASE op = "create"
  <2> DEFINE S == IF "reintmode" \in Pinned THEN {"reintmode"} ELSE {}
             e == [id |-> made + 1, ranks |-> r, acl |-> a, props |-> S]
  <2>1. Effect(op, jobs[op].cmd) = e
    BY <1>1, Zenon DEF Effect
  <2>2. S \in SUBSET Props
    BY Zenon DEF Props
  <2> HIDE DEF S, a, r
  <2>3. r \in Nat /\ a \in Nat
    BY <1>n, Zenon DEF a, r
  <2>4. e \in DaosPools /\ e.id = made + 1 /\ e.acl = a
    BY <1>t, <2>2, <2>3, Zenon DEF DaosPools
  <2> HIDE DEF e
  <2> QED BY <1>1, <1>n, <2>1, <2>4, Zenon DEF Works, a
<1>2. CASE op = "destroy"
  BY <1>2, <1>n, Zenon DEF Effect
<1>3. CASE op \notin {"create", "destroy"}
  <2>1. dp # None /\ dp \in DaosPools
    BY <1>3, TypeFacts, Zenon DEF Works
  <2>2. dp.props \in SUBSET Props
    BY <2>1, Zenon DEF DaosPools
  <2> HIDE DEF r, a
  <2>n. r \in Nat /\ a \in Nat
    BY <1>n, Zenon DEF a, r
  <2>3. CASE op = "extend"
    <3>1. Effect(op, jobs[op].cmd) = [dp EXCEPT !.ranks = r]
      BY <2>3, Zenon DEF Effect, r
    <3>2. [dp EXCEPT !.ranks = r] \in DaosPools /\ [dp EXCEPT !.ranks = r].id = dp.id /\ [dp EXCEPT !.ranks = r].acl = dp.acl
      BY <2>1, <2>n, Zenon DEF DaosPools
    <3> QED BY <1>n, <2>1, <2>3, <3>1, <3>2, Zenon
  <2>4. CASE op = "acl"
    <3>1. Effect(op, jobs[op].cmd) = [dp EXCEPT !.acl = a]
      BY <2>4, Zenon DEF Effect, a
    <3>2. [dp EXCEPT !.acl = a] \in DaosPools /\ [dp EXCEPT !.acl = a].id = dp.id /\ [dp EXCEPT !.acl = a].acl = a
      BY <2>1, <2>n, Zenon DEF DaosPools
    <3> QED BY <1>n, <2>1, <2>4, <3>1, <3>2, Zenon DEF a
  <2>5. CASE op \in Props
    <3> DEFINE S == dp.props \cup {op}
    <3>1. Effect(op, jobs[op].cmd) = [dp EXCEPT !.props = S]
      BY <2>5, Zenon DEF Effect, Props
    <3>2. S \in SUBSET Props
      BY <2>2, <2>5, Zenon
    <3> HIDE DEF S
    <3>3. [dp EXCEPT !.props = S] \in DaosPools /\ [dp EXCEPT !.props = S].id = dp.id /\ [dp EXCEPT !.props = S].acl = dp.acl
      BY <2>1, <3>2, Zenon DEF DaosPools
    <3> QED BY <1>n, <2>1, <2>5, <3>1, <3>3, Zenon DEF Props
  <2> QED BY <1>3, <2>3, <2>4, <2>5, Zenon DEF Ops, Props
<1> QED BY <1>1, <1>2, <1>3, Zenon

\* A Job that ends leaves Jobs.
LEMMA EndsType ==
    ASSUME TypeOK, NEW op \in Names, NEW kind, NEW pool, [kind |-> kind, pool |-> pool] \in Outs,
           jobs[op].phase = "running", Ends(op, kind, pool)
    PROVE  /\ jobs' \in Jobs /\ jobs'[op].phase = "finished" /\ jobs'[op].cmd = jobs[op].cmd
           /\ jobs'[op].out.kind = kind /\ jobs'[op].out.pool = pool
           /\ \A m \in Names : m # op => jobs'[m] = jobs[m]
<1>1. jobs \in Jobs
  BY TypeFacts, Zenon
<1> DEFINE o == [kind |-> kind, pool |-> pool]
           f == Finished(jobs[op], o)
<1>2. jobs[op] \in Job(Specs, Outs) /\ o \in Outs
  BY <1>1, Zenon DEF Jobs
<1>3. f \in Job(Specs, Outs) /\ f.phase = "finished" /\ f.out = o /\ f.cmd = jobs[op].cmd
  BY <1>2, FinishedType
<1>4. jobs' = [jobs EXCEPT ![op] = f]
  BY Zenon DEF Ends
<1>5. o.kind = kind /\ o.pool = pool
  BY Zenon
<1> HIDE DEF o, f
<1> QED BY <1>1, <1>3, <1>4, <1>5, Zenon DEF Jobs

\* An operation that ends makes a pool where there was none, changes it, or destroys
\* it, and its Job says which.
LEMMA OpOutcome ==
    ASSUME TypeOK, NEW op \in Ops, OpFinishes(op)
    PROVE  /\ jobs[op].phase = "running" /\ jobs' \in Jobs /\ dp' \in DaosPools \cup {None}
           /\ jobs'[op].phase = "finished" /\ jobs'[op].cmd = jobs[op].cmd
           /\ \A m \in Names : m # op => jobs'[m] = jobs[m]
           /\ op = "create" =>
                \/ dp' = dp /\ made' = made /\ jobs'[op].out.kind # "ok"
                \/ /\ dp = None /\ dp' # None /\ dp' \in DaosPools
                   /\ dp'.id = made + 1 /\ dp'.acl = jobs[op].cmd.acl /\ made' = made + 1
                   /\ jobs'[op].out.kind = "ok" => jobs'[op].out.pool = dp'
           /\ op = "destroy" =>
                made' = made /\ dp' \in {dp, None} /\ (jobs'[op].out.kind \in Destroyed => dp' = None)
           /\ op \notin {"create", "destroy"} =>
                /\ made' = made
                /\ \/ dp' = dp /\ (jobs'[op].out.kind = "ok" => dp = None)
                   \/ /\ dp # None /\ dp' # None /\ dp'.id = dp.id
                      /\ dp'.acl = IF op = "acl" THEN jobs[op].cmd.acl ELSE dp.acl
<1>t. /\ op \in Names /\ dp \in DaosPools \cup {None} /\ made \in Nat /\ jobs[op].phase = "running"
  BY TypeFacts, Zenon DEF Names, OpFinishes
<1>m. made' = IF op = "create" /\ dp' # dp THEN made + 1 ELSE made
  BY Zenon DEF OpFinishes
<1> DEFINE e == Effect(op, jobs[op].cmd)
<1>e. Works(op) =>
        /\ op = "create" => /\ dp = None /\ e \in DaosPools /\ e.id = made + 1 /\ e.acl = jobs[op].cmd.acl
        /\ op = "destroy" => e = None
        /\ op \notin {"create", "destroy"} =>
              /\ dp # None /\ e \in DaosPools /\ e.id = dp.id
              /\ e.acl = IF op = "acl" THEN jobs[op].cmd.acl ELSE dp.acl
  BY <1>t, EffectType, Zenon
<1>n. None \notin DaosPools
  BY NoneIsNoPool, Zenon
<1>o. \A p \in DaosPools \cup {None} : /\ [kind |-> "ok", pool |-> p] \in Outs
                                      /\ [kind |-> "error", pool |-> None] \in Outs
                                      /\ [kind |-> "notfound", pool |-> None] \in Outs
  BY Zenon DEF Outs
<1>1. CASE Works(op) /\ dp' = e /\ Ends(op, "ok", IF op = "create" THEN dp' ELSE None)
  <2>1. dp' \in DaosPools \cup {None}
    BY <1>1, <1>e, Zenon
  <2>2. PICK p \in DaosPools \cup {None} : Ends(op, "ok", p) /\ p = (IF op = "create" THEN dp' ELSE None)
    BY <1>1, <2>1, Zenon
  <2>3. [kind |-> "ok", pool |-> p] \in Outs
    BY <1>o, Zenon
  <2> HIDE DEF e
  <2>4. /\ jobs' \in Jobs /\ jobs'[op].phase = "finished" /\ jobs'[op].cmd = jobs[op].cmd
        /\ jobs'[op].out.kind = "ok" /\ jobs'[op].out.pool = p
        /\ \A m \in Names : m # op => jobs'[m] = jobs[m]
    BY <1>t, <2>2, <2>3, EndsType, Zenon
  <2> QED BY <1>1, <1>e, <1>m, <1>n, <1>t, <2>1, <2>2, <2>4, Zenon DEF Destroyed
<1>2. CASE ~Works(op) /\ dp' = dp /\ Ends(op, IF op = "create" THEN "error" ELSE "notfound", None)
  <2>1. PICK k \in {"error", "notfound"} : Ends(op, k, None) /\ (op = "create" => k = "error")
    BY <1>2, Zenon
  <2>2. [kind |-> k, pool |-> None] \in Outs
    BY <1>o, Zenon
  <2> HIDE DEF e
  <2>3. /\ jobs' \in Jobs /\ jobs'[op].phase = "finished" /\ jobs'[op].cmd = jobs[op].cmd
        /\ jobs'[op].out.kind = k
        /\ \A m \in Names : m # op => jobs'[m] = jobs[m]
    BY <1>t, <2>1, <2>2, EndsType, Zenon
  <2>4. op = "destroy" => dp = None
    BY <1>2, Zenon DEF Works
  <2> QED BY <1>2, <1>m, <1>t, <2>1, <2>3, <2>4, Zenon
<1>3. CASE dp' \in {dp} \cup (IF Works(op) THEN {e} ELSE {}) /\ Ends(op, "error", None)
  <2>1. dp' = dp \/ (Works(op) /\ dp' = e)
    BY <1>3, Zenon
  <2>2. [kind |-> "error", pool |-> None] \in Outs
    BY <1>o, Zenon
  <2> HIDE DEF e
  <2>3. /\ jobs' \in Jobs /\ jobs'[op].phase = "finished" /\ jobs'[op].cmd = jobs[op].cmd
        /\ jobs'[op].out.kind = "error"
        /\ \A m \in Names : m # op => jobs'[m] = jobs[m]
    BY <1>3, <1>t, <2>2, EndsType, Zenon
  <2> QED BY <1>e, <1>m, <1>n, <1>t, <2>1, <2>3, Zenon DEF Destroyed
<1> QED BY <1>1, <1>2, <1>3, Zenon DEF OpFinishes

\* A pass runs Jobs, or Kubernetes removes them with the object: none ends in a step
\* of a pass, and one that starts is built from what the pass read.
LEMMA PassJobs ==
    ASSUME TypeOK, Operator \/ PassEnds
    PROVE  \A m \in Names :
             /\ jobs'[m].phase = "finished" => jobs'[m] = jobs[m]
             /\ jobs'[m].phase = "running" =>
                  \/ jobs'[m] = jobs[m]
                  \/ pc = "go" /\ jobs[m].phase = "absent" /\ jobs'[m].cmd = SpecOf(sys)
<1>t. jobs \in Jobs /\ wst.op \in Ops \cup {None}
  BY TypeFacts, Zenon
<1>n. Ops \subseteq Names /\ "query" \in Names /\ "destroy" \in Names
  BY Zenon DEF Names, Ops
<1> DEFINE R(m) == AfterRun(jobs[m], SpecOf(sys))
<1>r. \A m \in Names : /\ R(m).phase = "finished" => R(m) = jobs[m]
                       /\ R(m).phase = "running" =>
                            \/ R(m) = jobs[m]
                            \/ jobs[m].phase = "absent" /\ R(m).cmd = SpecOf(sys)
  BY Zenon DEF AfterRun, Running, Deleting, Done
<1> HIDE DEF R
<1>1. CASE BeginPass \/ NoSystem \/ AddFinalizer \/ Held \/ UpdateStatus \/ PassEnds
  BY <1>1, Zenon DEF BeginPass, NoSystem, AddFinalizer, Held, UpdateStatus, PassEnds
<1>2. CASE \E op \in Names : pc = "go" /\ RunJob(op)
  BY <1>2, <1>r, JobsType, Zenon DEF R
<1>3. CASE \E s, op : pc = "go" /\ Collect(s, op)
  BY <1>3, <1>r, JobsType, Zenon DEF R
<1>4. CASE LetGo
  BY <1>4, JobsType DEF NoJob
<1>5. CASE UNCHANGED jobs
  BY <1>5, Zenon
<1>6. \/ BeginPass \/ NoSystem \/ AddFinalizer \/ Held \/ UpdateStatus \/ PassEnds
      \/ \E op \in Names : pc = "go" /\ RunJob(op)
      \/ \E s, op : pc = "go" /\ Collect(s, op)
      \/ LetGo \/ UNCHANGED jobs
  <2>1. CASE Poll \/ PollDone
    BY <1>n, <1>t, <2>1, Zenon DEF Poll, PollDone, Live
  <2>2. CASE Probing \/ DestroyWait \/ DestroyFails
    BY <1>n, <2>2, Zenon DEF Probing, DestroyWait, DestroyFails, Live, Finalizing
  <2>3. CASE QueryFails \/ HealthOnly \/ Found
    BY <2>3, Zenon DEF QueryFails, HealthOnly, Found, Answered, Live
  <2>4. CASE Missing
    BY <1>n, <2>4, Zenon DEF Missing, Answered, Live
  <2>5. CASE Released \/ DestroyDone
    BY <1>n, <2>5, Zenon DEF Released, RemoveFinalizer, DestroyDone, Finalizing
  <2> QED BY <2>1, <2>2, <2>3, <2>4, <2>5, Zenon DEF Operator, Reconcile
<1> QED BY <1>1, <1>2, <1>3, <1>4, <1>5, <1>6, Zenon

\* What a query that ends tells.
LEMMA QueryOutcome ==
    ASSUME TypeOK, QueryFinishes
    PROVE  /\ jobs["query"].phase = "running" /\ jobs'["query"].phase = "finished" /\ jobs' \in Jobs
           /\ \A m \in Names : m # "query" => jobs'[m] = jobs[m]
           /\ jobs'["query"].out.kind \in Full \cup Health => dp # None /\ jobs'["query"].out.pool = dp
<1>t. "query" \in Names /\ dp \in DaosPools \cup {None} /\ jobs["query"].phase = "running"
  BY TypeFacts, Zenon DEF Names, QueryFinishes
<1>1. ASSUME NEW kind \in {"missing", "error"} \cup Full \cup Health, NEW pool,
             Ends("query", kind, pool), kind \in {"missing", "error"} => pool = None,
             kind \in Full \cup Health => pool = dp /\ dp # None
      PROVE  /\ jobs'["query"].phase = "finished" /\ jobs' \in Jobs
             /\ \A m \in Names : m # "query" => jobs'[m] = jobs[m]
             /\ jobs'["query"].out.kind = kind /\ jobs'["query"].out.pool = pool
  <2>1. [kind |-> kind, pool |-> pool] \in Outs
    BY <1>1, <1>t, Zenon DEF Outs
  <2> QED BY <1>1, <1>t, <2>1, EndsType, Zenon
<1>2. {"missing", "error"} \cap (Full \cup Health) = {} /\ "pool" \in Full /\ "bare" \in Full
  BY Zenon DEF Full, Health
<1>3. CASE dp = None /\ Ends("query", "missing", dp)
  BY <1>1, <1>2, <1>3, <1>t, Zenon
<1>4. CASE dp # None /\ Ends("query", "pool", dp)
  BY <1>1, <1>2, <1>4, <1>t, Zenon
<1>5. CASE Ends("query", "error", None)
  BY <1>1, <1>2, <1>5, <1>t, Zenon
<1>6. CASE dp # None /\ \E kind \in Health \cup {"bare"} : Ends("query", kind, dp)
  BY <1>1, <1>2, <1>6, <1>t, Zenon
<1> QED BY <1>3, <1>4, <1>5, <1>6, Zenon DEF QueryFinishes

\* What a step that is none of the pass leaves well typed, part by part.
LEMMA OutsideType ==
    ASSUME TypeOK, UNCHANGED <<st, old, setting, pc, sys, wst, failed, unsure, faults, stale>>,
           obj' \in Objects, jobs' \in Jobs, dp' \in DaosPools \cup {None}, made' \in Nat,
           hold' \in BOOLEAN, asked' \in BOOLEAN,
           system' \in {"awaited", "unformatted", "formatted", "gone"},
           edits' \in 0..MaxEdits, errors' \in 0..MaxTroubles, drifts' \in 0..MaxTroubles
    PROVE  TypeOK'
  BY Zenon DEF TypeOK, Names, Jobs, Specs

\* Types are kept by every step.
LEMMA TypeStep == TypeInv /\ [Next]_vars => TypeInv'
<1> SUFFICES ASSUME TypeInv, [Next]_vars PROVE TypeInv'
  BY Zenon
<1> USE DEF memory, history, bounds
<1>t. /\ TypeOK /\ obj \in Objects /\ jobs \in Jobs /\ dp \in DaosPools \cup {None} /\ made \in Nat
      /\ hold \in BOOLEAN /\ asked \in BOOLEAN
      /\ system \in {"awaited", "unformatted", "formatted", "gone"}
      /\ edits \in 0..MaxEdits /\ errors \in 0..MaxTroubles /\ drifts \in 0..MaxTroubles
  BY TypeFacts, Zenon DEF TypeInv, TypeOK
<1>n. Ops \subseteq Names /\ "query" \in Names /\ "create" \in Ops /\ "create" # "query"
  BY Zenon DEF Names, Ops
<1>c. Done(jobs["create"]) /\ jobs["create"].out.kind = "ok" => jobs["create"].out.pool \in DaosPools
  BY Zenon DEF TypeInv
<1>k. (Done(jobs'["create"]) => jobs'["create"] = jobs["create"]) /\ TypeOK' => TypeInv'
  BY <1>c, Zenon DEF TypeInv, Done
<1>1. CASE Operator \/ PassEnds
  <2>1. TypeOK'
    BY <1>1, ReconcileType, Zenon
  <2>2. Done(jobs'["create"]) => jobs'["create"] = jobs["create"]
    BY <1>1, <1>n, <1>t, PassJobs, Zenon DEF Done
  <2> QED BY <1>k, <2>1, <2>2, Zenon
<1>2. CASE Edit
  <2>1. obj' \in Objects
    BY <1>2, <1>t, ObjectTypes, Zenon DEF Edit
  <2>2. edits' \in 0..MaxEdits
    BY <1>2, <1>t DEF Edit
  <2>3. TypeOK'
    BY <1>2, <1>t, <2>1, <2>2, OutsideType, Zenon DEF Edit
  <2> QED BY <1>2, <1>k, <2>3, Zenon DEF Edit
<1>3. CASE \E b \in BOOLEAN : Delete(b)
  <2>1. PICK b \in BOOLEAN : Delete(b)
    BY <1>3, Zenon
  <2>2. obj' \in Objects
    BY <1>t, <2>1, ObjectTypes, BlankTypes, Zenon DEF Delete
  <2>3. asked' \in BOOLEAN
    BY <2>1, Zenon DEF Delete
  <2>4. TypeOK'
    BY <1>t, <2>1, <2>2, <2>3, OutsideType, Zenon DEF Delete
  <2> QED BY <1>k, <2>1, <2>4, Zenon DEF Delete
<1>4. CASE Approve
  <2>1. obj' \in Objects
    BY <1>4, <1>t, ObjectTypes, Zenon DEF Approve
  <2>2. edits' \in 0..MaxEdits /\ asked' \in BOOLEAN
    BY <1>4, <1>t DEF Approve
  <2>3. TypeOK'
    BY <1>4, <1>t, <2>1, <2>2, OutsideType, Zenon DEF Approve
  <2> QED BY <1>4, <1>k, <2>3, Zenon DEF Approve
<1>5. CASE Withdraw
  <2>1. obj' \in Objects
    BY <1>5, <1>t, ObjectTypes, Zenon DEF Withdraw
  <2>2. TypeOK'
    BY <1>5, <1>t, <2>1, OutsideType, Zenon DEF Withdraw
  <2> QED BY <1>5, <1>k, <2>2, Zenon DEF Withdraw
<1>6. CASE SystemFormatted
  <2>1. TypeOK'
    BY <1>6, <1>t, OutsideType, Zenon DEF SystemFormatted
  <2> QED BY <1>6, <1>k, <2>1, Zenon DEF SystemFormatted
<1>7. CASE SystemGoes
  <2>1. drifts' \in 0..MaxTroubles
    BY <1>7, <1>t, TroubleFits, Zenon DEF SystemGoes
  <2>2. TypeOK'
    BY <1>7, <1>t, <2>1, OutsideType, Zenon DEF SystemGoes
  <2> QED BY <1>7, <1>k, <2>2, Zenon DEF SystemGoes
<1>8. CASE HoldExpires
  <2>1. TypeOK'
    BY <1>8, <1>t, OutsideType, Zenon DEF HoldExpires
  <2> QED BY <1>8, <1>k, <2>1, Zenon DEF HoldExpires
<1>9. CASE QueryFinishes
  <2>3. errors' \in 0..MaxTroubles
    BY <1>9, <1>t, TroubleFits, Zenon DEF QueryFinishes
  <2>4. jobs' \in Jobs /\ jobs'["create"] = jobs["create"]
    BY <1>9, <1>n, <1>t, QueryOutcome, Zenon
  <2>5. TypeOK'
    BY <1>9, <1>t, <2>3, <2>4, OutsideType, Zenon DEF QueryFinishes
  <2> QED BY <1>k, <2>4, <2>5, Zenon
<1>10. CASE JobsRemoved
  <2>1. jobs' \in Jobs
    BY <1>10, <1>t, BlankTypes, Zenon DEF JobsRemoved, Jobs
  <2>2. TypeOK'
    BY <1>10, <1>t, <2>1, OutsideType, Zenon DEF JobsRemoved
  <2>3. Done(jobs'["create"]) => jobs'["create"] = jobs["create"]
    BY <1>10, <1>n, <1>t, Zenon DEF JobsRemoved, Jobs, Done, NoJob
  <2> QED BY <1>k, <2>2, <2>3, Zenon
<1>11. CASE \E op \in Ops : OpFinishes(op)
  <2>1. PICK op \in Ops : OpFinishes(op)
    BY <1>11, Zenon
  <2>2. jobs' \in Jobs /\ dp' \in DaosPools \cup {None}
    BY <1>t, <2>1, OpOutcome, Zenon
  <2>3. errors' \in 0..MaxTroubles
    BY <1>t, <2>1, TroubleFits, Zenon DEF OpFinishes
  <2>4. made' \in Nat
    <3>1. made' = made \/ made' = made + 1
      BY <2>1, Zenon DEF OpFinishes
    <3> QED BY <1>t, <3>1
  <2>5. TypeOK'
    BY <1>t, <2>1, <2>2, <2>3, <2>4, OutsideType, Zenon DEF OpFinishes
  <2>6. CASE op = "create"
    <3>1. jobs'["create"].out.kind = "ok" => jobs'["create"].out.pool \in DaosPools
      BY <1>t, <2>1, <2>6, OpOutcome, Zenon
    <3> QED BY <2>5, <3>1, Zenon DEF TypeInv
  <2>7. CASE op # "create"
    <3>1. jobs'["create"] = jobs["create"]
      BY <1>n, <1>t, <2>1, <2>7, OpOutcome
    <3> QED BY <1>k, <2>5, <3>1, Zenon
  <2> QED BY <2>6, <2>7, Zenon
<1>12. CASE Outsider
  <2>1. drifts' \in 0..MaxTroubles
    BY <1>12, <1>t, TroubleFits, Zenon DEF Outsider
  <2>2. dp' \in DaosPools \cup {None}
    <3>1. ASSUME NEW p PROVE dp # None => [dp EXCEPT !.props = @ \ {p}] \in DaosPools
      <4> DEFINE S == dp.props \ {p}
      <4>1. dp # None => dp \in DaosPools /\ S \in SUBSET Props
        BY <1>t, Zenon DEF DaosPools
      <4>2. [dp EXCEPT !.props = @ \ {p}] = [dp EXCEPT !.props = S]
        BY Zenon
      <4> HIDE DEF S
      <4>3. dp \in DaosPools /\ S \in SUBSET Props => [dp EXCEPT !.props = S] \in DaosPools
        BY Zenon DEF DaosPools
      <4> QED BY <4>1, <4>2, <4>3, Zenon
    <3> QED BY <1>12, <3>1, Zenon DEF Outsider
  <2>3. TypeOK'
    BY <1>12, <1>t, <2>1, <2>2, OutsideType, Zenon DEF Outsider
  <2> QED BY <1>12, <1>k, <2>3, Zenon DEF Outsider
<1>13. CASE UNCHANGED vars
  <2>1. TypeOK'
    BY <1>13, <1>t, OutsideType, Zenon DEF vars
  <2> QED BY <1>13, <1>k, <2>1, Zenon DEF vars
<1> QED
  BY <1>1, <1>2, <1>3, <1>4, <1>5, <1>6, <1>7, <1>8, <1>9, <1>10, <1>11, <1>12, <1>13, Zenon
     DEF Next, Human, Cluster

\* The initial states are well typed.
LEMMA TypeStart == Init => TypeInv
<1> SUFFICES ASSUME Init PROVE TypeInv
  BY Zenon
<1>1. obj \in Objects
  <2>1. \A b \in BOOLEAN, l, m, n \in Nat : [NoObj EXCEPT !.exists = b, !.gen = l, !.ranks = m, !.acl = n] \in Objects
    BY BlankTypes, Zenon DEF Objects
  <2> QED BY <2>1, Zenon DEF Init
<1>2. jobs \in Jobs /\ jobs["create"] = NoJob
  BY BlankTypes, Zenon DEF Init, Jobs, Names, Ops
<1>3. {faults, stale, errors, drifts} \subseteq 0..MaxTroubles /\ edits \in 0..MaxEdits
  BY DEF Init
<1>4. failed \subseteq (Ops \X Nat) /\ made \in Nat /\ unsure \in Nat /\ asked \in BOOLEAN
  BY Zenon DEF Init
<1>5. TypeOK
  BY <1>1, <1>2, <1>3, <1>4, BlankTypes, Zenon DEF Init, TypeOK, Jobs, Names, Specs
<1> QED BY <1>2, <1>5 DEF TypeInv, Done, NoJob

\* Every state is well typed, and a create that succeeded tells which pool it made.
LEMMA Typed == Spec => []TypeInv
<1> QED BY TypeStart, TypeStep, PTL DEF Spec

\* The object, the statuses, the Jobs and the pool stay in their types: a finished
\* Job always has an output of its kind, and no counter passes its bound.
THEOREM Typing == Spec => []TypeOK
<1>1. TypeInv => TypeOK
  BY Zenon DEF TypeInv
<1> QED BY <1>1, Typed, PTL

\* The status that is stored after a query.
LEMMA CollectStatus ==
    ASSUME NEW s \in Statuses, NEW op, Collect(s, op)
    PROVE  /\ pc' = "update" /\ sys' = sys
           /\ wst'.uuid = s.uuid /\ wst'.acl = s.acl /\ wst'.op = IF op = None THEN s.op ELSE op
<1>1. /\ [s EXCEPT !.reason = "other"].uuid = s.uuid /\ [s EXCEPT !.reason = "other"].acl = s.acl
      /\ [s EXCEPT !.reason = "other"].op = s.op
  BY Zenon DEF Statuses
<1>2. /\ [s EXCEPT !.op = op, !.reason = "other"].uuid = s.uuid
      /\ [s EXCEPT !.op = op, !.reason = "other"].acl = s.acl
      /\ [s EXCEPT !.op = op, !.reason = "other"].op = op
  BY Zenon DEF Statuses
<1> QED BY <1>1, <1>2, Zenon DEF Collect, Store

\* What the other stores of a pass write.
LEMMA StoredFields ==
    ASSUME NEW s \in Statuses, NEW op, NEW r, NEW n
    PROVE  /\ [s EXCEPT !.reason = r].op = s.op /\ [s EXCEPT !.reason = r].uuid = s.uuid
           /\ [s EXCEPT !.reason = r].acl = s.acl
           /\ [s EXCEPT !.op = op, !.reason = r].op = op
           /\ [s EXCEPT !.op = op, !.reason = r].uuid = s.uuid
           /\ [s EXCEPT !.op = op, !.reason = r].acl = s.acl
           /\ [s EXCEPT !.op = op, !.obs = n, !.reason = r].op = op
           /\ [s EXCEPT !.op = op, !.obs = n, !.reason = r].uuid = s.uuid
           /\ [s EXCEPT !.op = op, !.obs = n, !.reason = r].acl = s.acl
           /\ [s EXCEPT !.op = op, !.reason = r, !.attempts = n].op = op
           /\ [s EXCEPT !.op = op, !.reason = r, !.attempts = n].uuid = s.uuid
           /\ [s EXCEPT !.op = op, !.reason = r, !.attempts = n].acl = s.acl
  BY Zenon DEF Statuses

\* The finalizer is added to an object that stays what it was.
LEMMA FinalizerAdded ==
    ASSUME NEW o \in Objects
    PROVE  LET p == [o EXCEPT !.finalizer = TRUE]
           IN  /\ p.exists = o.exists /\ p.deleted = o.deleted /\ p.approved = o.approved /\ p.finalizer
               /\ p.acl = o.acl
  BY Zenon DEF Objects

\* What None and the blank values are not.
LEMMA Blanks ==
    /\ None \notin Ops /\ None # "create" /\ None # "destroy" /\ None # "acl"
    /\ NoStatus.op = None /\ NoStatus.uuid = 0
    /\ ~NoObj.exists /\ ~NoObj.deleted /\ ~NoObj.approved /\ ~NoObj.finalizer
  BY NoneIsNoName, Zenon DEF Ops, NoStatus, NoObj

\* The operator stores an ACL as applied only after a Job that succeeded.
LEMMA PassAcl ==
    ASSUME TypeInv, Operator \/ PassEnds
    PROVE  /\ UNCHANGED <<setting, dp>>
           /\ obj'.exists => obj.exists /\ obj'.acl = obj.acl
           /\ pc' # "idle" => obj' = obj /\ sys' = IF pc = "idle" THEN obj ELSE sys
           /\ (st' = st /\ old' = old) \/ (pc = "update" /\ st' = wst /\ old' = st)
           /\ pc' # "idle" =>
                \/ pc = "idle" /\ wst' \in {st, old}
                \/ pc # "idle" /\ wst'.acl = wst.acl
                \/ /\ pc # "idle" /\ wst'.acl = sys.acl
                   /\ \E op \in {"create", "acl"} : Done(jobs[op]) /\ jobs[op].out.kind = "ok"
<1> USE DEF history, bounds
<1>t. TypeOK /\ obj \in Objects /\ wst \in Statuses /\ wst.op \in Ops \cup {None}
  BY TypeFacts, Zenon DEF TypeInv
<1>1. CASE BeginPass
  BY <1>1, Zenon DEF BeginPass
<1>2. CASE NoSystem
  BY <1>2, <1>t, StoredFields, Zenon DEF NoSystem, Store
<1>3. CASE AddFinalizer
  <2>1. obj' = obj \/ obj' = [obj EXCEPT !.finalizer = TRUE]
    BY <1>3, Zenon DEF AddFinalizer
  <2>2. obj'.exists = obj.exists /\ obj'.acl = obj.acl
    BY <1>t, <2>1, FinalizerAdded, Zenon
  <2> QED BY <1>3, <2>2, Zenon DEF AddFinalizer, Return
<1>4. CASE Poll \/ Held
  BY <1>4, Zenon DEF Poll, Held, Return
<1>5. CASE PollDone
  <2>1. /\ wst.op # None /\ Done(jobs[wst.op]) /\ pc = "go" /\ pc' = "update" /\ sys' = sys
        /\ UNCHANGED <<obj, st, old, setting, dp>>
    BY <1>5, Zenon DEF PollDone, Live, Store
  <2>2. CASE jobs[wst.op].out.kind = "ok"
    <3>1. wst' = Applied(wst.op, jobs[wst.op].out.pool)
      BY <1>5, <2>2, Zenon DEF PollDone, Store
    <3>2. wst'.acl = IF wst.op \in {"create", "acl"} THEN sys.acl ELSE wst.acl
      BY <2>1, <2>2, <3>1, AppliedType, Zenon
    <3> QED BY <2>1, <2>2, <3>2, Zenon
  <2>3. CASE jobs[wst.op].out.kind # "ok"
    <3>1. wst' = [wst EXCEPT !.op = None, !.obs = sys.gen, !.reason = wst.op]
      BY <1>5, <2>3, Zenon DEF PollDone, Store
    <3> QED BY <1>t, <2>1, <3>1, StoredFields
  <2> QED BY <2>2, <2>3, Zenon
<1>6. CASE Probing
  BY <1>6, Zenon DEF Probing, Store, Live
<1>7. CASE \E s \in Statuses : \E op : Collect(s, op) /\ pc = "go" /\ s.acl = wst.acl
  BY <1>7, CollectStatus, Zenon DEF Collect
<1>8. CASE QueryFails \/ Missing
  <2>1. pc = "go"
    BY <1>8, Zenon DEF QueryFails, Missing, Answered, Live
  <2>2. CASE Collect(wst, None) \/ Collect(wst, "create")
    BY <1>7, <1>t, <2>1, <2>2, Zenon
  <2>3. CASE ~(Collect(wst, None) \/ Collect(wst, "create"))
    BY <1>8, <2>1, <2>3, Zenon DEF QueryFails, Missing, Store
  <2> QED BY <2>2, <2>3, Zenon
<1>9. CASE HealthOnly \/ Found
  <2>1. pc = "go" /\ Answered(Full \cup Health)
    BY <1>9, Zenon DEF HealthOnly, Found, Answered, Live
  <2>2. /\ Queried(jobs["query"].out) \in Statuses
        /\ Queried(jobs["query"].out).acl = wst.acl
    BY <1>t, <2>1, QueriedType, Zenon
  <2>3. \E op : Collect(Queried(jobs["query"].out), op)
    BY <1>9, Zenon DEF HealthOnly, Found
  <2> QED BY <1>7, <2>1, <2>2, <2>3, Zenon
<1>10. CASE Released \/ DestroyDone
  <2>1. obj' \in {obj, NoObj} /\ pc' = "idle" /\ UNCHANGED <<setting, dp, st, old>>
    BY <1>10, Zenon DEF Released, DestroyDone, RemoveFinalizer, Return, LetGo
  <2> QED BY <2>1, Blanks, Zenon
<1>11. CASE DestroyWait
  <2>1. pc = "go" /\ UNCHANGED <<obj, setting, dp, st, old>>
    BY <1>11, Zenon DEF DestroyWait, Finalizing
  <2>2. pc' # "idle" => sys' = sys /\ wst' = [wst EXCEPT !.op = "destroy", !.reason = "other"]
    BY <1>11, Zenon DEF DestroyWait, Store, Return
  <2>3. [wst EXCEPT !.op = "destroy", !.reason = "other"].acl = wst.acl
    BY <1>t, StoredFields
  <2> QED BY <2>1, <2>2, <2>3, Zenon
<1>12. CASE DestroyFails
  <2>1. pc = "go" /\ UNCHANGED <<obj, setting, dp, st, old>>
    BY <1>12, Zenon DEF DestroyFails, Finalizing
  <2>2. PICK n : Store([wst EXCEPT !.op = None, !.reason = "destroy", !.attempts = n])
    BY <1>12, Zenon DEF DestroyFails
  <2> QED BY <1>t, <2>1, <2>2, StoredFields DEF Store
<1>13. CASE UpdateStatus
  BY <1>13, Zenon DEF UpdateStatus, Return
<1>14. CASE PassEnds
  BY <1>14, Zenon DEF PassEnds, Return
<1> QED
  BY <1>1, <1>2, <1>3, <1>4, <1>5, <1>6, <1>8, <1>9, <1>10, <1>11, <1>12, <1>13, <1>14, Zenon
     DEF Operator, Reconcile

-----------------------------------------------------------------------------
(***************************************************************************)
(* AppliedIsWritten.  While patient humans edit only when nothing runs, a  *)
(* pass and the Jobs it starts work on the spec the object still has.  So  *)
(* an ACL that a status or a finished Job vouches for is the pool's.       *)
(***************************************************************************)
Vouched ==
    \/ st.acl = obj.acl \/ old.acl = obj.acl \/ (pc # "idle" /\ wst.acl = obj.acl)
    \/ \E op \in {"create", "acl"} : Done(jobs[op]) /\ jobs[op].out.kind = "ok"

\* What WrittenInv says of an object that is there, while humans are patient.
WrittenNow ==
    /\ pc # "idle" => sys = obj
    /\ \A op \in Ops : jobs[op].phase \in {"running", "finished"} => jobs[op].cmd.acl = obj.acl
    /\ st.acl <= obj.acl /\ old.acl <= obj.acl /\ (pc # "idle" => wst.acl <= obj.acl)
    /\ dp # None /\ Vouched => dp.acl = obj.acl

WrittenInv == TypeInv /\ (setting.patient /\ obj.exists => WrittenNow)

\* A pass keeps WrittenNow: it starts Jobs for the spec of the object, and stores
\* its ACL only when a Job vouches for it.
LEMMA WrittenPass ==
    ASSUME TypeInv, WrittenNow, obj'.exists, Operator \/ PassEnds PROVE WrittenNow'
<1>t. TypeOK /\ obj.acl \in Nat /\ Ops \subseteq Names /\ {"create", "acl"} \subseteq Ops
  BY TypeFacts, Zenon DEF TypeInv, Objects, Names, Ops
<1>a. /\ dp' = dp /\ obj'.acl = obj.acl
      /\ pc' # "idle" => obj' = obj /\ sys' = IF pc = "idle" THEN obj ELSE sys
      /\ (st' = st /\ old' = old) \/ (pc = "update" /\ st' = wst /\ old' = st)
      /\ pc' # "idle" =>
           \/ pc = "idle" /\ wst' \in {st, old}
           \/ pc # "idle" /\ wst'.acl = wst.acl
           \/ /\ pc # "idle" /\ wst'.acl = sys.acl
              /\ \E op \in {"create", "acl"} : Done(jobs[op]) /\ jobs[op].out.kind = "ok"
  BY PassAcl, Zenon
<1>j. \A m \in Ops :
        /\ jobs'[m].phase = "finished" => jobs'[m] = jobs[m]
        /\ jobs'[m].phase = "running" =>
             \/ jobs'[m] = jobs[m]
             \/ pc = "go" /\ jobs[m].phase = "absent" /\ jobs'[m].cmd = SpecOf(sys)
  BY <1>t, PassJobs, Zenon
<1>1. pc' # "idle" => sys' = obj'
  BY <1>a, Zenon DEF WrittenNow
<1>2. \A op \in Ops : jobs'[op].phase \in {"running", "finished"} => jobs'[op].cmd.acl = obj'.acl
  <2>1. pc = "go" => SpecOf(sys).acl = obj.acl
    BY Zenon DEF WrittenNow, SpecOf
  <2> QED BY <1>a, <1>j, <2>1, Zenon DEF WrittenNow
<1>3. st'.acl <= obj'.acl /\ old'.acl <= obj'.acl
  BY <1>a, Zenon DEF WrittenNow
<1>4. pc' # "idle" => wst'.acl <= obj'.acl
  <2>1. obj.acl <= obj.acl
    BY <1>t
  <2> QED BY <1>a, <2>1, Zenon DEF WrittenNow
<1>5. Vouched' => Vouched
  <2>1. st'.acl = obj'.acl \/ old'.acl = obj'.acl => Vouched
    BY <1>a, Zenon DEF Vouched
  <2>2. pc' # "idle" /\ wst'.acl = obj'.acl => Vouched
    BY <1>a, Zenon DEF Vouched
  <2>3. (\E op \in {"create", "acl"} : Done(jobs'[op]) /\ jobs'[op].out.kind = "ok") => Vouched
    BY <1>j, <1>t, Zenon DEF Vouched, Done
  <2> QED BY <2>1, <2>2, <2>3, Zenon DEF Vouched
<1> QED BY <1>1, <1>2, <1>3, <1>4, <1>5, <1>a, Zenon DEF WrittenNow

\* WrittenNow is kept when the object, the pool and what vouches for its ACL stay,
\* or less of it.
LEMMA WrittenQuiet ==
    ASSUME WrittenNow, UNCHANGED <<st, old, pc, wst, sys>>, obj'.acl = obj.acl, pc # "idle" => obj' = obj,
           \A m \in Ops : jobs'[m].phase \in {"running", "finished"} => jobs'[m] = jobs[m],
           dp' = dp \/ dp' = None \/ (dp # None /\ dp'.acl = dp.acl)
    PROVE  WrittenNow'
<1>1. {"create", "acl"} \subseteq Ops
  BY Zenon DEF Ops
<1>2. Vouched' => Vouched
  BY <1>1, Zenon DEF Vouched, Done
<1> QED BY <1>2, Zenon DEF WrittenNow

\* An edit of patient humans leaves nothing that vouches for the ACL.
LEMMA WrittenEdit ==
    ASSUME TypeInv, WrittenNow, setting.patient, Edit PROVE WrittenNow'
<1>t. /\ obj \in Objects /\ obj.acl \in Nat /\ st.acl \in Nat /\ old.acl \in Nat
      /\ {"create", "acl"} \subseteq Ops
  BY TypeFacts, Zenon DEF TypeInv, Objects, Statuses, Ops
<1>c. /\ pc = "idle" /\ \A op \in Ops : jobs[op].phase = "absent"
      /\ UNCHANGED <<st, old, pc, wst, sys, jobs, dp>>
  BY Zenon DEF Edit, Calm, memory
<1>o. obj'.acl = obj.acl \/ obj'.acl = obj.acl + 1
  <2>1. [obj EXCEPT !.gen = @ + 1, !.ranks = @ + 1].acl = obj.acl
    BY <1>t, Zenon DEF Objects
  <2>2. [obj EXCEPT !.gen = @ + 1, !.acl = @ + 1].acl = obj.acl + 1
    BY <1>t, Zenon DEF Objects
  <2> QED BY <2>1, <2>2, Zenon DEF Edit
<1>1. CASE obj'.acl = obj.acl
  BY <1>1, <1>c, WrittenQuiet, Zenon
<1>2. CASE obj'.acl = obj.acl + 1
  <2>1. st.acl <= obj.acl /\ old.acl <= obj.acl
    BY Zenon DEF WrittenNow
  <2>2. st'.acl <= obj'.acl /\ old'.acl <= obj'.acl /\ st'.acl # obj'.acl /\ old'.acl # obj'.acl
    BY <1>2, <1>c, <1>t, <2>1
  <2>3. ~Vouched'
    BY <1>c, <1>t, <2>2, Zenon DEF Vouched, Done
  <2> QED BY <1>c, <2>2, <2>3, Zenon DEF WrittenNow
<1> QED BY <1>1, <1>2, <1>o, Zenon

\* An operation that ends leaves the pool the ACL it vouches for.
LEMMA WrittenOp ==
    ASSUME TypeInv, WrittenNow, NEW op \in Ops, OpFinishes(op) PROVE WrittenNow'
<1>t. TypeOK /\ Ops \subseteq Names /\ {"create", "acl"} \subseteq Ops
  BY Zenon DEF TypeInv, Names, Ops
<1>u. UNCHANGED <<st, old, pc, wst, sys, obj>>
  BY Zenon DEF OpFinishes, memory
<1>o. /\ jobs[op].phase = "running"
      /\ jobs'[op].phase = "finished" /\ jobs'[op].cmd = jobs[op].cmd
      /\ \A m \in Ops : m # op => jobs'[m] = jobs[m]
      /\ op = "create" =>
           \/ dp' = dp /\ jobs'[op].out.kind # "ok"
           \/ dp'.acl = jobs[op].cmd.acl
      /\ op = "destroy" => dp' \in {dp, None}
      /\ op \notin {"create", "destroy"} =>
            \/ dp' = dp /\ (jobs'[op].out.kind = "ok" => dp = None)
            \/ dp # None /\ dp'.acl = IF op = "acl" THEN jobs[op].cmd.acl ELSE dp.acl
  BY <1>t, OpOutcome, Zenon
<1>c. jobs[op].cmd.acl = obj.acl
  BY <1>o, Zenon DEF WrittenNow
<1>1. \A m \in Ops : jobs'[m].phase \in {"running", "finished"} => jobs'[m].cmd.acl = obj'.acl
  BY <1>c, <1>o, <1>u, Zenon DEF WrittenNow
<1>2. CASE dp'.acl = obj.acl
  BY <1>1, <1>2, <1>u, Zenon DEF WrittenNow
<1>3. CASE dp' = None
  BY <1>1, <1>3, <1>u, Zenon DEF WrittenNow
<1>4. CASE /\ dp' = dp \/ (dp # None /\ dp'.acl = dp.acl)
           /\ op \in {"create", "acl"} => jobs'[op].out.kind # "ok"
  <2>1. Vouched' => Vouched
    BY <1>4, <1>o, <1>t, <1>u, Zenon DEF Vouched
  <2> QED BY <1>1, <1>4, <1>u, <2>1, Zenon DEF WrittenNow
<1> QED BY <1>2, <1>3, <1>4, <1>c, <1>o, Zenon

\* WrittenInv is kept by every step.
LEMMA WrittenStep == WrittenInv /\ [Next]_vars => WrittenInv'
<1> SUFFICES ASSUME WrittenInv, [Next]_vars PROVE WrittenInv'
  BY Zenon
<1> USE DEF memory, history, bounds
<1>t. TypeInv /\ TypeInv' /\ TypeOK
  BY TypeStep, Zenon DEF WrittenInv, TypeInv
<1>s. setting' = setting /\ (obj'.exists => obj.exists)
  <2>1. CASE Operator \/ PassEnds
    BY <1>t, <2>1, PassAcl, Zenon
  <2>2. CASE ~(Operator \/ PassEnds)
    <3>1. setting' = setting
      BY <2>2, Zenon DEF Next, Human, Edit, Approve, Withdraw, Delete, SystemFormatted, SystemGoes, HoldExpires,
                  Cluster, QueryFinishes, JobsRemoved, OpFinishes, Outsider, vars
    <3>2. obj' = obj \/ obj.exists \/ obj.deleted
      BY <2>2, Zenon DEF Next, Human, Edit, Approve, Withdraw, Delete, SystemFormatted, SystemGoes, HoldExpires,
                  Cluster, QueryFinishes, JobsRemoved, OpFinishes, Outsider, vars
    <3>3. CASE obj' = [obj EXCEPT !.approved = TRUE] \/ obj' = [obj EXCEPT !.approved = FALSE]
      <4>1. obj \in Objects
        BY <1>t, TypeFacts, Zenon
      <4>2. obj'.exists = obj.exists
        BY <3>3, <4>1, Zenon DEF Objects
      <4> QED BY <3>1, <4>2, Zenon
    <3>4. obj' = obj \/ obj.exists \/ obj' = [obj EXCEPT !.approved = TRUE] \/ obj' = [obj EXCEPT !.approved = FALSE]
      BY <2>2, Zenon DEF Next, Human, Edit, Approve, Withdraw, Delete, SystemFormatted, SystemGoes, HoldExpires,
                  Cluster, QueryFinishes, JobsRemoved, OpFinishes, Outsider, vars
    <3> QED BY <3>1, <3>3, <3>4, Zenon
  <2> QED BY <2>1, <2>2, Zenon
<1>i. SUFFICES ASSUME setting.patient, obj.exists, obj'.exists, WrittenNow PROVE WrittenNow'
  BY <1>s, <1>t, Zenon DEF WrittenInv
<1>1. CASE Operator \/ PassEnds
  BY <1>1, <1>i, <1>t, WrittenPass, Zenon
<1>2. CASE Edit
  BY <1>2, <1>i, <1>t, WrittenEdit, Zenon
<1>3. CASE \E b \in BOOLEAN : Delete(b)
  <2>1. PICK b \in BOOLEAN : Delete(b)
    BY <1>3, Zenon
  <2>2. obj' = [obj EXCEPT !.deleted = TRUE, !.approved = b]
    BY <1>i, <2>1, Blanks, Zenon DEF Delete
  <2>3. obj \in Objects
    BY <1>t, TypeFacts, Zenon
  <2>4. obj'.acl = obj.acl
    BY <2>2, <2>3, Zenon DEF Objects
  <2>5. pc = "idle" /\ UNCHANGED <<st, old, pc, wst, sys, jobs, dp>>
    BY <1>i, <2>1, Zenon DEF Delete, Calm
  <2> QED BY <1>i, <2>4, <2>5, WrittenQuiet, Zenon
<1>4. CASE Approve \/ Withdraw
  BY <1>4, <1>i, Zenon DEF Approve, Withdraw
<1>5. CASE SystemFormatted \/ SystemGoes \/ HoldExpires \/ UNCHANGED vars
  <2>1. UNCHANGED <<st, old, pc, wst, sys, obj, jobs, dp>>
    BY <1>5, Zenon DEF SystemFormatted, SystemGoes, HoldExpires, vars
  <2> QED BY <1>i, <2>1, WrittenQuiet, Zenon
<1>6. CASE QueryFinishes
  <2>1. UNCHANGED <<st, old, pc, wst, sys, obj, dp>>
    BY <1>6, Zenon DEF QueryFinishes
  <2>2. \A m \in Ops : jobs'[m] = jobs[m]
    BY <1>6, <1>t, TypeFacts, Zenon DEF QueryFinishes, Ends, Jobs, Names, Ops
  <2> QED BY <1>i, <2>1, <2>2, WrittenQuiet, Zenon
<1>7. CASE JobsRemoved
  <2>1. UNCHANGED <<st, old, pc, wst, sys, obj, dp>>
    BY <1>7, Zenon DEF JobsRemoved
  <2>2. \A m \in Ops : jobs'[m].phase \in {"running", "finished"} => jobs'[m] = jobs[m]
    BY <1>7, <1>t, TypeFacts, Zenon DEF JobsRemoved, Jobs, Names, NoJob
  <2> QED BY <1>i, <2>1, <2>2, WrittenQuiet, Zenon
<1>8. CASE \E op \in Ops : OpFinishes(op)
  BY <1>8, <1>i, <1>t, WrittenOp, Zenon
<1>9. CASE Outsider
  <2>1. UNCHANGED <<st, old, pc, wst, sys, obj, jobs>> /\ dp # None
    BY <1>9, Zenon DEF Outsider
  <2>2. dp \in DaosPools
    BY <1>t, <2>1, TypeFacts, Zenon
  <2>3. \A S : [dp EXCEPT !.props = S].acl = dp.acl
    BY <2>2, Zenon DEF DaosPools
  <2>4. dp' = None \/ dp'.acl = dp.acl
    BY <1>9, <2>3, Zenon DEF Outsider
  <2> QED BY <1>i, <2>1, <2>4, WrittenQuiet, Zenon
<1> QED
  BY <1>1, <1>2, <1>3, <1>4, <1>5, <1>6, <1>7, <1>8, <1>9, Zenon DEF Next, Human, Cluster

\* AppliedACLHash (api/v1alpha1/daospool_types.go:123): with any bounds on edits and
\* troubles, when the status calls the spec's ACL the applied one, it is the ACL of
\* the pool, as long as nobody edits the spec while an operation runs.
THEOREM AppliedSafely == Spec => []AppliedIsWritten
<1>1. Init => WrittenInv
  <2> SUFFICES ASSUME Init PROVE WrittenInv
    BY Zenon
  <2>1. TypeInv
    BY TypeStart, Zenon
  <2>2. obj.acl = 1 /\ st.acl = 0 /\ old.acl = 0 /\ pc = "idle" /\ dp = None
    BY Zenon DEF Init, NoObj, NoStatus
  <2>3. \A op \in Ops : jobs[op].phase = "absent"
    BY Zenon DEF Init, NoJob
  <2> QED BY <2>1, <2>2, <2>3 DEF WrittenInv, WrittenNow
<1>2. WrittenInv => AppliedIsWritten
  BY Zenon DEF WrittenInv, WrittenNow, Vouched, AppliedIsWritten
<1> QED BY <1>1, <1>2, WrittenStep, PTL DEF Spec

-----------------------------------------------------------------------------
(***************************************************************************)
(* OwnsSafely: a DaosPool implements the safety part of OwnedData.         *)
(*                                                                         *)
(* OwnedInv keeps the books on creates.  No more pools were made than      *)
(* there were doubts, and one; what stands between the making of a pool    *)
(* and a second create is the Job that tells of it, the status that names  *)
(* it, or a doubt.  A pass that read a status behind the last one written  *)
(* is such a doubt, and the books balance without it until that pass acts. *)
(* KnownInv adds what a destroy needs: a pool made after it has an         *)
(* identity that no status holds.                                          *)
(***************************************************************************)
Active(name) == jobs[name].phase \in {"running", "finished"}

Creating == jobs["create"].phase = "running"

ToldOfPool == Done(jobs["query"]) /\ jobs["query"].out.kind \in Full \cup Health

Doubts == faults + stale + unsure

\* The status that will be stored next.
Coming == IF pc = "update" THEN wst ELSE st

Sure(s) == s.uuid # 0 /\ s.op # "create"

\* With d doubts and s the status that will be stored next.
Books(d, s) ==
    /\ made <= d + 1 /\ (Creating => made <= d)
    /\ obj.exists /\ Creating /\ made = d => s.op = "create" \/ Sure(s)
    /\ obj.exists /\ made = d + 1 => Sure(s) \/ (Done(jobs["create"]) /\ s.op = "create")

Accounted ==
    /\ Books(Doubts, Coming)
    /\ pc = "go" /\ wst # st => Doubts # 0 /\ Books(Doubts - 1, st)

\* What a pass read is not ahead of the object.
CopiesAgree ==
    /\ pc # "idle" => sys.exists
    /\ sys.finalizer => obj.finalizer
    /\ obj.finalizer \/ obj.deleted => obj.exists
    /\ sys.deleted => obj.deleted \/ ~obj.exists

\* Without its finalizer an object has done nothing.
NothingYet ==
    obj.exists /\ ~obj.finalizer => made = 0 /\ ~Active("create") /\ ~Active("destroy")

Approvals ==
    /\ obj.approved \/ sys.approved => asked
    /\ "destroy" \in {st.op, old.op, wst.op} \/ jobs["destroy"].phase = "running" => asked

Identified ==
    /\ dp # None => dp.id # 0
    /\ ToldOfPool => jobs["query"].out.pool.id # 0
    /\ Done(jobs["create"]) /\ jobs["create"].out.kind = "ok" => jobs["create"].out.pool.id # 0

OwnedInv ==
    /\ TypeInv /\ CopiesAgree /\ NothingYet /\ Approvals /\ Identified /\ Accounted

\* No identity is known before a pool has it.
KnownIds ==
    /\ st.uuid <= made /\ old.uuid <= made /\ wst.uuid <= made
    /\ dp # None => dp.id <= made
    /\ ToldOfPool => jobs["query"].out.pool.id <= made
    /\ Done(jobs["create"]) /\ jobs["create"].out.kind = "ok" => jobs["create"].out.pool.id <= made

\* A destroy is the work of passes that read the deletion, which learn of no pool.
Finalized ==
    "destroy" \in {st.op, old.op, wst.op} \/ Active("destroy") =>
        (obj.deleted \/ ~obj.exists) /\ (pc # "idle" => sys.deleted)

\* A pool that is there after a destroy is one no status knows.
DestroyedForGood ==
    Done(jobs["destroy"]) /\ jobs["destroy"].out.kind \in Destroyed =>
        dp = None \/ dp.id \notin {st.uuid, old.uuid, wst.uuid}

KnownInv == OwnedInv /\ KnownIds /\ Finalized /\ DestroyedForGood

\* What a pass may do that touches neither the create nor the destroy Job: begin,
\* end, note something in the status it builds, and probe.
PlainPass ==
    /\ UNCHANGED <<dp, made, asked, unsure>>
    /\ jobs'["create"] = jobs["create"] /\ jobs'["destroy"] = jobs["destroy"]
    /\ \/ obj' = obj /\ sys' \in {sys, obj, NoObj}
       \/ obj' = [obj EXCEPT !.finalizer = TRUE] /\ obj.exists /\ sys' = NoObj
    /\ pc' # "idle" => sys'.exists
    /\ jobs'["query"] = jobs["query"]
         \/ (pc = "go" /\ wst.op = None /\ wst'.op # "create" /\ ~Done(jobs'["query"]))
    /\ \/ /\ pc = "idle" /\ pc' = "go" /\ sys' = obj /\ UNCHANGED <<st, old, faults>>
          /\ (wst' = st /\ stale' = stale) \/ (wst' = old /\ stale' = stale + 1)
       \/ pc' = "idle" /\ wst' = NoStatus /\ pc = "go" /\ UNCHANGED <<st, old, faults, stale>>
       \/ /\ pc' = "idle" /\ wst' = NoStatus /\ pc = "update" /\ UNCHANGED <<faults, stale>>
          /\ (st' = wst /\ old' = st) \/ (st' = st /\ old' = old /\ ~obj.exists)
       \/ pc' = "idle" /\ wst' = NoStatus /\ UNCHANGED <<st, old, stale>> /\ faults' = faults + 1
       \/ /\ pc' = "update" /\ pc = "go" /\ sys' = sys /\ UNCHANGED <<st, old, faults, stale>>
          /\ wst'.op = "create" <=> wst.op = "create"
          /\ wst'.op = "destroy" => wst.op = "destroy"
          /\ \/ wst'.uuid = wst.uuid
             \/ /\ wst.op = None /\ wst'.op # "create" /\ wst'.op # "destroy"
                /\ ~sys.deleted /\ ToldOfPool
                /\ wst'.uuid = jobs["query"].out.pool.id

\* The numbers OwnedInv counts with.
LEMMA Counts ==
    ASSUME TypeOK
    PROVE  /\ made \in Nat /\ faults \in Nat /\ stale \in Nat /\ unsure \in Nat /\ Doubts \in Nat
           /\ Doubts = faults + stale + unsure
  BY TypeFacts DEF Doubts

\* A plain step of a pass keeps Accounted.
LEMMA AccountedPlain ==
    ASSUME OwnedInv, TypeInv', PlainPass PROVE Accounted'
<1>t. /\ made \in Nat /\ faults \in Nat /\ stale \in Nat /\ unsure \in Nat /\ Doubts \in Nat
      /\ obj \in Objects
  BY Counts, TypeFacts, Zenon DEF OwnedInv, TypeInv
<1>u. made' = made /\ unsure' = unsure /\ Creating' = Creating /\ jobs'["create"] = jobs["create"]
  BY Zenon DEF PlainPass, Creating
<1>e. obj'.exists => obj.exists
  BY <1>t, FinalizerAdded, Zenon DEF PlainPass
<1>b. Books(Doubts, Coming)
  BY Zenon DEF OwnedInv, Accounted
<1>c. made <= Doubts + 1 /\ (Creating => made <= Doubts)
  BY <1>b, Zenon DEF Books
<1>1. CASE Doubts' = Doubts + 1 /\ ~(pc' = "go" /\ wst' # st')
  <2>1. made' <= Doubts' /\ (Creating' => made' # Doubts') /\ made' # Doubts' + 1
    BY <1>1, <1>c, <1>t, <1>u
  <2>2. made' <= Doubts' + 1
    BY <1>1, <1>t, <1>u, <2>1
  <2>3. Books(Doubts, Coming)'
    BY <2>1, <2>2, Zenon DEF Books
  <2> QED BY <1>1, <2>3, Zenon DEF Accounted
<1>2. CASE pc' = "go" /\ wst' # st'
  <2>1. pc = "idle" /\ st' = st /\ faults' = faults /\ stale' = stale + 1
    BY <1>2, Zenon DEF PlainPass
  <2>2. Doubts' = Doubts + 1 /\ Doubts' - 1 = Doubts /\ Doubts' # 0
    BY <1>t, <1>u, <2>1 DEF Doubts
  <2>3. Coming = st
    BY <2>1, Zenon DEF Coming
  <2>4. /\ made' <= Doubts + 1 /\ (Creating' => made' <= Doubts)
        /\ obj'.exists /\ Creating' /\ made' = Doubts => st'.op = "create" \/ Sure(st')
        /\ obj'.exists /\ made' = Doubts + 1 => Sure(st') \/ (Done(jobs'["create"]) /\ st'.op = "create")
    BY <1>b, <1>e, <1>u, <2>1, <2>3, Zenon DEF Books, Sure
  <2>5. Books(Doubts - 1, st)'
    BY <2>2, <2>4, Zenon DEF Books, Sure
  <2>6. made' <= Doubts' /\ (Creating' => made' # Doubts') /\ made' # Doubts' + 1 /\ made' <= Doubts' + 1
    BY <1>t, <1>u, <2>2, <2>4
  <2>7. Books(Doubts, Coming)'
    BY <2>6, Zenon DEF Books
  <2> QED BY <2>2, <2>5, <2>7, Zenon DEF Accounted
<1>3. CASE Doubts' = Doubts /\ ~(pc' = "go" /\ wst' # st')
  <2>f. faults' # faults + 1 /\ stale' # stale + 1
    <3>1. /\ faults' = faults \/ faults' = faults + 1
          /\ stale' = stale \/ stale' = stale + 1
      BY Zenon DEF PlainPass
    <3>2. faults' + stale' + unsure = faults + stale + unsure
      BY <1>3, <1>u, Zenon DEF Doubts
    <3>3. faults' = faults + 1 /\ stale' = stale => faults + 1 + stale + unsure = faults + stale + unsure
      BY <3>2, Zenon
    <3>4. faults' = faults /\ stale' = stale + 1 => faults + (stale + 1) + unsure = faults + stale + unsure
      BY <3>2, Zenon
    <3>5. faults' = faults + 1 /\ stale' = stale + 1 => faults + 1 + (stale + 1) + unsure = faults + stale + unsure
      BY <3>2, Zenon
    <3> QED BY <1>t, <3>1, <3>3, <3>4, <3>5
  <2>1. CASE pc = "go" /\ wst # st /\ pc' = "update"
    <3>1. Books(Doubts - 1, st) /\ Doubts # 0
      BY <2>1, Zenon DEF OwnedInv, Accounted
    <3>2. made <= Doubts /\ (Creating => made <= Doubts - 1)
      BY <1>t, <3>1 DEF Books
    <3>3. made' <= Doubts' + 1 /\ (Creating' => made' <= Doubts') /\ (Creating' => made' # Doubts') /\ made' # Doubts' + 1
      BY <1>3, <1>t, <1>u, <3>2
    <3>4. Books(Doubts, Coming)'
      BY <3>3, Zenon DEF Books
    <3> QED BY <1>3, <3>4, Zenon DEF Accounted
  <2>2. CASE ~(pc = "go" /\ wst # st /\ pc' = "update")
    <3>1. obj.exists => /\ Coming.op = "create" => Coming'.op = "create"
                        /\ Sure(Coming) => Sure(Coming')
      BY <2>2, <2>f, Blanks, Zenon DEF PlainPass, Coming, Sure, OwnedInv, Identified
    <3>2. Books(Doubts, Coming)'
      BY <1>3, <1>b, <1>e, <1>u, <3>1, Zenon DEF Books
    <3> QED BY <1>3, <3>2, Zenon DEF Accounted
  <2> QED BY <2>1, <2>2, Zenon
<1>4. Doubts' = Doubts \/ Doubts' = Doubts + 1
  <2>1. /\ faults' = faults \/ faults' = faults + 1
        /\ stale' = stale \/ stale' = stale + 1
        /\ faults' = faults \/ stale' = stale
    BY Zenon DEF PlainPass
  <2> QED BY <1>t, <1>u, <2>1 DEF Doubts
<1> QED BY <1>1, <1>2, <1>3, <1>4, Zenon

\* A plain step of a pass keeps OwnedInv.
LEMMA OwnedPlain ==
    ASSUME OwnedInv, TypeInv', PlainPass PROVE OwnedInv'
<1>t. obj \in Objects /\ stale \in Nat
  BY Counts, TypeFacts, Zenon DEF OwnedInv, TypeInv
<1>o. CopiesAgree /\ NothingYet /\ Approvals /\ Identified
  BY Zenon DEF OwnedInv
<1>f. obj' # obj => /\ obj'.exists /\ obj.exists /\ obj'.finalizer /\ sys' = NoObj
                    /\ obj'.deleted = obj.deleted /\ obj'.approved = obj.approved
  BY <1>t, FinalizerAdded, Zenon DEF PlainPass
<1>1. CopiesAgree'
  <2>1. pc' # "idle" => sys'.exists
    BY Zenon DEF PlainPass
  <2>2. (sys'.finalizer => obj'.finalizer) /\ (sys'.deleted => obj'.deleted \/ ~obj'.exists)
    BY <1>o, Blanks, Zenon DEF PlainPass, CopiesAgree
  <2>3. obj'.finalizer \/ obj'.deleted => obj'.exists
    BY <1>f, <1>o, Zenon DEF CopiesAgree
  <2> QED BY <2>1, <2>2, <2>3, Zenon DEF CopiesAgree
<1>2. NothingYet'
  BY <1>o, <1>f, Zenon DEF PlainPass, NothingYet, Active
<1>3. Approvals'
  <2>1. obj'.approved \/ sys'.approved => asked'
    BY <1>o, <1>f, Blanks, Zenon DEF PlainPass, Approvals
  <2>2. "destroy" \in {st'.op, old'.op, wst'.op} => asked'
    BY <1>o, Blanks, Zenon DEF PlainPass, Approvals
  <2> QED BY <1>o, <2>1, <2>2, Zenon DEF PlainPass, Approvals
<1>4. Identified'
  BY <1>o, Zenon DEF PlainPass, Identified, ToldOfPool
<1>5. Accounted'
  BY AccountedPlain, Zenon
<1> QED BY <1>1, <1>2, <1>3, <1>4, <1>5, Zenon DEF OwnedInv

\* Steps of a pass that run no Job and let nothing go are plain.
LEMMA PlainWithoutJobs ==
    ASSUME OwnedInv, BeginPass \/ NoSystem \/ AddFinalizer \/ Held \/ UpdateStatus \/ PassEnds
    PROVE  PlainPass
<1> USE DEF history, bounds
<1>t. wst \in Statuses /\ CopiesAgree
  BY TypeFacts, Zenon DEF OwnedInv, TypeInv
<1>1. CASE BeginPass
  BY <1>1, Zenon DEF BeginPass, PlainPass
<1>2. CASE AddFinalizer
  BY <1>2, <1>t, Zenon DEF AddFinalizer, Current, Return, PlainPass, CopiesAgree
<1>3. CASE NoSystem
  <2>1. wst'.op = wst.op /\ wst'.uuid = wst.uuid
    BY <1>3, <1>t, StoredFields, Zenon DEF NoSystem, Store
  <2> QED BY <1>3, <1>t, <2>1, Zenon DEF NoSystem, Store, PlainPass, CopiesAgree
<1>4. CASE Held
  BY <1>4, Zenon DEF Held, Live, Return, PlainPass
<1>5. CASE UpdateStatus
  BY <1>5, Zenon DEF UpdateStatus, Return, PlainPass
<1>6. CASE PassEnds
  BY <1>6, Zenon DEF PassEnds, Return, PlainPass
<1> QED BY <1>1, <1>2, <1>3, <1>4, <1>5, <1>6, Zenon

\* A plain step stores a status and probes, or runs the Job of another operation.
LEMMA PlainStore ==
    ASSUME OwnedInv, pc = "go", pc' = "update", sys' = sys,
           UNCHANGED <<obj, st, old, dp, made, asked, unsure, faults, stale>>,
           jobs'["create"] = jobs["create"], jobs'["destroy"] = jobs["destroy"],
           jobs'["query"] = jobs["query"]
             \/ (wst.op = None /\ wst'.op # "create" /\ ~Done(jobs'["query"])),
           wst'.op = "create" <=> wst.op = "create",
           wst'.op = "destroy" => wst.op = "destroy",
           \/ wst'.uuid = wst.uuid
           \/ /\ wst.op = None /\ wst'.op # "create" /\ wst'.op # "destroy"
              /\ ~sys.deleted /\ ToldOfPool
              /\ wst'.uuid = jobs["query"].out.pool.id
    PROVE  PlainPass
  BY Zenon DEF OwnedInv, CopiesAgree, PlainPass

\* Steps of a pass that probe or collect an answer are plain, except the one that
\* starts a create.
LEMMA PlainProbe ==
    ASSUME OwnedInv, Probing \/ QueryFails \/ (Missing /\ ~Collect(wst, "create")) \/ HealthOnly \/ Found
    PROVE  PlainPass
<1> USE DEF history, bounds
<1>t. /\ wst \in Statuses /\ TypeOK
      /\ {"create", "extend", "acl", "reintmode", "selfheal", "destroy", "query"} = Names
  BY TypeFacts, JobsType, Zenon DEF OwnedInv, TypeInv
<1>l. pc = "go" /\ wst.op = None /\ ~sys.deleted
  BY Zenon DEF Probing, QueryFails, Missing, HealthOnly, Found, Answered, Live
<1>c. ASSUME NEW s \in Statuses, NEW op \in {None, "extend", "acl", "reintmode", "selfheal"},
             Collect(s, op), s.op = wst.op, Done(jobs["query"]),
             \/ s.uuid = wst.uuid
             \/ ToldOfPool /\ s.uuid = jobs["query"].out.pool.id
      PROVE  PlainPass
  <2>1. /\ pc' = "update" /\ sys' = sys /\ wst'.uuid = s.uuid /\ wst'.op = op
    BY <1>c, <1>l, CollectStatus, Zenon
  <2>2. op # "create" /\ op # "destroy"
    BY Blanks, Zenon
  <2>3. /\ jobs'["create"] = jobs["create"] /\ jobs'["destroy"] = jobs["destroy"]
        /\ jobs'["query"] = AfterRun(jobs["query"], SpecOf(sys))
    BY <1>c, <1>t, <2>2, JobsType, Zenon
  <2>4. ~Done(jobs'["query"])
    BY <1>c, <2>3 DEF AfterRun, Deleting, Done
  <2>5. UNCHANGED <<obj, st, old, dp, made, asked, unsure, faults, stale>>
    BY <1>c, Zenon DEF Collect
  <2> QED BY <1>c, <1>l, <2>1, <2>2, <2>3, <2>4, <2>5, PlainStore, Blanks, Zenon
<1>1. CASE RunJob("query") /\ Store(wst) /\ UNCHANGED <<obj, st, old, dp, made, asked, unsure, faults, stale>>
  <2>1. /\ jobs'["create"] = jobs["create"] /\ jobs'["destroy"] = jobs["destroy"]
        /\ jobs'["query"] = AfterRun(jobs["query"], SpecOf(sys))
    BY <1>1, <1>t, JobsType, Zenon
  <2>2. ~Done(jobs'["query"])
    BY <2>1 DEF AfterRun, Running, Deleting, Done
  <2> QED BY <1>1, <1>l, <2>1, <2>2, PlainStore, Blanks, Zenon DEF Store
<1>2. CASE Probing
  BY <1>1, <1>2, Zenon DEF Probing
<1>3. CASE QueryFails
  BY <1>3, <1>c, <1>t, Zenon DEF QueryFails, Answered
<1>4. CASE Missing /\ ~Collect(wst, "create")
  <2>1. CASE Collect(wst, None)
    BY <1>4, <1>c, <1>t, <2>1, Zenon DEF Missing, Answered
  <2>2. CASE ~Collect(wst, None)
    BY <1>1, <1>4, <2>2, Zenon DEF Missing
  <2> QED BY <2>1, <2>2, Zenon
<1>5. CASE HealthOnly \/ Found
  <2> DEFINE s == Queried(jobs["query"].out)
  <2>1. Answered(Full \cup Health)
    BY <1>5, Zenon DEF HealthOnly, Found, Answered
  <2>2. s \in Statuses /\ s.op = wst.op /\ s.uuid = jobs["query"].out.pool.id
    BY <1>t, <2>1, QueriedType, Zenon
  <2>3. Done(jobs["query"]) /\ ToldOfPool
    BY <2>1, Zenon DEF Answered, ToldOfPool
  <2>4. First(s) \in {None, "extend", "acl", "reintmode", "selfheal"}
    BY Zenon DEF First
  <2>5. \E op \in {None, "extend", "acl", "reintmode", "selfheal"} : Collect(s, op)
    BY <1>5, <2>4, Zenon DEF HealthOnly, Found
  <2> HIDE DEF s
  <2> QED BY <1>c, <2>2, <2>3, <2>5, Zenon
<1> QED BY <1>2, <1>3, <1>4, <1>5, Zenon

\* What a pass that runs the create or the destroy Job knows of the object, and how
\* many pools were made when its create is about to start.
LEMMA ActsOnOwn ==
    ASSUME OwnedInv, pc = "go", sys.finalizer
    PROVE  /\ obj.exists /\ obj.finalizer /\ Coming = st
           /\ wst # st \/ (~Sure(st) /\ (st.op # "create" \/ ~Done(jobs["create"]))) => made <= Doubts
<1>1. obj.exists /\ obj.finalizer /\ Coming = st
  BY Zenon DEF OwnedInv, CopiesAgree, Coming
<1>2. made \in Nat /\ Doubts \in Nat
  BY Counts, Zenon DEF OwnedInv, TypeInv
<1>3. CASE wst # st
  <2>1. made <= (Doubts - 1) + 1
    BY <1>3, Zenon DEF OwnedInv, Accounted, Books
  <2> QED BY <1>1, <1>2, <2>1
<1>4. CASE ~Sure(st) /\ (st.op # "create" \/ ~Done(jobs["create"]))
  <2>1. made <= Doubts + 1 /\ made # Doubts + 1
    BY <1>1, <1>4, Zenon DEF OwnedInv, Accounted, Books
  <2> QED BY <1>1, <1>2, <2>1
<1> QED BY <1>1, <1>3, <1>4, Zenon

\* An object that goes, with the Jobs that do not run, keeps OwnedInv.
LEMMA OwnedGone ==
    ASSUME OwnedInv, TypeInv', LetGo, Return,
           UNCHANGED <<st, old, dp, made, asked, unsure, faults, stale>>
    PROVE  OwnedInv'
<1>t. TypeOK /\ {"create", "destroy", "query"} \subseteq Names
  BY Zenon DEF OwnedInv, TypeInv, Names, Ops
<1>o. CopiesAgree /\ Approvals /\ Identified /\ Accounted
  BY Zenon DEF OwnedInv
<1>r. pc' = "idle" /\ sys' = NoObj /\ wst' = NoStatus /\ obj' = NoObj
  BY Zenon DEF Return, LetGo
<1>j. \A n \in {"create", "destroy", "query"} :
        jobs'[n].phase \in {"running", "finished"} => jobs'[n] = jobs[n] /\ jobs'[n].phase = "running"
  BY <1>t, JobsType DEF NoJob
<1>1. CopiesAgree' /\ NothingYet'
  BY <1>r, Blanks, Zenon DEF CopiesAgree, NothingYet
<1>2. Approvals'
  BY <1>j, <1>o, <1>r, Blanks, Zenon DEF Approvals
<1>3. Identified'
  BY <1>j, <1>o, Zenon DEF Identified, ToldOfPool, Done
<1>4. Accounted'
  <2>1. Doubts' = Doubts /\ (Creating' => Creating)
    BY <1>j, Zenon DEF Doubts, Creating
  <2>2. Books(Doubts, Coming)'
    BY <1>o, <1>r, <2>1, Blanks, Zenon DEF Accounted, Books
  <2> QED BY <1>r, <2>2, Zenon DEF Accounted
<1> QED BY <1>1, <1>2, <1>3, <1>4, Zenon DEF OwnedInv

\* Polling keeps OwnedInv: a create Job that is not there is created again, and so
\* is a destroy Job.
LEMMA OwnedPoll == ASSUME OwnedInv, TypeInv', Poll PROVE OwnedInv'
<1> USE DEF history, bounds
<1>t. /\ TypeOK /\ wst.op \in Ops /\ wst.op \in Names
      /\ {"create", "extend", "acl", "reintmode", "selfheal", "destroy", "query"} = Names
      /\ made \in Nat /\ Doubts \in Nat
  BY TypeFacts, JobsType, Counts, Zenon DEF OwnedInv, TypeInv, Poll, Names
<1>o. CopiesAgree /\ NothingYet /\ Approvals /\ Identified /\ Accounted
  BY Zenon DEF OwnedInv
<1>p. /\ pc = "go" /\ pc' = "idle" /\ sys.finalizer /\ ~sys.deleted
      /\ sys' = NoObj /\ wst' = NoStatus
      /\ UNCHANGED <<obj, st, old, dp, made, asked, unsure, faults, stale>>
      /\ ~Done(jobs[wst.op])
  BY Zenon DEF Poll, Live, Return
<1>j. /\ jobs'[wst.op] = AfterRun(jobs[wst.op], SpecOf(sys))
      /\ \A m \in Names : m # wst.op => jobs'[m] = jobs[m]
  BY <1>t, JobsType, Zenon DEF Poll
<1>a. obj.exists /\ obj.finalizer /\ Coming = st /\ Coming' = st
  BY <1>p, ActsOnOwn, Zenon DEF Coming
<1>q. jobs'["query"] = jobs["query"]
  BY <1>j, <1>t, Zenon DEF Ops
<1>d. Doubts' = Doubts
  BY <1>p, Zenon DEF Doubts
<1>1. CASE jobs'["create"] = jobs["create"] /\ jobs'["destroy"] = jobs["destroy"]
  <2>1. PlainPass
    BY <1>1, <1>p, <1>q, Zenon DEF PlainPass
  <2> QED BY <2>1, OwnedPlain, Zenon
<1>2. CASE jobs'["create"] # jobs["create"] \/ jobs'["destroy"] # jobs["destroy"]
  <2>1. CopiesAgree' /\ NothingYet'
    BY <1>a, <1>o, <1>p, Blanks, Zenon DEF CopiesAgree, NothingYet
  <2>2. CASE wst.op = "create"
    <3>1. /\ jobs'["destroy"] = jobs["destroy"] /\ jobs["create"].phase = "absent" /\ Creating'
          /\ jobs'["create"].phase = "running"
      BY <1>2, <1>j, <1>p, <1>t, <2>2 DEF AfterRun, Running, Creating
    <3>2. Approvals'
      BY <1>o, <1>p, <3>1, Blanks, Zenon DEF Approvals
    <3>3. Identified'
      BY <1>o, <1>p, <1>q, <3>1, Zenon DEF Identified, ToldOfPool, Done
    <3>4. Accounted'
      <4>1. made <= Doubts
        BY <1>p, <2>2, ActsOnOwn, Zenon DEF Sure
      <4>2. made = Doubts => st.op = "create" \/ Sure(st)
        <5>1. CASE wst = st
          BY <2>2, <5>1, Zenon
        <5>2. CASE wst # st
          <6>1. Books(Doubts - 1, st)
            BY <1>o, <1>p, <5>2, Zenon DEF Accounted
          <6>2. (Doubts - 1) + 1 = Doubts
            BY <1>t
          <6> QED BY <1>a, <1>p, <2>2, <6>1, <6>2, Zenon DEF Books
        <5> QED BY <5>1, <5>2, Zenon
      <4>3. made <= Doubts + 1 /\ made # Doubts + 1
        BY <1>t, <4>1
      <4>4. Books(Doubts, Coming)'
        BY <1>a, <1>d, <1>p, <4>1, <4>2, <4>3, Zenon DEF Books, Sure
      <4> QED BY <1>p, <4>4, Zenon DEF Accounted
    <3> QED BY <2>1, <3>2, <3>3, <3>4, Zenon DEF OwnedInv
  <2>3. CASE wst.op = "destroy"
    <3>1. /\ jobs'["create"] = jobs["create"] /\ jobs'["destroy"].phase = "running"
          /\ Creating' = Creating
      BY <1>2, <1>j, <1>p, <1>t, <2>3 DEF AfterRun, Running, Creating
    <3>2. Approvals'
      BY <1>o, <1>p, <2>3, Blanks, Zenon DEF Approvals
    <3>3. Identified'
      BY <1>o, <1>p, <1>q, <3>1, Zenon DEF Identified, ToldOfPool
    <3>4. Accounted'
      <4>1. Books(Doubts, Coming)'
        BY <1>a, <1>d, <1>o, <1>p, <3>1, Zenon DEF Accounted, Books, Sure
      <4> QED BY <1>p, <4>1, Zenon DEF Accounted
    <3> QED BY <2>1, <3>2, <3>3, <3>4, Zenon DEF OwnedInv
  <2> QED BY <1>2, <1>j, <1>t, <2>2, <2>3, Zenon
<1> QED BY <1>1, <1>2, Zenon

\* Books that balance for a pass with a status behind balance once it acts on it,
\* as long as no create starts.
LEMMA StaleActs ==
    ASSUME OwnedInv, pc = "go", wst # st, made' = made, Doubts' \in {Doubts, Doubts + 1},
           Creating' => Creating
    PROVE  Books(Doubts, Coming)'
<1>1. made \in Nat /\ Doubts \in Nat
  BY Counts, Zenon DEF OwnedInv, TypeInv
<1>2. Doubts # 0 /\ made <= (Doubts - 1) + 1 /\ (Creating => made <= Doubts - 1)
  BY Zenon DEF OwnedInv, Accounted, Books
<1>3. /\ made <= Doubts + 1 /\ made <= (Doubts + 1) + 1 /\ made # Doubts + 1 /\ made # (Doubts + 1) + 1
      /\ Creating => made <= Doubts /\ made <= Doubts + 1 /\ made # Doubts /\ made # Doubts + 1
  BY <1>1, <1>2
<1> QED BY <1>3, Zenon DEF Books

\* Polling an operation that ended keeps OwnedInv: the status names the pool a
\* create made, or its failure is one more doubt.
LEMMA OwnedPollDone == ASSUME OwnedInv, TypeInv', PollDone PROVE OwnedInv'
<1> USE DEF history, bounds
<1>t. /\ TypeInv /\ TypeOK /\ wst \in Statuses /\ wst.op \in Ops /\ wst.op \in Names /\ wst.op # None
      /\ {"create", "extend", "acl", "reintmode", "selfheal", "destroy", "query"} = Names
      /\ made \in Nat /\ Doubts \in Nat /\ faults \in Nat /\ stale \in Nat /\ unsure \in Nat
  BY TypeFacts, JobsType, Counts, Zenon DEF OwnedInv, TypeInv, PollDone, Names
<1>o. CopiesAgree /\ NothingYet /\ Approvals /\ Identified /\ Accounted
  BY Zenon DEF OwnedInv
<1>p. /\ pc = "go" /\ pc' = "update" /\ sys.finalizer /\ ~sys.deleted
      /\ UNCHANGED <<sys, obj, st, old, dp, made, asked, faults, stale>>
      /\ Done(jobs[wst.op])
  BY Zenon DEF PollDone, Live, Store
<1>j. /\ jobs'[wst.op] = AfterRun(jobs[wst.op], SpecOf(sys))
      /\ \A m \in Names : m # wst.op => jobs'[m] = jobs[m]
  BY <1>t, JobsType, Zenon DEF PollDone
<1>a. obj.exists /\ obj.finalizer /\ Coming = st /\ Coming' = wst'
  BY <1>p, ActsOnOwn, Zenon DEF Coming
<1>q. jobs'["query"] = jobs["query"] /\ jobs'[wst.op].phase = "deleting"
  BY <1>j, <1>p, <1>t DEF Ops, AfterRun, Deleting, Done
<1>w. /\ wst'.op = None
      /\ wst'.uuid = IF wst.op = "create" /\ jobs["create"].out.kind = "ok"
                     THEN jobs["create"].out.pool.id ELSE wst.uuid
      /\ unsure' = IF wst.op = "create" /\ jobs["create"].out.kind # "ok" THEN unsure + 1 ELSE unsure
  <2>1. CASE jobs[wst.op].out.kind = "ok"
    <3>1. wst' = Applied(wst.op, jobs[wst.op].out.pool) /\ unsure' = unsure
      BY <2>1, Zenon DEF PollDone, Store
    <3>2. wst'.op = None /\ wst'.uuid = IF wst.op = "create" THEN jobs["create"].out.pool.id ELSE wst.uuid
      BY <1>p, <1>t, <2>1, <3>1, AppliedType, Zenon
    <3> QED BY <2>1, <3>1, <3>2, Zenon
  <2>2. CASE jobs[wst.op].out.kind # "ok"
    <3>1. /\ wst' = [wst EXCEPT !.op = None, !.obs = sys.gen, !.reason = wst.op]
          /\ unsure' = IF wst.op = "create" THEN unsure + 1 ELSE unsure
      BY <2>2, Zenon DEF PollDone, Store
    <3>2. wst'.op = None /\ wst'.uuid = wst.uuid
      BY <1>t, <3>1, StoredFields
    <3> QED BY <2>2, <3>1, <3>2, Zenon
  <2> QED BY <2>1, <2>2, Zenon
<1>1. CASE wst.op \notin {"create", "destroy"}
  <2>1. jobs'["create"] = jobs["create"] /\ jobs'["destroy"] = jobs["destroy"] /\ unsure' = unsure
    BY <1>1, <1>j, <1>t, <1>w, Zenon
  <2>2. PlainPass
    BY <1>1, <1>p, <1>q, <1>w, <2>1, PlainStore, Blanks, Zenon
  <2> QED BY <2>2, OwnedPlain, Zenon
<1>2. CASE wst.op \in {"create", "destroy"}
  <2>1. CopiesAgree' /\ NothingYet'
    BY <1>a, <1>o, <1>p, Zenon DEF CopiesAgree, NothingYet
  <2>2. jobs'["destroy"].phase = "running" => jobs["destroy"].phase = "running"
    BY <1>2, <1>j, <1>q, <1>t, Zenon
  <2>3. Approvals'
    BY <1>o, <1>p, <1>w, <2>2, Blanks, Zenon DEF Approvals
  <2>6. CASE wst.op = "create"
    <3>1. jobs'["destroy"] = jobs["destroy"] /\ ~Creating' /\ ~Active("create")' /\ ~Done(jobs'["create"])
      BY <1>j, <1>p, <1>q, <1>t, <2>6, Zenon DEF Creating, Active, Done
    <3>2. Identified'
      BY <1>o, <1>p, <1>q, <3>1, Zenon DEF Identified, ToldOfPool
    <3>3. made <= Doubts + 1
      BY <1>o, Zenon DEF Accounted, Books
    <3>4. Accounted'
      <4>1. CASE jobs["create"].out.kind = "ok"
        <5>1. Sure(Coming')
          BY <1>a, <1>o, <1>p, <1>w, <2>6, <4>1, Blanks, Zenon DEF Sure, Identified
        <5>2. Doubts' = Doubts
          BY <1>p, <1>w, <4>1, Zenon DEF Doubts
        <5>3. Books(Doubts, Coming)'
          BY <1>p, <3>1, <3>3, <5>1, <5>2, Zenon DEF Books, Sure
        <5> QED BY <1>p, <5>3, Zenon DEF Accounted
      <4>2. CASE jobs["create"].out.kind # "ok"
        <5>1. Doubts' = Doubts + 1
          BY <1>p, <1>t, <1>w, <2>6, <4>2 DEF Doubts
        <5>2. made' <= Doubts' + 1 /\ made' # Doubts' + 1
          BY <1>p, <1>t, <3>3, <5>1
        <5>3. Books(Doubts, Coming)'
          BY <3>1, <5>2, Zenon DEF Books
        <5> QED BY <1>p, <5>3, Zenon DEF Accounted
      <4> QED BY <4>1, <4>2, Zenon
    <3> QED BY <2>1, <2>3, <3>2, <3>4, Zenon DEF OwnedInv
  <2>7. CASE wst.op = "destroy"
    <3>1. /\ jobs'["create"] = jobs["create"] /\ ~Active("destroy")' /\ ~Done(jobs'["destroy"])
          /\ wst'.uuid = wst.uuid /\ Creating' = Creating /\ unsure' = unsure
      BY <1>j, <1>q, <1>t, <1>w, <2>7, Zenon DEF Active, Done, Creating
    <3>2. Identified'
      BY <1>o, <1>p, <1>q, <3>1, Zenon DEF Identified, ToldOfPool
    <3>3. Doubts' = Doubts
      BY <1>p, <3>1, Zenon DEF Doubts
    <3>4. Books(Doubts, Coming)'
      <4>1. CASE wst # st
        BY <1>p, <3>1, <3>3, <4>1, StaleActs, Zenon
      <4>2. CASE wst = st
        <5>1. Sure(st) => Sure(wst')
          BY <1>w, <3>1, <4>2, Blanks, Zenon DEF Sure
        <5>2. st.op # "create"
          BY <2>7, <4>2, Zenon
        <5> QED BY <1>a, <1>o, <1>p, <3>1, <3>3, <5>1, <5>2, Zenon DEF Accounted, Books, Sure
      <4> QED BY <4>1, <4>2, Zenon
    <3>5. Accounted'
      BY <1>p, <3>4, Zenon DEF Accounted
    <3> QED BY <2>1, <2>3, <3>2, <3>5, Zenon DEF OwnedInv
  <2> QED BY <1>2, <2>6, <2>7, Zenon
<1> QED BY <1>1, <1>2, Zenon

\* The start of a create keeps OwnedInv: it needs an answer that there is no pool,
\* and a status that names none.
LEMMA OwnedCreate == ASSUME OwnedInv, TypeInv', Missing, Collect(wst, "create") PROVE OwnedInv'
<1> USE DEF history, bounds
<1>t. /\ TypeOK /\ wst \in Statuses /\ {"create", "destroy", "query"} \subseteq Names
      /\ made \in Nat /\ Doubts \in Nat
  BY TypeFacts, Counts, Zenon DEF OwnedInv, TypeInv, Names, Ops
<1>o. CopiesAgree /\ NothingYet /\ Approvals /\ Identified /\ Accounted
  BY Zenon DEF OwnedInv
<1>w. pc' = "update" /\ sys' = sys /\ wst'.uuid = wst.uuid /\ wst'.op = "create"
  BY <1>t, CollectStatus, Blanks, Zenon
<1>p. /\ pc = "go" /\ sys.finalizer /\ ~sys.deleted /\ wst.op = None /\ Done(jobs["query"])
      /\ UNCHANGED <<obj, st, old, dp, made, asked, unsure, faults, stale>>
  BY Zenon DEF Missing, Answered, Live, Collect
<1>u. wst.uuid = 0
  <2>1. ~Collect(wst, None)
    BY <1>p, <1>t, <1>w, CollectStatus, Blanks, Zenon
  <2>2. CASE hold' = TRUE /\ RunJob("query") /\ Store(wst)
    BY <1>p, <1>w, <2>2, Blanks, Zenon DEF Store
  <2> QED BY <2>1, <2>2, Zenon DEF Missing
<1>j. /\ jobs'["create"] = AfterRun(jobs["create"], SpecOf(sys))
      /\ jobs'["query"] = AfterRun(jobs["query"], SpecOf(sys))
      /\ jobs'["destroy"] = jobs["destroy"]
  BY <1>t, JobsType
<1>q. jobs'["query"].phase = "deleting"
  BY <1>j, <1>p DEF AfterRun, Deleting, Done
<1>s. /\ Creating' => Creating \/ jobs["create"].phase = "absent"
      /\ ~Done(jobs'["create"])
  BY <1>j DEF Creating, AfterRun, Running, Deleting, Done
<1>a. /\ obj.exists /\ obj.finalizer /\ Coming' = wst' /\ Doubts' = Doubts
      /\ made <= Doubts
  <2>1. wst = st => ~Sure(st) /\ st.op # "create"
    BY <1>p, <1>u, Blanks, Zenon DEF Sure
  <2> QED BY <1>p, <1>w, <2>1, ActsOnOwn, Zenon DEF Coming, Doubts
<1>1. CopiesAgree' /\ NothingYet'
  BY <1>a, <1>o, <1>p, <1>w, Zenon DEF CopiesAgree, NothingYet
<1>2. Approvals'
  BY <1>o, <1>p, <1>j, <1>w, Zenon DEF Approvals
<1>3. Identified'
  BY <1>o, <1>p, <1>q, <1>s, Zenon DEF Identified, ToldOfPool, Done
<1>4. Accounted'
  <2>1. made <= Doubts + 1 /\ made # Doubts + 1
    BY <1>a, <1>t
  <2>2. Books(Doubts, Coming)'
    BY <1>a, <1>p, <1>w, <2>1, Zenon DEF Books
  <2> QED BY <1>w, <2>2, Zenon DEF Accounted
<1> QED BY <1>1, <1>2, <1>3, <1>4, Zenon DEF OwnedInv

\* Destroying keeps OwnedInv: it needs the approval and a status that names the pool.
LEMMA OwnedDestroy ==
    ASSUME OwnedInv, TypeInv', DestroyWait \/ DestroyDone \/ DestroyFails PROVE OwnedInv'
<1> USE DEF history, bounds
<1>t. TypeOK /\ wst \in Statuses /\ {"create", "destroy", "query"} \subseteq Names
  BY TypeFacts, Zenon DEF OwnedInv, TypeInv, Names, Ops
<1>o. CopiesAgree /\ NothingYet /\ Approvals /\ Identified /\ Accounted
  BY Zenon DEF OwnedInv
<1>p. /\ pc = "go" /\ sys.finalizer /\ sys.deleted /\ sys.approved /\ wst.uuid # 0
      /\ UNCHANGED <<st, old, dp, made, asked, unsure, faults, stale>>
  BY Zenon DEF DestroyWait, DestroyDone, DestroyFails, Finalizing
<1>1. CASE LetGo
  <2>1. Return
    <3>1. obj.exists
      BY <1>p, ActsOnOwn, Zenon
    <3>2. obj' # obj
      BY <1>1, <3>1, Blanks, Zenon DEF LetGo
    <3> QED BY <3>2, Zenon DEF DestroyWait, DestroyDone, DestroyFails
  <2> QED BY <1>1, <1>p, <2>1, OwnedGone, Zenon
<1>2. CASE ~LetGo
  <2>p. obj' = obj /\ RunJob("destroy")
    BY <1>2, Zenon DEF DestroyWait, DestroyDone, DestroyFails
  <2>r. \/ pc' = "idle" /\ sys' = NoObj /\ wst' = NoStatus
        \/ /\ pc' = "update" /\ sys' = sys
           /\ wst'.op \in {"destroy", None} /\ wst'.uuid = wst.uuid
    <3>1. CASE Return
      BY <3>1, Zenon DEF Return
    <3>2. CASE DestroyWait /\ ~Return
      <4>1. Store([wst EXCEPT !.op = "destroy", !.reason = "other"])
        BY <3>2, Zenon DEF DestroyWait
      <4>2. /\ [wst EXCEPT !.op = "destroy", !.reason = "other"].op = "destroy"
            /\ [wst EXCEPT !.op = "destroy", !.reason = "other"].uuid = wst.uuid
        BY <1>t, StoredFields
      <4> QED BY <4>1, <4>2, Zenon DEF Store
    <3>3. CASE DestroyFails
      <4>1. PICK n : Store([wst EXCEPT !.op = None, !.reason = "destroy", !.attempts = n])
        BY <3>3, Zenon DEF DestroyFails
      <4> QED BY <1>t, <4>1, StoredFields DEF Store
    <3> QED BY <3>1, <3>2, <3>3, Zenon DEF DestroyDone
  <2>j. /\ jobs'["create"] = jobs["create"] /\ jobs'["query"] = jobs["query"]
        /\ jobs'["destroy"] = AfterRun(jobs["destroy"], SpecOf(sys))
    BY <1>t, <2>p, JobsType
  <2>s. ~Done(jobs'["destroy"])
    BY <2>j DEF AfterRun, Running, Deleting, Done
  <2>a. obj.exists /\ obj.finalizer /\ Coming = st /\ asked
    BY <1>o, <1>p, ActsOnOwn, Zenon DEF Approvals
  <2>1. CopiesAgree' /\ NothingYet'
    BY <1>o, <1>p, <2>a, <2>p, <2>r, Blanks, Zenon DEF CopiesAgree, NothingYet
  <2>2. Approvals'
    BY <1>p, <2>a, Zenon DEF Approvals
  <2>3. Identified'
    BY <1>o, <1>p, <2>j, Zenon DEF Identified, ToldOfPool
  <2>4. Accounted'
    <3>1. Doubts' = Doubts /\ Creating' = Creating /\ pc' # "go"
      BY <1>p, <2>j, <2>r, Zenon DEF Doubts, Creating
    <3>2. CASE pc' = "idle"
      <4>1. Coming' = st
        BY <1>p, <3>2, Zenon DEF Coming
      <4>2. Books(Doubts, Coming)'
        BY <1>o, <1>p, <2>a, <2>j, <2>p, <3>1, <4>1, Zenon DEF Accounted, Books, Sure
      <4> QED BY <3>1, <4>2, Zenon DEF Accounted
    <3>3. CASE pc' = "update"
      <4>1. Sure(Coming')
        BY <1>p, <2>r, <3>3, Blanks, Zenon DEF Sure, Coming
      <4>2. Books(Doubts, Coming)'
        BY <1>o, <1>p, <3>1, <4>1, Zenon DEF Accounted, Books, Sure
      <4> QED BY <3>1, <4>2, Zenon DEF Accounted
    <3> QED BY <2>r, <3>2, <3>3, Zenon
  <2> QED BY <2>1, <2>2, <2>3, <2>4, Zenon DEF OwnedInv
<1> QED BY <1>1, <1>2, Zenon

\* An object released without a destroy keeps OwnedInv.
LEMMA OwnedReleased == ASSUME OwnedInv, TypeInv', Released PROVE OwnedInv'
<1> USE DEF history, bounds
<1>1. CASE Current
  BY <1>1, OwnedGone, Zenon DEF Released, RemoveFinalizer
<1>2. CASE ~Current
  <2>1. PlainPass
    BY <1>2, Zenon DEF Released, RemoveFinalizer, Finalizing, Return, PlainPass
  <2> QED BY <2>1, OwnedPlain, Zenon
<1> QED BY <1>1, <1>2, Zenon

\* Every step of a pass keeps OwnedInv.
LEMMA OwnedPass == ASSUME OwnedInv, TypeInv', Operator \/ PassEnds PROVE OwnedInv'
  BY PlainWithoutJobs, PlainProbe, OwnedPlain, OwnedPoll, OwnedPollDone, OwnedCreate, OwnedDestroy, OwnedReleased, Zenon
     DEF Operator, Reconcile

\* OwnedInv is kept by a step outside the passes that removes Jobs that are done
\* with, notes an approval, and leaves the pool what it was or destroys it.
LEMMA OwnedQuiet ==
    ASSUME OwnedInv, TypeInv', UNCHANGED <<st, old, wst, pc, sys, made, unsure, faults, stale>>,
           obj'.exists = obj.exists, obj'.deleted = obj.deleted, obj'.finalizer = obj.finalizer,
           obj'.approved => asked', asked => asked',
           \A n \in {"create", "destroy", "query"} :
              jobs'[n] = jobs[n] \/ (~Active(n) /\ jobs'[n].phase \notin {"running", "finished"}),
           dp' = dp \/ dp' = None \/ (dp # None /\ dp'.id = dp.id)
    PROVE  OwnedInv'
<1>o. CopiesAgree /\ NothingYet /\ Approvals /\ Identified /\ Accounted
  BY Zenon DEF OwnedInv
<1>j. /\ Active("create")' = Active("create") /\ Active("destroy")' = Active("destroy")
      /\ Active("query")' = Active("query") /\ Creating' = Creating
      /\ jobs'["destroy"].phase = "running" => jobs["destroy"].phase = "running"
      /\ Done(jobs'["create"]) => jobs'["create"] = jobs["create"]
      /\ Done(jobs["create"]) => jobs'["create"] = jobs["create"]
      /\ Done(jobs'["destroy"]) => jobs'["destroy"] = jobs["destroy"]
      /\ Done(jobs'["query"]) => jobs'["query"] = jobs["query"]
  BY DEF Active, Creating, Done
<1>1. CopiesAgree'
  BY <1>o, Zenon DEF CopiesAgree
<1>2. NothingYet'
  BY <1>o, <1>j, Zenon DEF NothingYet
<1>3. Approvals'
  BY <1>o, <1>j, Zenon DEF Approvals
<1>4. dp = None => dp' = None
  BY Zenon
<1>6. Identified'
  BY <1>o, <1>j, <1>4, Zenon DEF Identified, ToldOfPool
<1>7. Doubts' = Doubts /\ Coming' = Coming
  BY Zenon DEF Doubts, Coming
<1>8. Accounted'
  <2>1. Books(Doubts, Coming)'
    BY <1>o, <1>j, <1>7, Zenon DEF Accounted, Books
  <2>2. pc' = "go" /\ wst' # st' => Doubts' # 0 /\ Books(Doubts - 1, st)'
    BY <1>o, <1>j, <1>7, Zenon DEF Accounted, Books
  <2> QED BY <2>1, <2>2, Zenon DEF Accounted
<1> QED BY <1>1, <1>2, <1>3, <1>6, <1>8, Zenon DEF OwnedInv

\* The changes of the object and the pool that others make.
LEMMA OthersChange ==
    ASSUME TypeOK
    PROVE  /\ Edit \/ Approve \/ Withdraw =>
                /\ obj'.exists = obj.exists /\ obj'.deleted = obj.deleted /\ obj'.finalizer = obj.finalizer
           /\ Edit => obj'.approved = obj.approved
           /\ Withdraw => ~obj'.approved
           /\ \A b \in BOOLEAN : Delete(b) /\ obj.finalizer =>
                /\ obj'.exists /\ obj'.deleted /\ obj'.approved = b /\ obj'.finalizer
           /\ Outsider => dp' = None \/ (dp # None /\ dp' # None /\ dp'.id = dp.id)
<1>t. obj \in Objects /\ (dp # None => dp \in DaosPools)
  BY TypeFacts, Zenon
<1>1. LET e == [obj EXCEPT !.gen = @ + 1, !.ranks = @ + 1]
      IN  /\ e.exists = obj.exists /\ e.deleted = obj.deleted /\ e.finalizer = obj.finalizer
          /\ e.approved = obj.approved
  BY <1>t, Zenon DEF Objects
<1>2. Edit => /\ obj'.exists = obj.exists /\ obj'.deleted = obj.deleted /\ obj'.finalizer = obj.finalizer
              /\ obj'.approved = obj.approved
  <2>1. LET e == [obj EXCEPT !.gen = @ + 1, !.acl = @ + 1]
        IN  /\ e.exists = obj.exists /\ e.deleted = obj.deleted /\ e.finalizer = obj.finalizer
            /\ e.approved = obj.approved
    BY <1>t, Zenon DEF Objects
  <2> QED BY <1>1, <2>1, Zenon DEF Edit
<1>3. \A b : LET e == [obj EXCEPT !.approved = b]
                 f == [obj EXCEPT !.deleted = TRUE, !.approved = b]
             IN  /\ e.exists = obj.exists /\ e.deleted = obj.deleted /\ e.finalizer = obj.finalizer
                 /\ e.approved = b
                 /\ f.exists = obj.exists /\ f.deleted /\ f.finalizer = obj.finalizer
                 /\ f.approved = b
  BY <1>t, Zenon DEF Objects
<1>4. /\ Approve \/ Withdraw =>
           obj'.exists = obj.exists /\ obj'.deleted = obj.deleted /\ obj'.finalizer = obj.finalizer
      /\ Withdraw => ~obj'.approved
  BY <1>3, ZenonT(60) DEF Approve, Withdraw
<1>5. \A b \in BOOLEAN : Delete(b) /\ obj.finalizer =>
        /\ obj'.exists /\ obj'.deleted /\ obj'.approved = b /\ obj'.finalizer
  BY <1>3 DEF Delete
<1>6. Outsider => dp' = None \/ (dp # None /\ dp' # None /\ dp'.id = dp.id)
  <2> SUFFICES ASSUME Outsider, dp' # None PROVE dp # None /\ dp'.id = dp.id
    BY Zenon
  <2>1. dp # None /\ dp \in DaosPools
    BY <1>t, Zenon DEF Outsider
  <2>2. \A S : [dp EXCEPT !.props = S].id = dp.id
    BY <2>1, Zenon DEF DaosPools
  <2>3. \E S : dp' = [dp EXCEPT !.props = S]
    BY Zenon DEF Outsider
  <2> QED BY <2>1, <2>2, <2>3, Zenon
<1> QED BY <1>2, <1>4, <1>5, <1>6, Zenon

\* A deletion keeps OwnedInv.
LEMMA OwnedDelete == ASSUME OwnedInv, TypeInv', NEW b \in BOOLEAN, Delete(b) PROVE OwnedInv'
<1> USE DEF memory, history, bounds
<1>o. CopiesAgree /\ NothingYet /\ Approvals /\ Identified /\ Accounted /\ TypeOK
  BY Zenon DEF OwnedInv, TypeInv
<1>1. /\ UNCHANGED <<st, old, wst, pc, sys, jobs, dp, made, unsure, faults, stale>>
      /\ asked' = (asked \/ b) /\ obj.exists
      /\ \/ obj.finalizer /\ obj'.exists /\ obj'.deleted /\ obj'.approved = b /\ obj'.finalizer
         \/ ~obj.finalizer /\ obj' = NoObj
  BY <1>o, OthersChange, Zenon DEF Delete
<1>2. CopiesAgree'
  BY <1>o, <1>1, Blanks, Zenon DEF CopiesAgree
<1>3. NothingYet'
  BY <1>1, Blanks, Zenon DEF NothingYet
<1>4. Approvals'
  BY <1>o, <1>1, Blanks, Zenon DEF Approvals
<1>5. Identified'
  BY <1>o, <1>1, Zenon DEF Identified, ToldOfPool
<1>6. Accounted'
  <2>1. Doubts' = Doubts /\ Coming' = Coming /\ Creating' = Creating
    BY <1>1, Zenon DEF Doubts, Coming, Creating
  <2>2. Books(Doubts, Coming)'
    BY <1>o, <1>1, <2>1, Zenon DEF Accounted, Books
  <2>3. pc' = "go" /\ wst' # st' => Doubts' # 0 /\ Books(Doubts - 1, st)'
    BY <1>o, <1>1, <2>1, Zenon DEF Accounted, Books
  <2> QED BY <2>2, <2>3, Zenon DEF Accounted
<1> QED BY <1>2, <1>3, <1>4, <1>5, <1>6, Zenon DEF OwnedInv

\* A query that ends keeps OwnedInv: it tells of the pool there is.
LEMMA OwnedQuery == ASSUME OwnedInv, TypeInv', QueryFinishes PROVE OwnedInv'
<1> USE DEF memory, history, bounds
<1>o. CopiesAgree /\ NothingYet /\ Approvals /\ Identified /\ Accounted
  BY Zenon DEF OwnedInv
<1>t. TypeOK /\ dp \in DaosPools \cup {None} /\ {"create", "destroy", "query"} \subseteq Names
  BY TypeFacts, Zenon DEF OwnedInv, TypeInv, Names, Ops
<1>1. /\ UNCHANGED <<st, old, wst, pc, sys, obj, dp, made, unsure, faults, stale, asked>>
      /\ jobs["query"].phase = "running"
  BY Zenon DEF QueryFinishes
<1>2. jobs'["query"].out.kind \in Full \cup Health => dp # None /\ jobs'["query"].out.pool = dp
  BY <1>t, QueryOutcome, Zenon
<1>4. jobs'["create"] = jobs["create"] /\ jobs'["destroy"] = jobs["destroy"]
  BY <1>t, QueryOutcome, Zenon
<1>5. CopiesAgree' /\ NothingYet' /\ Approvals'
  BY <1>o, <1>1, <1>4, Zenon DEF CopiesAgree, NothingYet, Approvals, Active
<1>6. Identified'
  BY <1>o, <1>1, <1>2, <1>4, Zenon DEF Identified, ToldOfPool, Done
<1>7. Accounted'
  <2>1. Doubts' = Doubts /\ Coming' = Coming /\ Creating' = Creating
    BY <1>1, <1>4, Zenon DEF Doubts, Coming, Creating
  <2>2. Books(Doubts, Coming)'
    BY <1>o, <1>1, <1>4, <2>1, Zenon DEF Accounted, Books
  <2>3. pc' = "go" /\ wst' # st' => Doubts' # 0 /\ Books(Doubts - 1, st)'
    BY <1>o, <1>1, <1>4, <2>1, Zenon DEF Accounted, Books
  <2> QED BY <2>2, <2>3, Zenon DEF Accounted
<1> QED BY <1>5, <1>6, <1>7, Zenon DEF OwnedInv

\* A create that ends keeps OwnedInv: the pool it may have made is booked.
LEMMA OwnedMade == ASSUME OwnedInv, TypeInv', OpFinishes("create") PROVE OwnedInv'
<1> USE DEF memory, history, bounds
<1>o. CopiesAgree /\ NothingYet /\ Approvals /\ Identified /\ Accounted
  BY Zenon DEF OwnedInv
<1>t. /\ TypeOK /\ "create" \in Ops /\ {"create", "destroy", "query"} \subseteq Names
      /\ made \in Nat /\ Doubts \in Nat
  BY Counts, Zenon DEF OwnedInv, TypeInv, Names, Ops
<1>1. UNCHANGED <<st, old, wst, pc, sys, obj, unsure, faults, stale, asked>>
  BY Zenon DEF OpFinishes
<1>2. /\ jobs'["destroy"] = jobs["destroy"] /\ jobs'["query"] = jobs["query"] /\ Creating /\ ~Creating'
      /\ Active("create") /\ Active("create")' /\ Done(jobs'["create"])
      /\ \/ dp' = dp /\ made' = made /\ jobs'["create"].out.kind # "ok"
         \/ /\ dp = None /\ dp' # None /\ dp'.id = made + 1 /\ made' = made + 1
            /\ jobs'["create"].out.kind = "ok" => jobs'["create"].out.pool = dp'
  <2>1. /\ jobs["create"].phase = "running" /\ jobs'["create"].phase = "finished"
        /\ jobs'["destroy"] = jobs["destroy"] /\ jobs'["query"] = jobs["query"]
        /\ \/ dp' = dp /\ made' = made /\ jobs'["create"].out.kind # "ok"
           \/ /\ dp = None /\ dp' # None /\ dp'.id = made + 1 /\ made' = made + 1
              /\ jobs'["create"].out.kind = "ok" => jobs'["create"].out.pool = dp'
    BY <1>t, OpOutcome, Zenon
  <2> QED BY <2>1, Zenon DEF Creating, Active, Done
<1>3. made + 1 # 0
  BY <1>t
<1>4. CopiesAgree' /\ Approvals'
  BY <1>o, <1>1, <1>2, Zenon DEF CopiesAgree, Approvals
<1>5. NothingYet'
  BY <1>o, <1>1, <1>2, Zenon DEF NothingYet
<1>6. Identified'
  BY <1>o, <1>1, <1>2, <1>3, Zenon DEF Identified, ToldOfPool
<1>7. Doubts' = Doubts /\ Coming' = Coming
  BY <1>1, Zenon DEF Doubts, Coming
<1>b. ASSUME NEW d \in Nat, NEW s, Books(d, s)
      PROVE  /\ made' <= d + 1
             /\ obj.exists /\ made' = d + 1 => Sure(s) \/ s.op = "create"
  <2>1. made <= d /\ (obj.exists /\ made = d => s.op = "create" \/ Sure(s))
    BY <1>2, <1>b, Zenon DEF Books
  <2>2. CASE made' = made
    BY <1>t, <1>b, <2>1, <2>2
  <2>3. CASE made' = made + 1
    BY <1>t, <1>b, <2>1, <2>3
  <2> QED BY <1>2, <2>2, <2>3, Zenon
<1>8. Accounted'
  <2>1. /\ made' <= Doubts + 1
        /\ obj.exists /\ made' = Doubts + 1 => Sure(Coming) \/ Coming.op = "create"
    BY <1>b, <1>o, <1>t, Zenon DEF Accounted
  <2>2. Books(Doubts, Coming)'
    BY <1>1, <1>2, <1>7, <2>1, Zenon DEF Books
  <2>3. ASSUME pc' = "go", wst' # st' PROVE Doubts' # 0 /\ Books(Doubts - 1, st)'
    <3>1. Doubts # 0 /\ Books(Doubts - 1, st) /\ Doubts - 1 \in Nat
      BY <1>1, <1>o, <1>t, <2>3 DEF Accounted
    <3>2. /\ made' <= (Doubts - 1) + 1
          /\ obj.exists /\ made' = (Doubts - 1) + 1 => Sure(st) \/ st.op = "create"
      BY <1>b, <3>1, Zenon
    <3> QED BY <1>1, <1>2, <1>7, <3>1, <3>2, Zenon DEF Books, Sure
  <2> QED BY <2>2, <2>3, Zenon DEF Accounted
<1> QED BY <1>4, <1>5, <1>6, <1>8, Zenon DEF OwnedInv

\* OwnedInv is kept by every step.
LEMMA OwnedStep == OwnedInv /\ [Next]_vars => OwnedInv'
<1> SUFFICES ASSUME OwnedInv, [Next]_vars PROVE OwnedInv'
  BY Zenon
<1> USE DEF memory, history, bounds
<1>t. TypeInv /\ TypeOK /\ TypeInv' /\ jobs \in Jobs
  BY TypeStep, TypeFacts, Zenon DEF OwnedInv, TypeInv
<1>n. {"create", "destroy", "query"} \subseteq Names /\ Ops \subseteq Names /\ Approvals /\ asked \in BOOLEAN
  BY <1>t, TypeFacts, Zenon DEF Names, Ops, OwnedInv
<1>a. obj.approved => asked
  BY <1>n, Zenon DEF Approvals
<1>1. CASE Operator \/ PassEnds
  BY <1>1, <1>t, OwnedPass, Zenon
<1>2. CASE Edit
  BY <1>2, <1>a, <1>t, OthersChange, OwnedQuiet, Zenon DEF Edit
<1>3. CASE Approve
  BY <1>3, <1>t, OthersChange, OwnedQuiet, Zenon DEF Approve
<1>4. CASE Withdraw
  BY <1>4, <1>t, OthersChange, OwnedQuiet, Zenon DEF Withdraw
<1>5. CASE SystemFormatted \/ SystemGoes \/ HoldExpires \/ UNCHANGED vars
  <2>1. UNCHANGED <<st, old, wst, pc, sys, obj, jobs, dp, made, unsure, faults, stale, asked>>
    BY <1>5, Zenon DEF SystemFormatted, SystemGoes, HoldExpires, vars
  <2> QED BY <1>a, <1>t, <2>1, OwnedQuiet, Zenon
<1>6. CASE Outsider
  <2>1. UNCHANGED <<st, old, wst, pc, sys, obj, jobs, made, unsure, faults, stale, asked>>
    BY <1>6, Zenon DEF Outsider
  <2> QED BY <1>6, <1>a, <1>t, <2>1, OthersChange, OwnedQuiet, Zenon
<1>7. CASE JobsRemoved
  <2>1. \A n \in {"create", "destroy", "query"} :
              jobs'[n] = jobs[n] \/ (~Active(n) /\ jobs'[n].phase \notin {"running", "finished"})
    BY <1>7, <1>n, <1>t, Zenon DEF JobsRemoved, Jobs, NoJob, Active
  <2> QED BY <1>7, <1>a, <1>t, <2>1, OwnedQuiet, Zenon DEF JobsRemoved
<1>8. CASE \E b \in BOOLEAN : Delete(b)
  BY <1>8, <1>t, OwnedDelete, Zenon
<1>9. CASE QueryFinishes
  BY <1>9, <1>t, OwnedQuery, Zenon
<1>10. CASE OpFinishes("create")
  BY <1>10, <1>t, OwnedMade, Zenon
<1>11. ASSUME NEW op \in Ops, OpFinishes(op), op \notin {"create", "destroy"} PROVE OwnedInv'
  <2>1. /\ \A m \in Names : m # op => jobs'[m] = jobs[m]
        /\ made' = made /\ (dp' = dp \/ (dp # None /\ dp'.id = dp.id))
    BY <1>11, <1>t, OpOutcome, Zenon
  <2>2. UNCHANGED <<st, old, wst, pc, sys, obj, unsure, faults, stale, asked>>
    BY <1>11, Zenon DEF OpFinishes
  <2>3. \A n \in {"create", "destroy", "query"} : jobs'[n] = jobs[n]
    BY <1>11, <1>n, <2>1, Zenon DEF Ops
  <2> QED BY <1>a, <1>t, <2>1, <2>2, <2>3, OwnedQuiet, Zenon
<1>12. CASE OpFinishes("destroy")
  <2>o. CopiesAgree /\ NothingYet /\ Identified /\ Accounted
    BY Zenon DEF OwnedInv
  <2>1. /\ UNCHANGED <<st, old, wst, pc, sys, obj, unsure, faults, stale, asked>> /\ "destroy" \in Ops
    BY <1>12, Zenon DEF OpFinishes, Ops
  <2>2. /\ made' = made /\ dp' \in {dp, None} /\ jobs'["destroy"].phase = "finished"
        /\ jobs["destroy"].phase = "running"
        /\ jobs'["destroy"].out.kind \in Destroyed => dp' = None
        /\ jobs'["create"] = jobs["create"] /\ jobs'["query"] = jobs["query"]
    BY <1>12, <1>n, <1>t, <2>1, OpOutcome, Zenon
  <2>3. CopiesAgree' /\ NothingYet' /\ Approvals'
    BY <1>n, <2>o, <2>1, <2>2, Zenon DEF CopiesAgree, NothingYet, Approvals, Active
  <2>4. Identified'
    BY <2>o, <2>1, <2>2, Zenon DEF Identified, ToldOfPool
  <2>5. Accounted'
    <3>1. Doubts' = Doubts /\ Coming' = Coming /\ Creating' = Creating
      BY <2>1, <2>2, Zenon DEF Doubts, Coming, Creating
    <3>2. Books(Doubts, Coming)'
      BY <2>o, <2>1, <2>2, <3>1, Zenon DEF Accounted, Books
    <3>3. pc' = "go" /\ wst' # st' => Doubts' # 0 /\ Books(Doubts - 1, st)'
      BY <2>o, <2>1, <2>2, <3>1, Zenon DEF Accounted, Books
    <3> QED BY <3>2, <3>3, Zenon DEF Accounted
  <2> QED BY <1>t, <2>3, <2>4, <2>5, Zenon DEF OwnedInv
<1> QED
  BY <1>1, <1>2, <1>3, <1>4, <1>5, <1>6, <1>7, <1>8, <1>9, <1>10, <1>11, <1>12, Zenon
     DEF Next, Human, Cluster

\* A plain step of a pass keeps KnownInv.
LEMMA KnownPlain == ASSUME KnownInv, OwnedInv', PlainPass PROVE KnownInv'
<1>o. CopiesAgree /\ Identified /\ KnownIds /\ Finalized /\ DestroyedForGood /\ obj \in Objects /\ made \in Nat
  BY TypeFacts, Zenon DEF KnownInv, OwnedInv, TypeInv
<1>z. NoStatus.uuid = 0 /\ NoStatus.op = None /\ 0 <= made /\ "destroy" # None
  BY <1>o, Blanks DEF NoStatus
<1>u. \/ {st'.uuid, old'.uuid, wst'.uuid} \subseteq {st.uuid, old.uuid, wst.uuid, 0}
      \/ /\ {st'.uuid, old'.uuid} \subseteq {st.uuid, old.uuid} /\ wst'.uuid = jobs["query"].out.pool.id
         /\ ToldOfPool /\ pc = "go" /\ ~sys.deleted
  BY <1>z, Zenon DEF PlainPass
<1>1. KnownIds'
  <2>1. st'.uuid <= made /\ old'.uuid <= made /\ wst'.uuid <= made
    BY <1>o, <1>u, <1>z, Zenon DEF KnownIds
  <2>2. ToldOfPool' => jobs'["query"] = jobs["query"]
    BY Zenon DEF PlainPass, ToldOfPool
  <2> QED BY <1>o, <2>1, <2>2, Zenon DEF PlainPass, KnownIds, ToldOfPool
<1>2. Finalized'
  <2>1. obj'.deleted = obj.deleted /\ obj'.exists = obj.exists
    BY <1>o, FinalizerAdded, Zenon DEF PlainPass
  <2>2. "destroy" \in {st'.op, old'.op, wst'.op} => "destroy" \in {st.op, old.op, wst.op}
    BY <1>z, Zenon DEF PlainPass
  <2>3. Active("destroy")' = Active("destroy")
    BY Zenon DEF PlainPass, Active
  <2>4. pc' # "idle" => \/ sys' = sys /\ pc # "idle"
                        \/ sys' = obj /\ obj.exists
    BY Zenon DEF PlainPass
  <2> QED BY <1>o, <2>1, <2>2, <2>3, <2>4, Zenon DEF Finalized
<1>3. DestroyedForGood'
  <2>1. Done(jobs["destroy"]) => {st'.uuid, old'.uuid, wst'.uuid} \subseteq {st.uuid, old.uuid, wst.uuid, 0}
    BY <1>o, <1>u, Zenon DEF Finalized, Active, Done
  <2> QED BY <1>o, <2>1, Zenon DEF PlainPass, DestroyedForGood, Identified
<1> QED BY <1>1, <1>2, <1>3, Zenon DEF KnownInv

\* An object that goes keeps KnownInv.
LEMMA KnownGone ==
    ASSUME KnownInv, OwnedInv', LetGo, Return, UNCHANGED <<st, old, dp, made>>
    PROVE  KnownInv'
<1>o. KnownIds /\ Finalized /\ made \in Nat /\ TypeOK /\ {"create", "destroy", "query"} \subseteq Names
  BY Counts, Zenon DEF KnownInv, OwnedInv, TypeInv, Names, Ops
<1>1. pc' = "idle" /\ wst' = NoStatus /\ obj' = NoObj /\ ~NoObj.exists
  BY Blanks, Zenon DEF Return, LetGo
<1>2. NoStatus.uuid = 0 /\ 0 <= made
  BY <1>o DEF NoStatus
<1>3. \A n \in {"create", "destroy", "query"} : ~Done(jobs'[n])
  BY <1>o, JobsType DEF NoJob, Done
<1>4. KnownIds'
  BY <1>o, <1>1, <1>2, <1>3, Zenon DEF KnownIds, ToldOfPool
<1> QED BY <1>1, <1>3, <1>4, Zenon DEF KnownInv, Finalized, DestroyedForGood

\* Steps of a pass that run the create or the destroy Job keep KnownInv: only a
\* pass that read the deletion runs a destroy.
LEMMA KnownJobs ==
    ASSUME KnownInv, OwnedInv',
           \/ Poll \/ PollDone \/ (Missing /\ Collect(wst, "create"))
           \/ DestroyWait \/ DestroyDone \/ DestroyFails
    PROVE  KnownInv'
<1> USE DEF history, bounds
<1>t. /\ TypeInv /\ TypeOK /\ wst \in Statuses /\ made \in Nat
      /\ {"create", "extend", "acl", "reintmode", "selfheal", "destroy", "query"} = Names
  BY TypeFacts, JobsType, Counts, Zenon DEF KnownInv, OwnedInv, TypeInv
<1>o. CopiesAgree /\ Identified /\ KnownIds /\ Finalized /\ DestroyedForGood
  BY Zenon DEF KnownInv, OwnedInv
<1>z. NoStatus.uuid = 0 /\ NoStatus.op = None /\ 0 <= made /\ "destroy" # None
  BY <1>t, Blanks DEF NoStatus
<1>1. ASSUME UNCHANGED <<obj, st, old, dp, made>>, pc = "go", ~sys.deleted,
             pc' = "idle" \/ sys' = sys,
             jobs'["destroy"] = jobs["destroy"],
             Done(jobs'["create"]) => jobs'["create"] = jobs["create"],
             Done(jobs'["query"]) => jobs'["query"] = jobs["query"],
             wst'.op # "destroy", wst'.uuid <= made
      PROVE  KnownInv'
  <2>1. ~Active("destroy") /\ "destroy" \notin {st.op, old.op, wst.op}
    BY <1>1, <1>o, Zenon DEF Finalized
  <2>2. ~Active("destroy")' /\ ~Done(jobs'["destroy"])
    BY <1>1, <2>1, Zenon DEF Active, Done
  <2>3. KnownIds'
    BY <1>1, <1>o, Zenon DEF KnownIds, ToldOfPool
  <2>4. Finalized'
    BY <1>1, <2>1, <2>2, Zenon DEF Finalized
  <2> QED BY <2>2, <2>3, <2>4, Zenon DEF KnownInv, DestroyedForGood
<1>2. CASE Poll \/ PollDone
  <2>1. /\ pc = "go" /\ ~sys.deleted /\ wst.op # None /\ wst.op \in Ops
        /\ UNCHANGED <<obj, st, old, dp, made>> /\ (pc' = "idle" \/ sys' = sys)
        /\ RunJob(wst.op)
    BY <1>2, <1>t, TypeFacts, Zenon DEF Poll, PollDone, Live, Return, Store
  <2>2. wst.op # "destroy" /\ wst.op # "query"
    BY <1>o, <2>1, Zenon DEF Finalized, Ops
  <2>3. /\ jobs'[wst.op] = AfterRun(jobs[wst.op], SpecOf(sys))
        /\ \A m \in Names : m # wst.op => jobs'[m] = jobs[m]
    BY <1>t, <2>1, JobsType, Zenon DEF Names
  <2>4. jobs'["destroy"] = jobs["destroy"] /\ jobs'["query"] = jobs["query"]
    BY <1>t, <2>2, <2>3, Zenon
  <2>5. ~Done(jobs'[wst.op])
    BY <2>3 DEF AfterRun, Running, Deleting, Done
  <2>6. Done(jobs'["create"]) => jobs'["create"] = jobs["create"]
    BY <1>t, <2>3, <2>5, Zenon
  <2>7. wst'.op # "destroy" /\ wst'.uuid <= made
    <3>1. CASE Poll
      BY <1>z, <3>1, Zenon DEF Poll, Return
    <3>2. CASE PollDone /\ jobs[wst.op].out.kind = "ok"
      <4>1. wst' = Applied(wst.op, jobs[wst.op].out.pool) /\ Done(jobs[wst.op])
        BY <3>2, Zenon DEF PollDone, Store
      <4>2. wst'.op = None /\ wst'.uuid = IF wst.op = "create" THEN jobs["create"].out.pool.id ELSE wst.uuid
        BY <1>t, <2>1, <3>2, <4>1, AppliedType, Zenon
      <4> QED BY <1>o, <1>z, <3>2, <4>1, <4>2, Zenon DEF KnownIds
    <3>3. CASE PollDone /\ jobs[wst.op].out.kind # "ok"
      <4>1. wst' = [wst EXCEPT !.op = None, !.obs = sys.gen, !.reason = wst.op]
        BY <3>3, Zenon DEF PollDone, Store
      <4>2. wst'.op = None /\ wst'.uuid = wst.uuid
        BY <1>t, <4>1, StoredFields
      <4> QED BY <1>o, <1>z, <4>2, Zenon DEF KnownIds
    <3> QED BY <1>2, <3>1, <3>2, <3>3, Zenon
  <2> QED BY <1>1, <2>1, <2>4, <2>6, <2>7, Zenon
<1>3. CASE Missing /\ Collect(wst, "create")
  <2>1. pc' = "update" /\ sys' = sys /\ wst'.uuid = wst.uuid /\ wst'.op = "create"
    BY <1>3, <1>t, CollectStatus, Blanks, Zenon
  <2>2. pc = "go" /\ ~sys.deleted /\ Done(jobs["query"]) /\ UNCHANGED <<obj, st, old, dp, made>>
    BY <1>3, Zenon DEF Missing, Answered, Live, Collect
  <2>3. /\ jobs'["create"] = AfterRun(jobs["create"], SpecOf(sys))
        /\ jobs'["query"] = AfterRun(jobs["query"], SpecOf(sys))
        /\ jobs'["destroy"] = jobs["destroy"]
    BY <1>3, <1>t, JobsType
  <2>4. ~Done(jobs'["create"]) /\ ~Done(jobs'["query"])
    BY <2>3 DEF AfterRun, Running, Deleting, Done
  <2>5. wst'.uuid <= made
    BY <1>o, <2>1, Zenon DEF KnownIds
  <2> QED BY <1>1, <2>1, <2>2, <2>3, <2>4, <2>5, Zenon
<1>4. CASE DestroyWait \/ DestroyDone \/ DestroyFails
  <2>p. /\ pc = "go" /\ sys.finalizer /\ sys.deleted /\ UNCHANGED <<st, old, dp, made>>
    BY <1>4, Zenon DEF DestroyWait, DestroyDone, DestroyFails, Finalizing
  <2>1. CASE LetGo
    <3>1. obj.exists
      BY <1>o, <2>p, Zenon DEF CopiesAgree
    <3>2. obj' # obj
      BY <2>1, <3>1, Blanks, Zenon DEF LetGo
    <3>3. Return
      BY <1>4, <3>2, Zenon DEF DestroyWait, DestroyDone, DestroyFails
    <3> QED BY <2>1, <2>p, <3>3, KnownGone, Zenon
  <2>2. CASE ~LetGo
    <3>1. obj' = obj /\ RunJob("destroy")
      BY <1>4, <2>2, Zenon DEF DestroyWait, DestroyDone, DestroyFails
    <3>2. \/ pc' = "idle" /\ wst' = NoStatus
          \/ sys' = sys /\ wst'.uuid = wst.uuid
      <4>1. CASE Return
        BY <4>1, Zenon DEF Return
      <4>2. CASE ~Return
        <5>1. PICK op, reason, n : Store([wst EXCEPT !.op = op, !.reason = reason])
                                     \/ Store([wst EXCEPT !.op = op, !.reason = reason, !.attempts = n])
          BY <1>4, <4>2, Zenon DEF DestroyWait, DestroyDone, DestroyFails
        <5> QED BY <1>t, <5>1, Zenon DEF Store, Statuses
      <4> QED BY <4>1, <4>2, Zenon
    <3>3. /\ jobs'["create"] = jobs["create"] /\ jobs'["query"] = jobs["query"]
          /\ jobs'["destroy"] = AfterRun(jobs["destroy"], SpecOf(sys))
      BY <1>t, <3>1, JobsType
    <3>4. ~Done(jobs'["destroy"])
      BY <3>3 DEF AfterRun, Running, Deleting, Done
    <3>5. KnownIds'
      BY <1>o, <1>z, <2>p, <3>2, <3>3, Zenon DEF KnownIds, ToldOfPool
    <3>6. Finalized'
      BY <1>o, <2>p, <3>1, <3>2, Zenon DEF Finalized, CopiesAgree
    <3> QED BY <3>4, <3>5, <3>6, Zenon DEF KnownInv, DestroyedForGood
  <2> QED BY <2>1, <2>2, Zenon
<1> QED BY <1>2, <1>3, <1>4, Zenon

\* KnownInv is kept by a step outside the passes that makes no pool.
LEMMA KnownQuiet ==
    ASSUME KnownInv, OwnedInv', UNCHANGED <<st, old, wst, pc, sys, made>>,
           obj.deleted \/ ~obj.exists => obj'.deleted \/ ~obj'.exists,
           \A n \in {"create", "destroy", "query"} : Active(n)' => Active(n),
           \A n \in {"create", "query"} : Done(jobs'[n]) => jobs'[n] = jobs[n],
           Done(jobs'["destroy"]) => jobs'["destroy"] = jobs["destroy"]
                                      \/ (jobs'["destroy"].out.kind \in Destroyed => dp' = None),
           dp' = dp \/ dp' = None \/ (dp # None /\ dp'.id = dp.id)
    PROVE  KnownInv'
<1>o. KnownIds /\ Finalized /\ DestroyedForGood
  BY Zenon DEF KnownInv
<1>1. KnownIds'
  BY <1>o, Zenon DEF KnownIds, ToldOfPool
<1>2. Finalized'
  BY <1>o, Zenon DEF Finalized
<1>3. DestroyedForGood'
  BY <1>o, Zenon DEF DestroyedForGood
<1> QED BY <1>1, <1>2, <1>3, Zenon DEF KnownInv

\* KnownInv is kept by every step.
LEMMA KnownStep == KnownInv /\ [Next]_vars => KnownInv'
<1> SUFFICES ASSUME KnownInv, [Next]_vars PROVE KnownInv'
  BY Zenon
<1> USE DEF memory, history, bounds
<1>t. OwnedInv /\ OwnedInv' /\ TypeInv' /\ TypeOK /\ jobs \in Jobs /\ made \in Nat
  BY OwnedStep, TypeFacts, Counts, Zenon DEF KnownInv, OwnedInv, TypeInv
<1>n. /\ {"create", "destroy", "query"} \subseteq Names /\ Ops \subseteq Names
      /\ "create" \in Ops /\ "destroy" \in Ops /\ "query" \notin Ops
  BY Zenon DEF Names, Ops
<1>o. CopiesAgree /\ KnownIds /\ Finalized /\ DestroyedForGood
  BY <1>t, Zenon DEF KnownInv, OwnedInv
<1>1. CASE Operator \/ PassEnds
  <2>1. CASE Released
    <3>1. CASE Current
      BY <1>t, <2>1, <3>1, KnownGone, Zenon DEF Released, RemoveFinalizer
    <3>2. CASE ~Current
      <4>1. PlainPass
        BY <2>1, <3>2, Zenon DEF Released, RemoveFinalizer, Finalizing, Return, PlainPass
      <4> QED BY <1>t, <4>1, KnownPlain, Zenon
    <3> QED BY <3>1, <3>2, Zenon
  <2> QED BY <1>1, <1>t, <2>1, PlainWithoutJobs, PlainProbe, KnownPlain, KnownJobs, Zenon DEF Operator, Reconcile
<1>2. CASE Edit \/ Approve \/ Withdraw \/ \E b \in BOOLEAN : Delete(b)
  <2>1. UNCHANGED <<st, old, wst, pc, sys, jobs, dp, made>>
    BY <1>2, Zenon DEF Edit, Approve, Withdraw, Delete
  <2>2. obj.deleted \/ ~obj.exists => obj'.deleted \/ ~obj'.exists
    <3>1. CASE \E b \in BOOLEAN : Delete(b)
      BY <3>1, Zenon DEF Delete
    <3> QED BY <1>2, <1>t, <3>1, OthersChange, Zenon
  <2> QED BY <1>t, <2>1, <2>2, KnownQuiet, Zenon DEF Active
<1>3. CASE SystemFormatted \/ SystemGoes \/ HoldExpires \/ Outsider \/ UNCHANGED vars
  <2>1. UNCHANGED <<st, old, wst, pc, sys, jobs, obj, made>>
    BY <1>3, Zenon DEF SystemFormatted, SystemGoes, HoldExpires, Outsider, vars
  <2>2. dp' = dp \/ dp' = None \/ (dp # None /\ dp'.id = dp.id)
    BY <1>3, <1>t, OthersChange, Zenon DEF SystemFormatted, SystemGoes, HoldExpires, vars
  <2> QED BY <1>t, <2>1, <2>2, KnownQuiet, Zenon DEF Active
<1>4. CASE JobsRemoved
  <2>1. \A n \in {"create", "destroy", "query"} :
          jobs'[n] = jobs[n] \/ jobs'[n].phase \notin {"running", "finished"}
    BY <1>4, <1>n, <1>t, Zenon DEF JobsRemoved, Jobs, NoJob
  <2>2. UNCHANGED <<st, old, wst, pc, sys, obj, dp, made>>
    BY <1>4, Zenon DEF JobsRemoved
  <2> QED BY <1>t, <2>1, <2>2, KnownQuiet, Zenon DEF Active, Done
<1>5. CASE QueryFinishes
  <2>1. /\ UNCHANGED <<st, old, wst, pc, sys, obj, dp, made>> /\ jobs["query"].phase = "running"
        /\ dp \in DaosPools \cup {None}
    BY <1>5, <1>t, TypeFacts, Zenon DEF QueryFinishes
  <2>2. jobs'["query"].out.kind \in Full \cup Health => dp # None /\ jobs'["query"].out.pool = dp
    BY <1>5, <1>t, QueryOutcome, Zenon
  <2>4. jobs'["create"] = jobs["create"] /\ jobs'["destroy"] = jobs["destroy"]
    BY <1>5, <1>n, <1>t, QueryOutcome, Zenon
  <2>5. KnownIds'
    BY <1>o, <2>1, <2>2, <2>4, Zenon DEF KnownIds, ToldOfPool
  <2> QED BY <1>o, <1>t, <2>1, <2>4, <2>5, Zenon DEF KnownInv, Finalized, DestroyedForGood, Active
<1>6. CASE OpFinishes("create")
  <2>1. UNCHANGED <<st, old, wst, pc, sys, obj>>
    BY <1>6, Zenon DEF OpFinishes
  <2>2. /\ jobs'["destroy"] = jobs["destroy"] /\ jobs'["query"] = jobs["query"]
        /\ \/ dp' = dp /\ made' = made /\ jobs'["create"].out.kind # "ok"
           \/ /\ dp = None /\ dp' # None /\ dp'.id = made + 1 /\ made' = made + 1
              /\ jobs'["create"].out.kind = "ok" => jobs'["create"].out.pool = dp'
    <3>1. "create" \in Ops /\ "destroy" \in Names /\ "query" \in Names /\ TypeOK
      BY <1>n, <1>t, Zenon
    <3> QED BY <1>6, <3>1, OpOutcome, Zenon
  <2>3. CASE dp' = dp /\ made' = made /\ jobs'["create"].out.kind # "ok"
    BY <1>o, <1>t, <2>1, <2>2, <2>3, Zenon DEF KnownInv, KnownIds, Finalized, DestroyedForGood, ToldOfPool, Active
  <2>4. CASE /\ dp' # None /\ dp'.id = made + 1 /\ made' = made + 1
             /\ jobs'["create"].out.kind = "ok" => jobs'["create"].out.pool = dp'
    <3>1. st.uuid \in Nat /\ old.uuid \in Nat /\ wst.uuid \in Nat
      BY <1>t, TypeFacts, Zenon DEF Statuses
    <3>2. ToldOfPool => jobs["query"].out.pool.id \in Nat
      <4>1. jobs["query"].out \in Outs \/ ~Done(jobs["query"])
        BY <1>n, <1>t, JobsType, Zenon
      <4> QED BY <4>1, Zenon DEF ToldOfPool, Outs, Full, Health, DaosPools
    <3>3. \A i \in Nat : i <= made => i <= made + 1 /\ i # made + 1
      BY <1>t
    <3>4. /\ st.uuid <= made + 1 /\ old.uuid <= made + 1 /\ wst.uuid <= made + 1 /\ made + 1 <= made + 1
          /\ made + 1 \notin {st.uuid, old.uuid, wst.uuid}
          /\ ToldOfPool => jobs["query"].out.pool.id <= made + 1
      <4>1. made + 1 <= made + 1
        BY <1>t
      <4> QED BY <1>o, <3>1, <3>2, <3>3, <4>1, Zenon DEF KnownIds
    <3>5. KnownIds' /\ DestroyedForGood'
      BY <2>1, <2>2, <2>4, <3>4, Zenon DEF KnownIds, DestroyedForGood, ToldOfPool
    <3> QED BY <1>o, <1>t, <2>1, <2>2, <3>5, Zenon DEF KnownInv, Finalized, Active
  <2> QED BY <2>2, <2>3, <2>4, Zenon
<1>7. ASSUME NEW op \in Ops, OpFinishes(op), op # "create" PROVE KnownInv'
  <2>1. /\ UNCHANGED <<st, old, wst, pc, sys, obj>> /\ jobs[op].phase = "running"
    BY <1>7, Zenon DEF OpFinishes
  <2>2. /\ \A m \in Names : m # op => jobs'[m] = jobs[m]
        /\ made' = made /\ (dp' = dp \/ dp' = None \/ (dp # None /\ dp'.id = dp.id))
        /\ op = "destroy" => (jobs'["destroy"].out.kind \in Destroyed => dp' = None)
    BY <1>7, <1>n, <1>t, OpOutcome, Zenon
  <2>3. \A n \in {"create", "query"} : jobs'[n] = jobs[n]
    BY <1>7, <1>n, <2>2, Zenon
  <2>4. op = "destroy" \/ jobs'["destroy"] = jobs["destroy"]
    BY <1>n, <2>2, Zenon
  <2>5. op = "destroy" => Active("destroy")
    BY <2>1, Zenon DEF Active
  <2> QED BY <1>t, <2>1, <2>2, <2>3, <2>4, <2>5, KnownQuiet, Zenon DEF Active
<1> QED BY <1>1, <1>2, <1>3, <1>4, <1>5, <1>6, <1>7, Zenon DEF Next, Human, Cluster

\* What OwnedData sees stays as it is.
LEMMA Unseen ==
    ASSUME obj'.exists = obj.exists, obj'.deleted = obj.deleted,
           dp' = dp \/ (dp # None /\ dp' # None /\ dp'.id = dp.id),
           UNCHANGED <<made, faults, stale, unsure, asked, drifts>>
    PROVE  UNCHANGED Owned!vars
  BY Zenon DEF Owned!vars

\* What a pass does to the object, and to what else OwnedData sees: nothing, a
\* doubt, or the end of an object that owes nothing.
LEMMA PassSeen ==
    ASSUME KnownInv, Operator \/ PassEnds
    PROVE  /\ UNCHANGED <<dp, made, asked, drifts>>
           /\ \/ /\ obj'.exists = obj.exists /\ obj'.deleted = obj.deleted
                 /\ \/ UNCHANGED <<faults, stale, unsure>>
                    \/ faults' = faults + 1 /\ UNCHANGED <<stale, unsure>>
                    \/ stale' = stale + 1 /\ UNCHANGED <<faults, unsure>>
                    \/ unsure' = unsure + 1 /\ UNCHANGED <<faults, stale>>
              \/ /\ obj.exists /\ obj.deleted /\ ~obj'.exists /\ UNCHANGED <<faults, stale, unsure>>
                 /\ ~(obj.approved /\ dp # None /\ dp.id = st.uuid)
<1> USE DEF history, bounds
<1>t. obj \in Objects /\ CopiesAgree
  BY TypeFacts, Zenon DEF KnownInv, OwnedInv, TypeInv
<1>s. DestroyedForGood /\ (dp # None => dp.id # 0)
  BY Zenon DEF KnownInv, OwnedInv, Identified
<1>1. CASE NoSystem \/ Poll \/ Held \/ Probing \/ QueryFails \/ Missing \/ HealthOnly \/ Found
             \/ DestroyWait \/ DestroyFails \/ UpdateStatus
  BY <1>1, Zenon DEF NoSystem, Poll, Held, Probing, QueryFails, Missing, HealthOnly, Found, Collect,
              DestroyWait, DestroyFails, UpdateStatus
<1>2. CASE AddFinalizer
  <2>1. obj' = obj \/ obj' = [obj EXCEPT !.finalizer = TRUE]
    BY <1>2, Zenon DEF AddFinalizer
  <2>2. obj'.exists = obj.exists /\ obj'.deleted = obj.deleted
    BY <1>t, <2>1, FinalizerAdded, Zenon
  <2> QED BY <1>2, <2>2, Zenon DEF AddFinalizer
<1>3. CASE PollDone
  BY <1>3, Zenon DEF PollDone
<1>4. CASE PassEnds
  BY <1>4, Zenon DEF PassEnds
<1>5. CASE BeginPass
  BY <1>5, Zenon DEF BeginPass
<1>6. CASE Released
  BY <1>6, <1>s, <1>t, Blanks, Zenon DEF Released, RemoveFinalizer, Current, LetGo, Finalizing, CopiesAgree
<1>7. CASE DestroyDone
  BY <1>7, <1>s, <1>t, Blanks, Zenon DEF DestroyDone, Current, LetGo, Finalizing, CopiesAgree, DestroyedForGood
<1> QED BY <1>1, <1>2, <1>3, <1>4, <1>5, <1>6, <1>7, Zenon DEF Operator, Reconcile

\* Every step is one of OwnedData, or changes nothing OwnedData sees.
LEMMA OwnedRefined == KnownInv /\ [Next]_vars => [Owned!Next]_(Owned!vars)
<1> SUFFICES ASSUME KnownInv, [Next]_vars PROVE [Owned!Next]_(Owned!vars)
  BY Zenon
<1> USE DEF memory, history, bounds
<1>t. TypeOK /\ CopiesAgree /\ NothingYet /\ Approvals /\ Accounted
  BY Zenon DEF KnownInv, OwnedInv, TypeInv
<1>n. made \in Nat /\ unsure \in Nat /\ faults \in Nat /\ stale \in Nat /\ drifts \in Nat /\ asked \in BOOLEAN
  BY <1>t, TypeFacts, Counts
<1>1. CASE Operator \/ PassEnds
  <2>1. /\ UNCHANGED <<dp, made, asked, drifts>>
        /\ \/ /\ obj'.exists = obj.exists /\ obj'.deleted = obj.deleted
              /\ \/ UNCHANGED <<faults, stale, unsure>>
                 \/ faults' = faults + 1 /\ UNCHANGED <<stale, unsure>>
                 \/ stale' = stale + 1 /\ UNCHANGED <<faults, unsure>>
                 \/ unsure' = unsure + 1 /\ UNCHANGED <<faults, stale>>
           \/ /\ obj.exists /\ obj.deleted /\ ~obj'.exists /\ UNCHANGED <<faults, stale, unsure>>
              /\ ~(obj.approved /\ dp # None /\ dp.id = st.uuid)
    BY <1>1, PassSeen, Zenon
  <2>2. CASE obj'.exists = obj.exists /\ obj'.deleted = obj.deleted /\ UNCHANGED <<faults, stale, unsure>>
    BY <2>1, <2>2, Unseen, Zenon
  <2>3. CASE /\ obj'.exists = obj.exists /\ obj'.deleted = obj.deleted
             /\ \/ faults' = faults + 1 /\ UNCHANGED <<stale, unsure>>
                \/ stale' = stale + 1 /\ UNCHANGED <<faults, unsure>>
                \/ unsure' = unsure + 1 /\ UNCHANGED <<faults, stale>>
    <3>1. faults' + stale' + unsure' = faults + stale + unsure + 1
      BY <1>n, <2>3
    <3>2. Owned!Doubt
      BY <2>1, <2>3, <3>1, Zenon DEF Owned!Doubt
    <3> QED BY <3>2, Zenon DEF Owned!Next
  <2>4. CASE /\ obj.exists /\ obj.deleted /\ ~obj'.exists /\ UNCHANGED <<faults, stale, unsure>>
             /\ ~(obj.approved /\ dp # None /\ dp.id = st.uuid)
    <3>1. Owned!Release
      BY <2>1, <2>4, Zenon DEF Owned!Release
    <3> QED BY <3>1, Zenon DEF Owned!Next
  <2> QED BY <2>1, <2>2, <2>3, <2>4, Zenon
<1>2. CASE Edit \/ Withdraw \/ SystemFormatted \/ HoldExpires \/ QueryFinishes \/ JobsRemoved \/ UNCHANGED vars
  <2>1. UNCHANGED <<made, faults, stale, unsure, asked, drifts, dp>>
    BY <1>2, Zenon DEF Edit, Withdraw, SystemFormatted, HoldExpires, QueryFinishes, JobsRemoved, vars
  <2>2. obj'.exists = obj.exists /\ obj'.deleted = obj.deleted
    BY <1>2, <1>t, OthersChange, Zenon DEF SystemFormatted, HoldExpires, QueryFinishes, JobsRemoved, vars
  <2> QED BY <2>1, <2>2, Unseen, Zenon
<1>3. ASSUME NEW b \in BOOLEAN, Delete(b) PROVE [Owned!Next]_(Owned!vars)
  <2>1. /\ UNCHANGED <<dp, made, unsure, faults, stale, drifts>> /\ asked' \in {asked, TRUE}
        /\ obj.exists /\ ~obj.deleted
    BY <1>3, <1>n, Zenon DEF Delete
  <2>2. \/ obj'.exists /\ obj'.deleted
        \/ ~obj'.exists /\ made = 0
    BY <1>3, <1>t, <2>1, OthersChange, Blanks, Zenon DEF Delete, NothingYet
  <2>3. Owned!Delete
    BY <2>1, <2>2, Zenon DEF Owned!Delete
  <2> QED BY <2>3, Zenon DEF Owned!Next
<1>4. CASE Approve
  <2>1. /\ UNCHANGED <<dp, made, unsure, faults, stale, drifts>> /\ asked' = TRUE
        /\ obj.exists /\ obj.deleted /\ obj'.exists = obj.exists /\ obj'.deleted = obj.deleted
    BY <1>4, <1>t, OthersChange, Zenon DEF Approve, CopiesAgree
  <2>2. Owned!Ask
    BY <2>1, Zenon DEF Owned!Ask
  <2> QED BY <2>2, Zenon DEF Owned!Next
<1>5. CASE SystemGoes \/ Outsider
  <2>1. UNCHANGED <<obj, made, faults, stale, unsure, asked>> /\ drifts' = drifts + 1
    BY <1>5, Zenon DEF SystemGoes, Outsider
  <2>2. dp' \in {dp, None} \/ (dp # None /\ dp' # None /\ dp'.id = dp.id)
    BY <1>5, <1>t, OthersChange, Zenon DEF SystemGoes
  <2>3. drifts' # drifts
    BY <1>n, <2>1
  <2>4. Owned!SomeoneElse
    BY <2>1, <2>2, <2>3, Zenon DEF Owned!SomeoneElse
  <2> QED BY <2>4, Zenon DEF Owned!Next
<1>6. ASSUME NEW op \in Ops, OpFinishes(op) PROVE [Owned!Next]_(Owned!vars)
  <2>1. UNCHANGED <<obj, faults, stale, unsure, asked, drifts>>
    BY <1>6, Zenon DEF OpFinishes
  <2>2. CASE op \notin {"create", "destroy"}
    BY <1>6, <1>t, <2>1, <2>2, OpOutcome, Unseen, Zenon
  <2>3. CASE op = "destroy"
    <3>1. dp' \in {dp, None} /\ made' = made /\ jobs["destroy"].phase = "running"
      BY <1>6, <1>t, <2>3, OpOutcome, Zenon
    <3>2. asked
      BY <1>t, <3>1, Zenon DEF Approvals
    <3>3. CASE dp' = dp
      BY <2>1, <3>1, <3>3, Unseen, Zenon
    <3>4. CASE dp' = None
      <4>1. Owned!Destroy
        BY <2>1, <3>1, <3>2, <3>4, Zenon DEF Owned!Destroy
      <4> QED BY <4>1, Zenon DEF Owned!Next
    <3> QED BY <3>1, <3>3, <3>4, Zenon
  <2>4. CASE op = "create"
    <3>1. \/ dp' = dp /\ made' = made
          \/ dp = None /\ dp' # None /\ dp'.id = made + 1 /\ made' = made + 1
      BY <1>6, <1>t, <2>4, OpOutcome, Zenon
    <3>2. CASE dp' = dp /\ made' = made
      BY <2>1, <3>2, Unseen, Zenon
    <3>3. CASE dp = None /\ dp' # None /\ dp'.id = made + 1 /\ made' = made + 1
      <4>1. Creating
        BY <1>6, <2>4, Zenon DEF OpFinishes, Creating
      <4>2. made <= faults + stale + unsure
        BY <1>t, <4>1, Zenon DEF Accounted, Books, Doubts
      <4>3. Owned!Make
        BY <2>1, <3>3, <4>2, Zenon DEF Owned!Make
      <4> QED BY <4>3, Zenon DEF Owned!Next
    <3> QED BY <3>1, <3>2, <3>3, Zenon
  <2> QED BY <2>2, <2>3, <2>4, Zenon
<1> QED
  BY <1>1, <1>2, <1>3, <1>4, <1>5, <1>6, Zenon DEF Next, Human, Cluster

\* A new object owns nothing, in both specifications.
LEMMA OwnedInit == Init => KnownInv /\ Owned!Init
<1> SUFFICES ASSUME Init PROVE KnownInv /\ Owned!Init
  BY Zenon
<1>1. TypeInv
  BY TypeStart, Zenon
<1>2. /\ obj.exists /\ ~obj.deleted /\ ~obj.approved /\ ~obj.finalizer
      /\ st = NoStatus /\ old = NoStatus /\ wst = NoStatus /\ pc = "idle" /\ sys = NoObj
      /\ dp = None /\ made = 0 /\ unsure = 0 /\ faults = 0 /\ stale = 0 /\ asked = FALSE
  BY Zenon DEF Init, NoObj
<1>3. \A n \in {"create", "destroy", "query"} : jobs[n].phase = "absent"
  BY Zenon DEF Init, Ops, NoJob
<1>4. CopiesAgree /\ NothingYet /\ Approvals
  BY <1>2, <1>3, Blanks, Zenon DEF CopiesAgree, NothingYet, Approvals, Active
<1>6. Identified
  BY <1>2, <1>3, Zenon DEF Identified, ToldOfPool, Done
<1>7. Accounted
  BY <1>2, <1>3 DEF Accounted, Books, Creating, Doubts
<1>8. Owned!Init
  BY <1>2 DEF Owned!Init
<1>9. KnownIds /\ Finalized /\ DestroyedForGood
  <2>1. st.uuid = 0 /\ old.uuid = 0 /\ wst.uuid = 0 /\ 0 <= made
    BY <1>2 DEF NoStatus
  <2> QED BY <1>2, <1>3, <2>1, Blanks, Zenon
          DEF KnownIds, Finalized, DestroyedForGood, ToldOfPool, Active, Done
<1> QED BY <1>1, <1>4, <1>6, <1>7, <1>8, <1>9, Zenon DEF OwnedInv, KnownInv

\* Reconcile, PoolMissing (daospool_controller.go:298-301) and finalize: with any
\* bounds on edits and troubles, a DaosPool makes a second pool only after a create
\* whose outcome was in doubt, destroys one only on approval, and does not go before
\* a pool it owes the destruction of.
THEOREM OwnsSafely == Spec => OwnsItsPool
<1>1. Init => KnownInv /\ Owned!Init
  BY OwnedInit, Zenon
<1>2. KnownInv /\ [Next]_vars => KnownInv'
  BY KnownStep, Zenon
<1>3. KnownInv /\ [Next]_vars => [Owned!Next]_(Owned!vars)
  BY OwnedRefined, Zenon
<1> QED BY <1>1, <1>2, <1>3, PTL DEF Spec, OwnsItsPool, Owned!Safety

-----------------------------------------------------------------------------
(***************************************************************************)
(* The S3 gateway of a pool.  OneList is a theorem about S3Service alone,  *)
(* whose constants and variables are declared here under names of their    *)
(* own; nothing above depends on them.                                     *)
(***************************************************************************)
CONSTANTS MaxReplicas, Images

VARIABLES gwSpec, gwStatus, gwPool, gwDep, gwPods, gwQueued, gwTimer,
          gwPc, gwSvc, gwWst, gwEdits, gwTroubles

Gateway == INSTANCE S3Service WITH
    spec <- gwSpec, status <- gwStatus, pool <- gwPool, dep <- gwDep, pods <- gwPods,
    queued <- gwQueued, timer <- gwTimer, pc <- gwPc, svc <- gwSvc, wst <- gwWst,
    edits <- gwEdits, troubles <- gwTroubles

ReadServices == [spec : Gateway!Specs \cup {None}, version : Nat, requeue : BOOLEAN]

\* Neither the Deployment nor a spec that a pass has accepted would give two pods
\* of one template a user list each, whatever spec is stored by now.
ListInv ==
    /\ gwSpec \in Gateway!Specs /\ gwPods \in [Gateway!Templates -> Nat]
    /\ gwSvc \in ReadServices /\ gwEdits \in Nat
    /\ gwPc # "idle" => gwSvc.spec \in Gateway!Specs
    /\ gwPc = "apply" => ~Gateway!Unsafe(gwSvc.spec)
    /\ gwDep # None => gwDep.spec \in Gateway!Specs /\ ~Gateway!Unsafe(gwDep.spec)
    /\ Gateway!OneList

\* A step that leaves Deployment and pods alone keeps ListInv if what it reads and
\* accepts is right.
LEMMA ListKept ==
    ASSUME ListInv, UNCHANGED <<gwDep, gwPods>>,
           gwSpec' \in Gateway!Specs, gwSvc' \in ReadServices, gwEdits' \in Nat,
           gwPc' # "idle" => gwSvc'.spec \in Gateway!Specs,
           gwPc' = "apply" => ~Gateway!Unsafe(gwSvc'.spec)
    PROVE  ListInv'
  BY Zenon DEF ListInv, Gateway!OneList

\* Every step of S3Service keeps ListInv.
LEMMA ListStep == ListInv /\ [Gateway!Next]_(Gateway!vars) => ListInv'
<1> SUFFICES ASSUME ListInv, [Gateway!Next]_(Gateway!vars) PROVE ListInv'
  BY Zenon
<1> USE DEF Gateway!object, Gateway!cluster, Gateway!queue, Gateway!pass, Gateway!bounds
<1>1. CASE Gateway!BeginPass
  BY <1>1, ListKept, Zenon DEF Gateway!BeginPass, ListInv, ReadServices
<1>2. CASE Gateway!ReadPool
  <2>1. gwSvc' \in ReadServices /\ gwSvc'.spec = gwSvc.spec
    BY <1>2, Zenon DEF Gateway!ReadPool, Gateway!Answer, ListInv, ReadServices
  <2>2. /\ gwPc # "idle"
        /\ gwPc' = "apply" => ~Gateway!Unsafe(gwSvc.spec)
        /\ UNCHANGED <<gwSpec, gwEdits, gwDep, gwPods>>
    BY <1>2, Zenon DEF Gateway!ReadPool, Gateway!Answer
  <2>3. gwSvc.spec \in Gateway!Specs /\ gwSpec \in Gateway!Specs /\ gwEdits \in Nat
    BY <2>2, Zenon DEF ListInv
  <2>4. gwPc' = "apply" => ~Gateway!Unsafe(gwSvc'.spec)
    BY <2>1, <2>2, Zenon DEF Gateway!Unsafe
  <2> QED BY <2>1, <2>2, <2>3, <2>4, ListKept, Zenon
<1>3. CASE Gateway!Apply
  BY <1>3, Zenon DEF Gateway!Apply, Gateway!Applied, ListInv, ReadServices, Gateway!OneList
<1>4. CASE \/ Gateway!UpdateStatus \/ Gateway!PassEnds
           \/ Gateway!EditSpec \/ Gateway!TimerFires \/ Gateway!PoolChanges
  <2>1. /\ UNCHANGED <<gwDep, gwPods>> /\ gwSpec' \in Gateway!Specs /\ gwEdits' \in Nat
        /\ (gwPc' = "idle" /\ gwSvc' = Gateway!NoSvc) \/ UNCHANGED <<gwPc, gwSvc>>
    <3>1. gwEdits \in Nat /\ gwEdits + 1 \in Nat /\ gwSpec \in Gateway!Specs
      BY DEF ListInv
    <3> QED BY <1>4, <3>1, Zenon
            DEF Gateway!UpdateStatus, Gateway!PassEnds, Gateway!Return, Gateway!EditSpec,
                Gateway!TimerFires, Gateway!PoolChanges
  <2>2. CASE gwPc' = "idle" /\ gwSvc' = Gateway!NoSvc
    <3>1. gwSvc' \in ReadServices
      BY <2>2, Zenon DEF Gateway!NoSvc, ReadServices
    <3> QED BY <2>1, <2>2, <3>1, ListKept, Zenon
  <2>3. CASE UNCHANGED <<gwPc, gwSvc>>
    BY <2>1, <2>3, ListKept, Zenon DEF ListInv, Gateway!Unsafe
  <2> QED BY <2>1, <2>2, <2>3, Zenon
<1>5. ASSUME NEW t \in Gateway!Templates, Gateway!PodDies(t) \/ Gateway!PodGoes(t) PROVE ListInv'
  <2>1. /\ gwPods[t] > 0 /\ gwPods' = [gwPods EXCEPT ![t] = @ - 1]
        /\ UNCHANGED <<gwSpec, gwEdits, gwDep, gwPc, gwSvc>>
    BY <1>5, Zenon DEF Gateway!PodDies, Gateway!PodGoes
  <2>2. /\ gwPods' \in [Gateway!Templates -> Nat]
        /\ \A u \in Gateway!Templates : gwPods'[u] <= gwPods[u]
    BY <2>1 DEF ListInv
  <2>3. Gateway!OneList'
    BY <2>2 DEF ListInv, Gateway!OneList
  <2> QED BY <2>1, <2>2, <2>3, Zenon DEF ListInv, Gateway!Unsafe
<1>6. CASE Gateway!PodReady
  BY <1>6 DEF Gateway!PodReady, ListInv, Gateway!OneList, Gateway!Specs, Gateway!Unsafe
<1>7. CASE Gateway!DeploymentReports
  BY <1>7 DEF Gateway!DeploymentReports, ListInv, Gateway!OneList
<1>8. CASE UNCHANGED Gateway!vars
  BY <1>8, ListKept, Zenon DEF Gateway!vars, ListInv, Gateway!Unsafe
<1> QED BY <1>1, <1>2, <1>3, <1>4, <1>5, <1>6, <1>7, <1>8, Zenon
        DEF Gateway!Next, Gateway!Reconcile, Gateway!Deployment

\* validateReplicas (s3service_controller.go:158-159): for any number of replicas,
\* images, edits and troubles, no two pods of one template keep a user list each,
\* whatever the order of edits, refusals and rollouts.
THEOREM ListsAreOne == Gateway!Spec => []Gateway!OneList
<1>1. Gateway!Init => ListInv
  BY DEF Gateway!Init, Gateway!NoSvc, ListInv, ReadServices, Gateway!OneList
<1>2. ListInv => Gateway!OneList
  BY Zenon DEF ListInv
<1> QED BY <1>1, <1>2, ListStep, PTL DEF Gateway!Spec
=============================================================================
