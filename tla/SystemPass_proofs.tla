------------------------- MODULE SystemPass_proofs -------------------------
(***************************************************************************)
(* Proofs about SystemPass, for any number of nodes, approvals and events. *)
(***************************************************************************)
EXTENDS SystemPass, TLAPS

USE SystemPassAssumption

Copies == [approved : BOOLEAN, rankop : BOOLEAN, pods : SUBSET Nodes]

\* What Run leaves behind is a Job value again.
LEMMA AfterRunType ==
    ASSUME NEW C, NEW O, NEW j \in Job(C, O), NEW c \in C
    PROVE  AfterRun(j, c) \in Job(C, O)
  BY Zenon DEF Job, AfterRun, Running, Deleting, Done

\* A running Job that ends with an output is a finished Job value.
LEMMA FinishedType ==
    ASSUME NEW C, NEW O, NEW j \in Job(C, O), j.phase = "running", NEW o \in O
    PROVE  /\ Finished(j, o) \in Job(C, O) /\ j.cmd \in C
           /\ Finished(j, o).phase = "finished" /\ Finished(j, o).out = o
<1>1. j \in [phase : {"running"}, cmd : C, out : {None}]
  BY Zenon DEF Job
<1>2. Finished(j, o) \in [phase : {"finished"}, cmd : C, out : O]
  BY <1>1, Zenon DEF Finished
<1> QED BY <1>1, <1>2, Zenon DEF Job, Finished

\* The values between passes, and the Job that is not there, are well typed.
LEMMA BlankTypes ==
    /\ NoSys \in Copies /\ NoStatus \in Statuses /\ AllUp \in [Nodes -> Engines]
    /\ \A C, O : NoJob \in Job(C, O)
<1>1. NoSys \in Copies
  BY Zenon DEF NoSys, Copies
<1>2. AllUp \in [Nodes -> Engines] /\ AllUp \in [Nodes -> RankStates]
  BY Zenon DEF AllUp, Engines, RankStates
<1>3. NoStatus \in Statuses
  BY <1>2, Zenon DEF NoStatus, Statuses
<1> QED BY <1>1, <1>2, <1>3, Zenon DEF NoJob, Job

\* The statuses a pass builds.
LEMMA StatusTypes ==
    ASSUME NEW s \in Statuses
    PROVE  /\ [s EXCEPT !.phase = None] \in Statuses
           /\ \A p \in Phases : [s EXCEPT !.phase = p, !.engines = "Upgrading", !.ready = "Upgrading"] \in Statuses
           /\ [s EXCEPT !.known = FALSE] \in Statuses
           /\ \A f \in [Nodes -> RankStates] : [s EXCEPT !.known = TRUE, !.ranks = f] \in Statuses
           /\ \A e \in {"ServersNotReady", "MembershipUnknown", "EnginesDown", "AllJoined"},
                 r \in {"ServersNotReady", "RanksNotJoined", "Ready"} :
                [s EXCEPT !.engines = e, !.ready = r] \in Statuses
<1>1. [s EXCEPT !.phase = None] \in Statuses
  BY Zenon DEF Statuses
<1>2. \A p \in Phases : [s EXCEPT !.phase = p, !.engines = "Upgrading", !.ready = "Upgrading"] \in Statuses
  BY Zenon DEF Statuses
<1>3. [s EXCEPT !.known = FALSE] \in Statuses
  BY Zenon DEF Statuses
<1>4. \A f \in [Nodes -> RankStates] : [s EXCEPT !.known = TRUE, !.ranks = f] \in Statuses
  BY Zenon DEF Statuses
<1>5. \A e \in {"ServersNotReady", "MembershipUnknown", "EnginesDown", "AllJoined"},
         r \in {"ServersNotReady", "RanksNotJoined", "Ready"} :
        [s EXCEPT !.engines = e, !.ready = r] \in Statuses
  BY Zenon DEF Statuses
<1> QED BY <1>1, <1>2, <1>3, <1>4, <1>5, Zenon

\* Run, and the end of a Job, leave Jobs.
LEMMA JobsType ==
    ASSUME TypeOK, NEW name \in Names
    PROVE  /\ \A ranks \in SUBSET Nodes :
                RunJob(name, ranks) => jobs' \in [Names -> Job(SUBSET Nodes, Outs)]
           /\ Done(jobs[name]) => jobs[name].out \in Outs
<1>1. jobs \in [Names -> Job(SUBSET Nodes, Outs)]
  BY Zenon DEF TypeOK
<1>2. \A ranks \in SUBSET Nodes : AfterRun(jobs[name], ranks) \in Job(SUBSET Nodes, Outs)
  BY <1>1, AfterRunType, Zenon
<1>3. Done(jobs[name]) => jobs[name].out \in Outs
  BY <1>1, Zenon DEF Job, Done
<1>4. ASSUME NEW ranks \in SUBSET Nodes, RunJob(name, ranks)
      PROVE  jobs' \in [Names -> Job(SUBSET Nodes, Outs)]
  <2>1. (IF Done(jobs[name]) THEN NoJob ELSE AfterRun(jobs[name], ranks)) \in Job(SUBSET Nodes, Outs)
    BY <1>2, BlankTypes, Zenon
  <2>2. jobs' = [jobs EXCEPT ![name] = IF Done(jobs[name]) THEN NoJob ELSE AfterRun(jobs[name], ranks)]
    BY <1>4, Zenon DEF RunJob
  <2> QED BY <1>1, <2>1, <2>2, Zenon
<1> QED BY <1>3, <1>4, Zenon

\* A Job that ends leaves Jobs, and none but itself changes.
LEMMA AnswersType ==
    ASSUME TypeOK, NEW name \in Names, jobs[name].phase = "running",
           NEW ans \in {"ok", "error", "stuck", "retry", "stale", "unreadable"}, NEW ranks \in [Nodes -> Engines],
           Answers(name, ans, ranks)
    PROVE  /\ jobs' \in [Names -> Job(SUBSET Nodes, Outs)]
           /\ \A j \in Names \ {name} : jobs'[j] = jobs[j]
           /\ jobs'[name].phase = "finished" /\ jobs'[name].out.ans = ans
<1>1. jobs \in [Names -> Job(SUBSET Nodes, Outs)]
  BY Zenon DEF TypeOK
<1>2. [ans |-> ans, ranks |-> ranks] \in Outs
  BY Zenon DEF Outs
<1> DEFINE out == [ans |-> ans, ranks |-> ranks]
           ended == Finished(jobs[name], out)
<1>3. jobs[name] \in Job(SUBSET Nodes, Outs) /\ out \in Outs
  BY <1>1, <1>2, Zenon
<1> HIDE DEF out
<1>4. ended \in Job(SUBSET Nodes, Outs) /\ ended.phase = "finished" /\ ended.out = out
  BY <1>3, FinishedType
<1>5. jobs' = [jobs EXCEPT ![name] = ended]
  BY Zenon DEF Answers, out
<1>6. out.ans = ans
  BY Zenon DEF out
<1> HIDE DEF ended
<1> QED BY <1>1, <1>4, <1>5, <1>6, Zenon

\* Deleting pods leaves pods and engines.
LEMMA DeleteType ==
    ASSUME TypeOK, NEW S, DeletePods(S)
    PROVE  pods' \subseteq Nodes /\ engine' \in [Nodes -> Engines]
  BY Zenon DEF TypeOK, DeletePods, Engines

\* The restart goes on or is over.
LEMMA RestartType ==
    ASSUME TypeOK
    PROVE  /\ \A p \in Phases : Restarting(p) => wst' \in Statuses /\ pc' = "update" /\ approved' \in BOOLEAN
           /\ Over => wst' \in Statuses /\ pc' = "query" /\ approved' \in BOOLEAN
<1>1. ASSUME NEW p \in Phases, Restarting(p) PROVE wst' \in Statuses /\ pc' = "update"
  <2>1. wst \in Statuses
    BY Zenon DEF TypeOK
  <2>2. [wst EXCEPT !.phase = p, !.engines = "Upgrading", !.ready = "Upgrading"] \in Statuses
    BY <2>1, StatusTypes, Zenon
  <2> QED BY <1>1, <2>2, Zenon DEF Restarting
<1>2. \A p \in Phases : Restarting(p) => approved' \in BOOLEAN
  BY Zenon DEF Restarting, TypeOK
<1>3. Over => wst' \in Statuses /\ pc' = "query"
  BY StatusTypes, Zenon DEF Over, TypeOK
<1>4. Over => approved' \in BOOLEAN
  BY Zenon DEF Over
<1> QED BY <1>1, <1>2, <1>3, <1>4, Zenon

\* Types are kept by the steps of the full-stop restart.
LEMMA UpgradeType == TypeOK /\ (Upgrade \/ TimeOut) => TypeOK'
<1> SUFFICES ASSUME TypeOK, Upgrade \/ TimeOut PROVE TypeOK'
  BY Zenon
<1> USE DEF object, memory, daos, history, bounds
<1>p. {"Stopping", "Updating", "Starting", "StartingSystem", "Verifying"} \subseteq Phases
  BY Zenon DEF Phases
<1>n. Names = {"stop", "start", "verify", "query", "rankop", "enginestart"} /\ {} \in SUBSET Nodes
  BY Zenon DEF Names
<1>1. CASE Stopping
  <2>1. jobs' \in [Names -> Job(SUBSET Nodes, Outs)]
    BY <1>1, <1>n, JobsType, Zenon DEF Stopping
  <2>2. wst' \in Statuses /\ pc' \in {"update", "query"} /\ approved' \in BOOLEAN
    BY <1>1, <1>p, RestartType, Zenon DEF Stopping
  <2> QED BY <1>1, <2>1, <2>2, Zenon DEF Stopping, TypeOK
<1>2. CASE Updating
  <2>1. pods' \subseteq Nodes /\ engine' \in [Nodes -> Engines]
    BY <1>2, DeleteType, Zenon DEF Updating, TypeOK
  <2>2. wst' \in Statuses /\ pc' \in {"update", "query"} /\ approved' \in BOOLEAN
    BY <1>2, <1>p, RestartType, Zenon DEF Updating
  <2> QED BY <1>2, <2>1, <2>2, Zenon DEF Updating, TypeOK
<1>3. CASE Starting
  <2>1. wst' \in Statuses /\ pc' = "update" /\ approved' \in BOOLEAN
    BY <1>3, <1>p, RestartType, Zenon DEF Starting
  <2> QED BY <1>3, <2>1, Zenon DEF Starting, TypeOK
<1>4. CASE StartingSystem
  <2>1. jobs' \in [Names -> Job(SUBSET Nodes, Outs)]
    BY <1>4, <1>n, JobsType, Zenon DEF StartingSystem
  <2>2. wst' \in Statuses /\ pc' \in {"update", "query"} /\ approved' \in BOOLEAN
    BY <1>4, <1>p, RestartType, Zenon DEF StartingSystem
  <2> QED BY <1>4, <2>1, <2>2, Zenon DEF StartingSystem, TypeOK
<1>5. CASE Verifying
  <2>1. jobs' \in [Names -> Job(SUBSET Nodes, Outs)]
    BY <1>5, <1>n, JobsType, Zenon DEF Verifying
  <2>2. wst' \in Statuses /\ pc' \in {"update", "query"} /\ approved' \in BOOLEAN
    BY <1>5, <1>p, RestartType, Zenon DEF Verifying
  <2> QED BY <1>5, <2>1, <2>2, Zenon DEF Verifying, TypeOK
<1>6. CASE TimeOut
  <2>1. wst' \in Statuses /\ pc' = "query" /\ approved' \in BOOLEAN
    BY <1>6, RestartType, Zenon DEF TimeOut
  <2>2. events' \in 0..MaxEvents
    BY <1>6 DEF TimeOut, Event, TypeOK
  <2> QED BY <1>6, <2>1, <2>2, Zenon DEF TimeOut, TypeOK
<1> QED BY <1>1, <1>2, <1>3, <1>4, <1>5, <1>6, Zenon DEF Upgrade

\* Types are kept by the steps after it.
LEMMA PassType ==
    TypeOK /\ (BeginPass \/ Query \/ RankOpRefused \/ RankOp \/ EngineCheck \/ EngineStart
               \/ UpdateStatus \/ PassEnds) => TypeOK'
<1> SUFFICES ASSUME TypeOK, BeginPass \/ Query \/ RankOpRefused \/ RankOp \/ EngineCheck
                            \/ EngineStart \/ UpdateStatus \/ PassEnds
             PROVE  TypeOK'
  BY Zenon
<1> USE DEF object, memory, daos, history, bounds
<1>n. Names = {"stop", "start", "verify", "query", "rankop", "enginestart"} /\ {} \in SUBSET Nodes
  BY Zenon DEF Names
<1>1. CASE BeginPass
  <2>1. sys' \in [approved : BOOLEAN, rankop : BOOLEAN, pods : SUBSET Nodes]
    BY <1>1, Zenon DEF BeginPass, TypeOK
  <2> QED BY <1>1, <2>1, Zenon DEF BeginPass, TypeOK
<1>2. CASE Query
  <2>1. jobs' \in [Names -> Job(SUBSET Nodes, Outs)]
    BY <1>2, <1>n, JobsType, Zenon DEF Query
  <2>2. wst' \in Statuses
    <3>1. wst \in Statuses /\ wst.ranks \in [Nodes -> RankStates]
      BY Zenon DEF TypeOK, Statuses
    <3>2. ASSUME NEW S PROVE Unresponsive(S) \in Statuses
      <4>1. [n \in Nodes |-> IF n \in S THEN "unresponsive" ELSE wst.ranks[n]] \in [Nodes -> RankStates]
        BY <3>1, Zenon DEF RankStates
      <4> QED BY <3>1, <4>1, StatusTypes, Zenon DEF Unresponsive
    <3>3. [wst EXCEPT !.known = FALSE] \in Statuses
      BY <3>1, StatusTypes, Zenon
    <3>4. Says("query", "ok") => [wst EXCEPT !.known = TRUE, !.ranks = jobs["query"].out.ranks] \in Statuses
      <4> SUFFICES ASSUME Says("query", "ok")
                   PROVE  [wst EXCEPT !.known = TRUE, !.ranks = jobs["query"].out.ranks] \in Statuses
        BY Zenon
      <4>1. jobs["query"].out \in Outs
        BY <1>n, JobsType, Zenon DEF Says
      <4>2. jobs["query"].out.ranks \in [Nodes -> RankStates]
        BY <4>1, Zenon DEF Outs, RankStates
      <4> QED BY <3>1, <4>2, StatusTypes, Zenon
    <3> QED BY <1>2, <3>1, <3>2, <3>3, <3>4, Zenon DEF Query
  <2> QED BY <1>2, <2>1, <2>2, Zenon DEF Query, TypeOK
<1>3. CASE RankOpRefused
  <2>1. sys' \in [approved : BOOLEAN, rankop : BOOLEAN, pods : SUBSET Nodes]
    BY <1>3, Zenon DEF RankOpRefused, RankOpOver, TypeOK
  <2> QED BY <1>3, <2>1, Zenon DEF RankOpRefused, RankOpOver, TypeOK
<1>4. CASE RankOp
  <2>1. sys' \in [approved : BOOLEAN, rankop : BOOLEAN, pods : SUBSET Nodes]
    BY <1>4, Zenon DEF RankOp, RankOpOver, TypeOK
  <2>2. jobs' \in [Names -> Job(SUBSET Nodes, Outs)]
    BY <1>4, <1>n, JobsType, Zenon DEF RankOp
  <2>3. rankop' \in BOOLEAN /\ pc' = "engines"
    BY <1>4, Zenon DEF RankOp, RankOpOver, TypeOK
  <2> QED BY <1>4, <2>1, <2>2, <2>3, Zenon DEF RankOp, TypeOK
<1>5. CASE EngineCheck
  <2>1. wst' \in Statuses
    <3>1. EnginesReason \in {"ServersNotReady", "MembershipUnknown", "EnginesDown", "AllJoined"}
      BY Zenon DEF EnginesReason
    <3>2. ReadyReason \in {"ServersNotReady", "RanksNotJoined", "Ready"}
      BY Zenon DEF ReadyReason
    <3> QED BY <1>5, <3>1, <3>2, StatusTypes, Zenon DEF EngineCheck, TypeOK
  <2>2. running' \subseteq Nodes
    BY <1>5, Zenon DEF EngineCheck, Candidates, TypeOK
  <2>3. events' \in 0..MaxEvents
    <3>1. events' = events \/ Event
      BY <1>5, Zenon DEF EngineCheck
    <3>2. CASE Event
      BY <3>2 DEF Event, TypeOK
    <3> QED BY <3>1, <3>2, Zenon DEF TypeOK
  <2> QED BY <1>5, <2>1, <2>2, <2>3, Zenon DEF EngineCheck, TypeOK
<1>6. CASE EngineStart
  <2>1. jobs' \in [Names -> Job(SUBSET Nodes, Outs)]
    BY <1>6, <1>n, JobsType, Zenon DEF EngineStart, TypeOK
  <2>2. pods' \subseteq Nodes /\ engine' \in [Nodes -> Engines] /\ running' \subseteq Nodes
    BY <1>6, DeleteType, Zenon DEF EngineStart, TypeOK
  <2> QED BY <1>6, <2>1, <2>2, Zenon DEF EngineStart, TypeOK
<1>7. CASE UpdateStatus
  BY <1>7, BlankTypes, Zenon DEF UpdateStatus, Return, TypeOK, Copies
<1>8. CASE PassEnds
  <2>1. events' \in 0..MaxEvents
    BY <1>8 DEF PassEnds, Event, TypeOK
  <2>2. running' \subseteq Nodes
    BY <1>8, Zenon DEF PassEnds, TypeOK
  <2> QED BY <1>8, <2>1, <2>2, BlankTypes, Zenon DEF PassEnds, Return, TypeOK, Copies
<1> QED BY <1>1, <1>2, <1>3, <1>4, <1>5, <1>6, <1>7, <1>8, Zenon

\* The engines after a start, a rank operation or a stop are engines.
LEMMA EngineTypes ==
    ASSUME TypeOK
    PROVE  /\ \A S : Started(S) \in [Nodes -> Engines]
           /\ \A n \in Nodes : Changed(n) \in [Nodes -> Engines]
  BY Zenon DEF TypeOK, Started, Changed, Engines

\* Types are kept by Jobs that end.
LEMMA JobsFinishType == TypeOK /\ JobsFinish => TypeOK'
<1> SUFFICES ASSUME TypeOK, JobsFinish PROVE TypeOK'
  BY Zenon
<1> USE DEF object, memory, daos, history, bounds
<1>n. {"stop", "start", "verify", "query", "rankop", "enginestart"} \subseteq Names
  BY Zenon DEF Names
<1>u. AllUp \in [Nodes -> Engines] /\ engine \in [Nodes -> Engines]
  BY BlankTypes, Zenon DEF TypeOK
<1>1. CASE StopFinishes
  <2>1. PICK S \in {Nodes, {}}, ans \in {"ok", "error"} :
         /\ Ends("stop", ans)
         /\ engine' = [n \in Nodes |-> IF n \in S /\ engine[n] = "up" THEN "stopped" ELSE engine[n]]
    BY <1>1, Zenon DEF StopFinishes
  <2>2. jobs' \in [Names -> Job(SUBSET Nodes, Outs)]
    BY <1>1, <1>n, <1>u, <2>1, AnswersType, ZenonT(30) DEF StopFinishes, Ends
  <2>3. engine' \in [Nodes -> Engines]
    BY <1>u, <2>1, Zenon DEF Engines
  <2>4. late' \in BOOLEAN
    BY <1>1, Zenon DEF StopFinishes
  <2> QED BY <1>1, <2>2, <2>3, <2>4, Zenon DEF StopFinishes, TypeOK
<1>2. CASE StartFinishes
  <2>1. PICK ans \in {"ok", "error"} : Ends("start", ans)
    BY <1>2, Zenon DEF StartFinishes
  <2>2. jobs' \in [Names -> Job(SUBSET Nodes, Outs)]
    BY <1>2, <1>n, <1>u, <2>1, AnswersType, Zenon DEF StartFinishes, Ends
  <2>3. engine' \in [Nodes -> Engines]
    BY <1>2, <1>u, EngineTypes, Zenon DEF StartFinishes
  <2> QED BY <1>2, <2>2, <2>3, Zenon DEF StartFinishes, TypeOK
<1>3. CASE VerifyFinishes
  <2>1. PICK ans \in {"ok", "error", "unreadable"} : Ends("verify", ans)
    BY <1>3, Zenon DEF VerifyFinishes
  <2>2. jobs' \in [Names -> Job(SUBSET Nodes, Outs)]
    BY <1>3, <1>n, <1>u, <2>1, AnswersType, Zenon DEF VerifyFinishes, Ends
  <2>3. events' \in 0..MaxEvents
    <3>1. events' = events \/ Event
      BY <1>3, Zenon DEF VerifyFinishes
    <3>2. CASE Event
      BY <3>2 DEF Event, TypeOK
    <3> QED BY <3>1, <3>2, Zenon DEF TypeOK
  <2> QED BY <1>3, <2>2, <2>3, Zenon DEF VerifyFinishes, TypeOK
<1>4. CASE QueryFinishes
  <2>1. PICK ans \in {"ok", "error", "stale"}, ranks \in [Nodes -> Engines] : Answers("query", ans, ranks)
    BY <1>4, <1>u, Zenon DEF QueryFinishes, Ends
  <2>2. jobs' \in [Names -> Job(SUBSET Nodes, Outs)]
    BY <1>4, <1>n, <2>1, AnswersType, Zenon DEF QueryFinishes
  <2>3. events' \in 0..MaxEvents
    <3>1. events' = events \/ Event
      BY <1>4, Zenon DEF QueryFinishes
    <3>2. CASE Event
      BY <3>2 DEF Event, TypeOK
    <3> QED BY <3>1, <3>2, Zenon DEF TypeOK
  <2> QED BY <1>4, <2>2, <2>3, Zenon DEF QueryFinishes, TypeOK
<1>5. CASE RankOpFinishes
  <2>1. PICK ans \in {"ok", "error", "retry"} : Ends("rankop", ans)
    BY <1>5, Zenon DEF RankOpFinishes
  <2>2. jobs' \in [Names -> Job(SUBSET Nodes, Outs)]
    BY <1>5, <1>n, <1>u, <2>1, AnswersType, Zenon DEF RankOpFinishes, Ends
  <2>3. engine' \in [Nodes -> Engines]
    BY <1>5, <1>u, EngineTypes, Zenon DEF RankOpFinishes
  <2>4. events' \in 0..MaxEvents
    <3>1. events' = events \/ Event
      BY <1>5, Zenon DEF RankOpFinishes
    <3>2. CASE Event
      BY <3>2 DEF Event, TypeOK
    <3> QED BY <3>1, <3>2, Zenon DEF TypeOK
  <2> QED BY <1>5, <2>2, <2>3, <2>4, Zenon DEF RankOpFinishes, TypeOK
<1>6. CASE EngineStartFinishes
  <2>1. PICK ans \in {"ok", "error", "stuck"} : Ends("enginestart", ans)
    BY <1>6, Zenon DEF EngineStartFinishes
  <2>2. jobs' \in [Names -> Job(SUBSET Nodes, Outs)]
    BY <1>6, <1>n, <1>u, <2>1, AnswersType, Zenon DEF EngineStartFinishes, Ends
  <2>3. engine' \in [Nodes -> Engines]
    BY <1>6, <1>u, EngineTypes, Zenon DEF EngineStartFinishes
  <2> QED BY <1>6, <2>2, <2>3, Zenon DEF EngineStartFinishes, TypeOK
<1> QED BY <1>1, <1>2, <1>3, <1>4, <1>5, <1>6, Zenon DEF JobsFinish

\* Types are kept by every step.
LEMMA TypeStep == TypeOK /\ [Next]_vars => TypeOK'
<1> SUFFICES ASSUME TypeOK, [Next]_vars PROVE TypeOK'
  BY Zenon
<1> USE DEF object, memory, daos, history, bounds
<1>1. CASE Reconcile \/ TimeOut \/ RankOpRefused \/ PassEnds
  BY <1>1, UpgradeType, PassType, Zenon DEF Reconcile
<1>2. CASE Approve
  <2>1. given' \in 0..MaxApprovals
    BY <1>2 DEF Approve, TypeOK
  <2> QED BY <1>2, <2>1, Zenon DEF Approve, TypeOK
<1>3. CASE Withdraw \/ RequestRankOp
  <2>1. events' \in 0..MaxEvents
    BY <1>3 DEF Withdraw, RequestRankOp, Event, TypeOK
  <2> QED BY <1>3, <2>1, Zenon DEF Withdraw, RequestRankOp, TypeOK
<1>4. CASE JobsFinish
  BY <1>4, JobsFinishType, Zenon
<1>5. ASSUME NEW n \in Nodes, EngineDies(n) PROVE TypeOK'
  <2>1. events' \in 0..MaxEvents
    BY <1>5 DEF EngineDies, Event, TypeOK
  <2>2. engine' \in [Nodes -> Engines]
    BY <1>5, Zenon DEF EngineDies, TypeOK, Engines
  <2> QED BY <1>5, <2>1, <2>2, Zenon DEF EngineDies, TypeOK
<1>6. ASSUME NEW n \in Nodes, EngineReturns(n) \/ PodReady(n) PROVE TypeOK'
  <2>1. engine' \in [Nodes -> Engines]
    BY <1>6, Zenon DEF EngineReturns, PodReady, TypeOK, Engines
  <2> QED BY <1>6, <2>1, Zenon DEF EngineReturns, PodReady, TypeOK
<1>7. CASE UNCHANGED vars
  BY <1>7, Zenon DEF vars, TypeOK
<1> QED BY <1>1, <1>2, <1>3, <1>4, <1>5, <1>6, <1>7, Zenon DEF Next

\* The initial states are well typed.
LEMMA InitType == Init => TypeOK
<1> SUFFICES ASSUME Init PROVE TypeOK
  BY Zenon
<1>1. jobs \in [Names -> Job(SUBSET Nodes, Outs)]
  BY BlankTypes, Zenon DEF Init
<1>2. given \in 0..MaxApprovals /\ events \in 0..MaxEvents
  BY DEF Init
<1>3. approved \in BOOLEAN /\ rankop \in BOOLEAN /\ excused \in BOOLEAN /\ late \in BOOLEAN
  BY Zenon DEF Init
<1> QED BY <1>1, <1>2, <1>3, BlankTypes, Zenon DEF Init, TypeOK, Copies

\* Every state that passes, humans, Jobs, engines and faults can reach is well typed.
THEOREM Typing == Spec => []TypeOK
  BY InitType, TypeStep, PTL DEF Spec

-----------------------------------------------------------------------------
(***************************************************************************)
(* The restart keeps to itself.  Unless it ran into its time limit or a    *)
(* pass was cut short, its stop and start Jobs exist only in the phase     *)
(* that waits for them, and a pass gets to rank operations and engine      *)
(* starts only without a phase.                                            *)
(***************************************************************************)
Phase == IF pc = "idle" THEN st.phase ELSE wst.phase

InPhase ==
    /\ jobs["stop"].phase # "absent" => Phase = "Stopping"
    /\ jobs["start"].phase # "absent" => Phase = "StartingSystem"
    /\ pc \in {"query", "rankop", "engines", "start"} => wst.phase = None

PhaseInv == TypeOK /\ (~excused => InPhase)

\* What Run does to the Jobs.
LEMMA RunEffect ==
    ASSUME TypeOK, NEW name \in Names, NEW ranks, RunJob(name, ranks)
    PROVE  /\ \A j \in Names \ {name} : jobs'[j] = jobs[j]
           /\ Done(jobs[name]) => jobs'[name] = NoJob
           /\ ~Done(jobs[name]) => ~Done(jobs'[name])
           /\ jobs'[name].phase = "running" => jobs[name].phase \in {"absent", "running"}
<1>1. jobs' = [jobs EXCEPT ![name] = IF Done(jobs[name]) THEN NoJob ELSE AfterRun(jobs[name], ranks)]
  BY Zenon DEF RunJob
<1>2. jobs'[name] = IF Done(jobs[name]) THEN NoJob ELSE AfterRun(jobs[name], ranks)
  BY <1>1, Zenon DEF TypeOK
<1>3. \A j \in Names \ {name} : jobs'[j] = jobs[j]
  BY <1>1, Zenon DEF TypeOK
<1> QED BY <1>2, <1>3 DEF AfterRun, Running, NoJob, Done

\* What the end of a Job does to the Jobs.
LEMMA FinishEffect ==
    ASSUME TypeOK, JobsFinish
    PROVE  \E name \in Names :
             /\ jobs[name].phase = "running" /\ jobs'[name].phase = "finished"
             /\ \A j \in Names \ {name} : jobs'[j] = jobs[j]
             /\ name = "stop" => StopFinishes
             /\ name # "stop" => ~StopFinishes
<1>1. ASSUME NEW name \in Names, NEW ans, NEW ranks, jobs[name].phase = "running", Answers(name, ans, ranks)
      PROVE  jobs'[name].phase = "finished" /\ \A j \in Names \ {name} : jobs'[j] = jobs[j]
  <2> DEFINE o == [ans |-> ans, ranks |-> ranks]
  <2>1. jobs \in [Names -> Job(SUBSET Nodes, Outs)]
    BY Zenon DEF TypeOK
  <2>2. jobs[name] \in [phase : {"running"}, cmd : SUBSET Nodes, out : {None}]
    BY <1>1, <2>1, Zenon DEF Job
  <2>3. jobs' = [jobs EXCEPT ![name] = Finished(jobs[name], o)]
    BY <1>1, Zenon DEF Answers
  <2> HIDE DEF o
  <2>4. Finished(jobs[name], o).phase = "finished"
    BY <2>2, Zenon DEF Finished
  <2> QED BY <2>1, <2>3, <2>4, Zenon
<1>n. {"stop", "start", "verify", "query", "rankop", "enginestart"} \subseteq Names
  BY Zenon DEF Names
<1>2. CASE StopFinishes
  BY <1>1, <1>2, <1>n, Zenon DEF StopFinishes, Ends
<1>3. CASE StartFinishes /\ ~StopFinishes
  BY <1>1, <1>3, <1>n, Zenon DEF StartFinishes, Ends
<1>4. CASE VerifyFinishes /\ ~StopFinishes
  BY <1>1, <1>4, <1>n, Zenon DEF VerifyFinishes, Ends
<1>5. CASE QueryFinishes /\ ~StopFinishes
  BY <1>1, <1>5, <1>n, Zenon DEF QueryFinishes, Ends
<1>6. CASE RankOpFinishes /\ ~StopFinishes
  BY <1>1, <1>6, <1>n, Zenon DEF RankOpFinishes, Ends
<1>7. CASE EngineStartFinishes /\ ~StopFinishes
  BY <1>1, <1>7, <1>n, Zenon DEF EngineStartFinishes, Ends
<1> QED BY <1>2, <1>3, <1>4, <1>5, <1>6, <1>7, Zenon DEF JobsFinish

After == Query \/ RankOpRefused \/ RankOp \/ EngineCheck \/ EngineStart

\* The steps of a pass after the restart leave the restart's Jobs alone, and the
\* phase.
LEMMA AfterKeepsPhase ==
    ASSUME TypeOK, After
    PROVE  /\ pc \in {"query", "rankop", "engines", "start"} /\ pc' # "idle"
           /\ wst'.phase = wst.phase
           /\ jobs'["stop"] = jobs["stop"] /\ jobs'["start"] = jobs["start"]
           /\ UNCHANGED <<st, excused, late>>
<1> USE DEF object, memory, daos, history, bounds
<1>n. {"stop", "start", "verify", "query", "rankop", "enginestart"} \subseteq Names
  BY Zenon DEF Names
<1>w. wst \in Statuses
  BY Zenon DEF TypeOK
<1>1. CASE Query
  <2>1. jobs'["stop"] = jobs["stop"] /\ jobs'["start"] = jobs["start"]
    BY <1>1, <1>n, RunEffect DEF Query
  <2>2. wst'.phase = wst.phase
    <3>1. \A S : Unresponsive(S).phase = wst.phase
      BY <1>w, Zenon DEF Unresponsive, Statuses
    <3>2. [wst EXCEPT !.known = FALSE].phase = wst.phase
      BY <1>w, Zenon DEF Statuses
    <3>3. [wst EXCEPT !.known = TRUE, !.ranks = jobs["query"].out.ranks].phase = wst.phase
      BY <1>w, Zenon DEF Statuses
    <3> QED BY <1>1, <3>1, <3>2, <3>3, Zenon DEF Query
  <2> QED BY <1>1, <2>1, <2>2, Zenon DEF Query
<1>2. CASE RankOpRefused
  BY <1>2, Zenon DEF RankOpRefused, RankOpOver
<1>3. CASE RankOp
  <2>1. jobs'["stop"] = jobs["stop"] /\ jobs'["start"] = jobs["start"]
    BY <1>3, <1>n, RunEffect DEF RankOp
  <2> QED BY <1>3, <2>1, Zenon DEF RankOp, RankOpOver
<1>4. CASE EngineCheck
  <2>1. wst'.phase = wst.phase
    BY <1>4, <1>w, Zenon DEF EngineCheck, Statuses
  <2> QED BY <1>4, <2>1, Zenon DEF EngineCheck
<1>5. CASE EngineStart
  <2>1. jobs'["stop"] = jobs["stop"] /\ jobs'["start"] = jobs["start"]
    BY <1>5, <1>n, RunEffect, Zenon DEF EngineStart
  <2> QED BY <1>5, <2>1, Zenon DEF EngineStart
<1> QED BY <1>1, <1>2, <1>3, <1>4, <1>5, Zenon DEF After

\* The status after a step of the restart.
LEMMA RestartPhase ==
    ASSUME TypeOK
    PROVE  /\ \A p : Restarting(p) => wst'.phase = p /\ pc' = "update"
           /\ Over => wst'.phase = None /\ pc' = "query"
  BY Zenon DEF TypeOK, Statuses, Restarting, Over

\* PhaseInv is kept by a step outside the passes that creates no stop or start Job.
LEMMA PhaseKept ==
    ASSUME PhaseInv, TypeOK', UNCHANGED <<pc, st, wst, excused>>,
           \A j \in {"stop", "start"} : jobs[j].phase = "absent" => jobs'[j].phase = "absent"
    PROVE  PhaseInv'
  BY Zenon DEF PhaseInv, InPhase, Phase

\* PhaseInv is kept by every step.
LEMMA PhaseStep == PhaseInv /\ [Next]_vars => PhaseInv'
<1> SUFFICES ASSUME PhaseInv, [Next]_vars PROVE PhaseInv'
  BY Zenon
<1> USE DEF object, memory, daos, history, bounds
<1>t. TypeOK /\ TypeOK'
  BY TypeStep, Zenon DEF PhaseInv
<1>n. {"stop", "start", "verify", "query", "rankop", "enginestart"} \subseteq Names
  BY Zenon DEF Names
<1>o. None \notin {"Stopping", "Updating", "Starting", "StartingSystem", "Verifying"}
  BY NoneIsNoPhase, Zenon DEF Phases
<1>1. CASE BeginPass
  <2>1. Phase' = Phase /\ UNCHANGED <<jobs, excused>> /\ (pc' = "query" => wst'.phase = None)
    BY <1>1, Zenon DEF BeginPass, Phase
  <2>2. pc' \in {"query", "upgrade"}
    BY <1>1, Zenon DEF BeginPass
  <2> QED BY <1>t, <2>1, <2>2, Zenon DEF PhaseInv, InPhase
<1>2. CASE Upgrade
  <2> SUFFICES ASSUME ~excused PROVE InPhase'
    BY <1>2, <1>t, Zenon DEF PhaseInv, Upgrade, Stopping, Updating, Starting, StartingSystem, Verifying
  <2>1. InPhase /\ pc = "upgrade" /\ Phase = wst.phase
    BY <1>2, Zenon DEF PhaseInv, Phase, Upgrade, Stopping, Updating, Starting, StartingSystem, Verifying, In
  <2>2. CASE Stopping
    <3>1. jobs'["start"] = jobs["start"] /\ (Done(jobs["stop"]) => jobs'["stop"] = NoJob)
      BY <2>2, <1>t, <1>n, RunEffect, Zenon DEF Stopping
    <3>2. jobs["start"].phase = "absent"
      BY <2>1, <2>2, <1>o, Zenon DEF InPhase, Stopping, In
    <3>3. IF ~Done(jobs["stop"]) THEN wst'.phase = "Stopping" /\ pc' = "update"
          ELSE pc' = "update" \/ (wst'.phase = None /\ pc' = "query")
      BY <2>2, <1>t, RestartPhase, Zenon DEF Stopping
    <3> QED BY <3>1, <3>2, <3>3 DEF InPhase, Phase, NoJob
  <2>3. CASE Updating \/ Starting
    <3>1. jobs' = jobs /\ (pc' = "update" \/ (wst'.phase = None /\ pc' = "query"))
      BY <2>3, <1>t, RestartPhase, Zenon DEF Updating, Starting
    <3>2. jobs["start"].phase = "absent" /\ jobs["stop"].phase = "absent"
      BY <2>1, <2>3, <1>o, Zenon DEF InPhase, Updating, Starting, In
    <3> QED BY <3>1, <3>2, Zenon DEF InPhase
  <2>4. CASE StartingSystem
    <3>1. jobs'["stop"] = jobs["stop"] /\ (Done(jobs["start"]) => jobs'["start"] = NoJob)
      BY <2>4, <1>t, <1>n, RunEffect, Zenon DEF StartingSystem
    <3>2. jobs["stop"].phase = "absent"
      BY <2>1, <2>4, <1>o, Zenon DEF InPhase, StartingSystem, In
    <3>3. IF ~Done(jobs["start"]) THEN wst'.phase = "StartingSystem" /\ pc' = "update"
          ELSE pc' = "update" \/ (wst'.phase = None /\ pc' = "query")
      BY <2>4, <1>t, RestartPhase, Zenon DEF StartingSystem
    <3> QED BY <3>1, <3>2, <3>3 DEF InPhase, Phase, NoJob
  <2>5. CASE Verifying
    <3>1. jobs'["stop"] = jobs["stop"] /\ jobs'["start"] = jobs["start"]
      BY <2>5, <1>t, <1>n, RunEffect, ZenonT(30) DEF Verifying
    <3>2. jobs["start"].phase = "absent" /\ jobs["stop"].phase = "absent"
      BY <2>1, <2>5, <1>o, Zenon DEF InPhase, Verifying, In
    <3>3. pc' = "update" \/ (wst'.phase = None /\ pc' = "query")
      BY <2>5, <1>t, RestartPhase, Zenon DEF Verifying
    <3> QED BY <3>1, <3>2, <3>3, Zenon DEF InPhase
  <2> QED BY <1>2, <2>2, <2>3, <2>4, <2>5, Zenon DEF Upgrade
<1>3. CASE TimeOut \/ PassEnds
  BY <1>3, <1>t, Zenon DEF TimeOut, PassEnds, PhaseInv
<1>4. CASE After
  BY <1>4, <1>t, AfterKeepsPhase, Zenon DEF PhaseInv, InPhase, Phase
<1>5. CASE UpdateStatus
  BY <1>5, <1>t, Zenon DEF UpdateStatus, Return, PhaseInv, InPhase, Phase
<1>6. CASE Approve \/ Withdraw \/ RequestRankOp
  BY <1>6, <1>t, PhaseKept, Zenon DEF Approve, Withdraw, RequestRankOp
<1>7. CASE JobsFinish
  <2>1. UNCHANGED <<pc, st, wst, excused>>
    BY <1>7, Zenon DEF JobsFinish, StopFinishes, StartFinishes, VerifyFinishes, QueryFinishes,
                RankOpFinishes, EngineStartFinishes
  <2> QED BY <1>7, <1>t, <1>n, <2>1, FinishEffect, PhaseKept, Zenon
<1>8. ASSUME NEW n \in Nodes, EngineDies(n) \/ EngineReturns(n) \/ PodReady(n) PROVE PhaseInv'
  BY <1>8, <1>t, PhaseKept, Zenon DEF EngineDies, EngineReturns, PodReady
<1>9. CASE UNCHANGED vars
  BY <1>9, <1>t, PhaseKept, Zenon DEF vars
<1> QED
  BY <1>1, <1>2, <1>3, <1>4, <1>5, <1>6, <1>7, <1>8, <1>9, Zenon DEF Next, Reconcile, After

\* PhaseInv holds initially.
LEMMA PhaseInit == Init => PhaseInv
<1> SUFFICES ASSUME Init PROVE PhaseInv
  BY Zenon
<1>1. jobs["stop"].phase = "absent" /\ jobs["start"].phase = "absent" /\ pc = "idle"
  BY Zenon DEF Init, Names, NoJob
<1> QED BY <1>1, InitType, Zenon DEF PhaseInv, InPhase

\* Only the steps that wait for them create the Jobs of rank operations and engine
\* starts.
LEMMA OnlyAfterCreates ==
    ASSUME TypeOK, Next, NEW name \in {"enginestart", "rankop"}, Created(name)
    PROVE  RankOp \/ EngineStart
<1> USE DEF object, memory, daos, history, bounds, Created
<1>n. {"stop", "start", "verify", "query", "rankop", "enginestart"} \subseteq Names
  BY Zenon DEF Names
<1>1. ~BeginPass /\ ~RankOpRefused /\ ~EngineCheck /\ ~UpdateStatus
  BY Zenon DEF BeginPass, RankOpRefused, EngineCheck, UpdateStatus
<1>2. ~Stopping /\ ~StartingSystem /\ ~Verifying /\ ~Query
  BY <1>n, RunEffect DEF Stopping, StartingSystem, Verifying, Query
<1>3. ~Updating /\ ~Starting /\ ~TimeOut /\ ~PassEnds
  BY Zenon DEF Updating, Starting, TimeOut, PassEnds
<1>4. ~Approve /\ ~Withdraw /\ ~RequestRankOp
  BY Zenon DEF Approve, Withdraw, RequestRankOp
<1>5. ~JobsFinish
  BY <1>n, FinishEffect, Zenon
<1>6. ASSUME NEW n \in Nodes PROVE ~(EngineDies(n) \/ EngineReturns(n) \/ PodReady(n))
  BY Zenon DEF EngineDies, EngineReturns, PodReady
<1> QED BY <1>1, <1>2, <1>3, <1>4, <1>5, <1>6, Zenon DEF Next, Reconcile, Upgrade

\* While the restart's dmg system stop or start is in flight, no engine start and no
\* rank operation is sent, unless the restart ran into its time limit or a pass was
\* cut short.
THEOREM RestartsAreUndisturbed == Spec => RestartUndisturbed
<1>1. PhaseInv /\ [Next]_vars =>
        [~excused /\ (Created("enginestart") \/ Created("rankop"))
           => jobs["stop"].phase # "running" /\ jobs["start"].phase # "running"]_vars
  <2> SUFFICES ASSUME PhaseInv, Next, ~excused, Created("enginestart") \/ Created("rankop")
               PROVE  jobs["stop"].phase # "running" /\ jobs["start"].phase # "running"
    BY Zenon DEF vars, Created
  <2>1. TypeOK /\ InPhase
    BY Zenon DEF PhaseInv
  <2>2. RankOp \/ EngineStart
    BY <2>1, OnlyAfterCreates, Zenon
  <2>3. pc \in {"rankop", "start"}
    BY <2>2, Zenon DEF RankOp, EngineStart
  <2> QED BY <2>1, <2>3, NoneIsNoPhase, Zenon DEF InPhase, Phase, Phases
<1> QED BY <1>1, PhaseInit, PhaseStep, PTL DEF Spec, RestartUndisturbed

-----------------------------------------------------------------------------
(***************************************************************************)
(* The restart swaps while the system is down.  From the moment dmg system *)
(* stop has answered ok until the swap, every engine is stopped or         *)
(* excluded, every pod is there, and nothing is in flight that could bring *)
(* an engine up.                                                           *)
(***************************************************************************)
Down ==
    /\ \A n \in Nodes : engine[n] \in {"stopped", "out"}
    /\ pods = Nodes
    /\ jobs["enginestart"].phase # "running" /\ jobs["rankop"].phase # "running"

Stopped == Says("stop", "ok") \/ Phase = "Updating"

SwapInv ==
    /\ PhaseInv
    /\ ~late /\ ~excused /\ Stopped => Down

\* SwapInv is kept by a step that forgets nothing, after which the system counts as
\* stopped only if it did before, and which keeps it down.
LEMMA SwapKept ==
    ASSUME SwapInv, PhaseInv', late => late', excused => excused',
           Stopped' => Stopped, ~late /\ ~excused /\ Stopped /\ Down => Down'
    PROVE  SwapInv'
  BY Zenon DEF SwapInv

\* A system that is down stays down when no engine, no pod and neither Job changes.
LEMMA DownKept ==
    ASSUME UNCHANGED daos, UNCHANGED <<jobs["enginestart"], jobs["rankop"]>>
    PROVE  Down => Down'
  BY Zenon DEF Down, daos

\* The system counts as stopped exactly as before when neither the stop Job nor the
\* phase changes.
LEMMA StoppedKept ==
    ASSUME UNCHANGED jobs["stop"], Phase' = Phase PROVE Stopped' => Stopped
  BY Zenon DEF Stopped, Says, Done

\* SwapInv is kept by every step.
LEMMA SwapStep == SwapInv /\ [Next]_vars => SwapInv'
<1> SUFFICES ASSUME SwapInv, [Next]_vars PROVE SwapInv'
  BY Zenon
<1> USE DEF object, memory, daos, history, bounds
<1>t. TypeOK /\ PhaseInv /\ PhaseInv' /\ (~excused => InPhase)
  BY PhaseStep, Zenon DEF SwapInv, PhaseInv
<1>n. {"stop", "start", "verify", "query", "rankop", "enginestart"} \subseteq Names
  BY Zenon DEF Names
<1>o. None \notin {"Stopping", "Updating", "Starting", "StartingSystem", "Verifying"}
  BY NoneIsNoPhase, Zenon DEF Phases
<1>1. CASE BeginPass
  <2>1. Phase' = Phase
    BY <1>1, Zenon DEF BeginPass, Phase
  <2> QED BY <1>1, <1>t, <2>1, DownKept, StoppedKept, SwapKept, Zenon DEF BeginPass
<1>2. CASE Stopping
  <2>1. /\ jobs'["enginestart"] = jobs["enginestart"] /\ jobs'["rankop"] = jobs["rankop"]
        /\ Done(jobs["stop"]) => jobs'["stop"] = NoJob
        /\ ~Done(jobs["stop"]) => ~Done(jobs'["stop"])
    BY <1>2, <1>t, <1>n, RunEffect DEF Stopping
  <2>2. ~Says("stop", "ok")'
    BY <2>1 DEF Says, NoJob, Done
  <2>3. /\ pc' # "idle"
        /\ wst'.phase = "Updating" => Says("stop", "ok")
    <3>1. CASE ~Done(jobs["stop"])
      <4>1. Restarting("Stopping")
        BY <1>2, <3>1, Zenon DEF Stopping
      <4> QED BY <1>t, <4>1, RestartPhase
    <3>2. CASE Done(jobs["stop"]) /\ Says("stop", "ok")
      BY <1>2, <1>t, <3>2, RestartPhase, Zenon DEF Stopping
    <3>3. CASE Done(jobs["stop"]) /\ ~Says("stop", "ok")
      <4>1. Over
        BY <1>2, <3>3, Zenon DEF Stopping
      <4> QED BY <1>o, <1>t, <4>1, RestartPhase, Zenon
    <3> QED BY <3>1, <3>2, <3>3, Zenon
  <2>4. Stopped' => Stopped
    BY <2>2, <2>3, Zenon DEF Stopped, Phase
  <2> QED BY <1>2, <1>t, <2>1, <2>4, DownKept, SwapKept, Zenon DEF Stopping
<1>3. CASE Updating \/ Starting \/ StartingSystem \/ Verifying
  <2> SUFFICES ASSUME ~excused PROVE ~Stopped'
    BY <1>3, <1>t, Zenon DEF SwapInv, Updating, Starting, StartingSystem, Verifying
  <2>1. jobs["stop"].phase = "absent"
    BY <1>3, <1>t, <1>o, Zenon DEF InPhase, Phase, Updating, Starting, StartingSystem, Verifying, In
  <2>2. jobs'["stop"] = jobs["stop"]
    <3>1. CASE Updating \/ Starting
      BY <3>1, Zenon DEF Updating, Starting
    <3>2. CASE StartingSystem \/ Verifying
      BY <3>2, <1>t, <1>n, RunEffect, Zenon DEF StartingSystem, Verifying
    <3> QED BY <1>3, <3>1, <3>2, Zenon
  <2>3. pc' # "idle" /\ wst'.phase # "Updating"
    <3>1. (\E p \in {"Starting", "StartingSystem", "Verifying"} : Restarting(p)) \/ Over
      BY <1>3, Zenon DEF Updating, Starting, StartingSystem, Verifying
    <3> QED BY <1>o, <1>t, <3>1, RestartPhase, Zenon
  <2> QED BY <2>1, <2>2, <2>3, Zenon DEF Stopped, Says, Done, Phase
<1>4. CASE TimeOut \/ PassEnds
  BY <1>4, <1>t, Zenon DEF TimeOut, PassEnds, SwapInv
<1>5. CASE After
  <2> SUFFICES ASSUME ~excused PROVE ~Stopped'
    BY <1>5, <1>t, AfterKeepsPhase, Zenon DEF SwapInv
  <2>1. pc \in {"query", "rankop", "engines", "start"} /\ pc' # "idle" /\ wst'.phase = wst.phase
        /\ jobs'["stop"] = jobs["stop"]
    BY <1>5, <1>t, AfterKeepsPhase, Zenon
  <2>2. wst.phase = None /\ jobs["stop"].phase = "absent"
    BY <2>1, <1>t, <1>o, Zenon DEF InPhase, Phase
  <2> QED BY <2>1, <2>2, <1>o, Zenon DEF Stopped, Says, Done, Phase
<1>6. CASE UpdateStatus
  <2>1. Phase' = Phase
    BY <1>6, Zenon DEF UpdateStatus, Return, Phase
  <2> QED BY <1>6, <1>t, <2>1, DownKept, StoppedKept, SwapKept, Zenon DEF UpdateStatus
<1>7. CASE Approve \/ Withdraw \/ RequestRankOp
  <2>1. Phase' = Phase
    BY <1>7, Zenon DEF Approve, Withdraw, RequestRankOp, Phase
  <2> QED BY <1>7, <1>t, <2>1, DownKept, StoppedKept, SwapKept DEF Approve, Withdraw, RequestRankOp
<1>8. CASE StopFinishes
  <2> SUFFICES ASSUME ~late', ~excused', Stopped' PROVE Down'
    BY <1>t, Zenon DEF SwapInv
  <2>1. PICK S \in {Nodes, {}}, ans \in {"ok", "error"} :
         /\ Ends("stop", ans)
         /\ engine' = [n \in Nodes |-> IF n \in S /\ engine[n] = "up" THEN "stopped" ELSE engine[n]]
         /\ late' = \/ late
                    \/ ans = "ok" /\ (pods # Nodes \/ \E j \in {"enginestart", "rankop"} : jobs[j].phase = "running")
                    \/ ans = "ok" /\ \E n \in Nodes : engine'[n] \in {"up", "died"}
    BY <1>8, Zenon DEF StopFinishes
  <2>2. UNCHANGED <<pc, st, wst, pods, excused>> /\ jobs["stop"].phase = "running"
    BY <1>8, Zenon DEF StopFinishes
  <2>3. jobs'["enginestart"] = jobs["enginestart"] /\ jobs'["rankop"] = jobs["rankop"]
        /\ jobs'["stop"].out.ans = ans
    BY <1>t, <1>n, <2>1, <2>2, BlankTypes, AnswersType DEF Ends
  <2>4. Phase' # "Updating"
    BY <1>t, <2>2, Zenon DEF InPhase, Phase
  <2>5. ans = "ok"
    BY <2>3, <2>4, Zenon DEF Stopped, Says
  <2>6. \A n \in Nodes : engine'[n] \in {"stopped", "out"}
    <3>1. engine' \in [Nodes -> Engines]
      BY <1>t, Zenon DEF PhaseInv, TypeOK
    <3> QED BY <2>1, <2>5, <3>1, Zenon DEF Engines
  <2> QED BY <2>1, <2>2, <2>3, <2>5, <2>6, Zenon DEF Down
<1>9. CASE JobsFinish /\ ~StopFinishes
  <2>1. PICK name \in Names : /\ jobs[name].phase = "running" /\ name # "stop"
                              /\ \A j \in Names \ {name} : jobs'[j] = jobs[j]
    BY <1>9, <1>t, FinishEffect, Zenon
  <2>2. UNCHANGED <<pc, st, wst, excused, late, pods>> /\ Phase' = Phase
    BY <1>9, Zenon DEF JobsFinish, StartFinishes, VerifyFinishes, QueryFinishes,
                RankOpFinishes, EngineStartFinishes, Phase
  <2>3. Stopped' => Stopped
    BY <1>n, <2>1, <2>2, StoppedKept, Zenon
  <2>4. ASSUME ~late, ~excused, Stopped, Down PROVE Down'
    <3>1. jobs["start"].phase # "running"
      BY <1>t, <2>4, Zenon DEF InPhase, Stopped, Says, Done
    <3>2. VerifyFinishes \/ QueryFinishes
      BY <1>9, <2>4, <3>1, Zenon DEF JobsFinish, StartFinishes, RankOpFinishes, EngineStartFinishes, Down
    <3>3. engine' = engine
      BY <3>2, Zenon DEF VerifyFinishes, QueryFinishes
    <3>4. jobs'["enginestart"] = jobs["enginestart"] /\ jobs'["rankop"] = jobs["rankop"]
      BY <1>n, <2>1, <2>4, Zenon DEF Down
    <3> QED BY <2>2, <2>4, <3>3, <3>4, DownKept, Zenon
  <2> QED BY <1>t, <2>2, <2>3, <2>4, SwapKept, Zenon
<1>10. ASSUME NEW n \in Nodes, EngineDies(n) \/ EngineReturns(n) \/ PodReady(n) PROVE SwapInv'
  <2>1. Phase' = Phase /\ UNCHANGED <<jobs, excused, late>>
    BY <1>10, Zenon DEF EngineDies, EngineReturns, PodReady, Phase
  <2>2. ~Down
    BY <1>10, Zenon DEF EngineDies, EngineReturns, PodReady, Down
  <2> QED BY <1>t, <2>1, <2>2, StoppedKept, SwapKept, Zenon
<1>11. CASE UNCHANGED vars
  <2>1. Phase' = Phase
    BY <1>11, Zenon DEF vars, Phase
  <2> QED BY <1>11, <1>t, <2>1, DownKept, StoppedKept, SwapKept, Zenon DEF vars
<1> QED
  BY <1>1, <1>2, <1>3, <1>4, <1>5, <1>6, <1>7, <1>8, <1>9, <1>10, <1>11, Zenon
     DEF Next, Reconcile, Upgrade, After

\* The restart swaps certificates and deletes the pods only while no engine runs,
\* whatever engine starts and rank operations came before it, unless one could come
\* up after the stop answered.
THEOREM SwapsOnlyWhileDown == Spec => SwapsWhileDown
<1>1. Init => SwapInv
  <2> SUFFICES ASSUME Init PROVE SwapInv
    BY Zenon
  <2>1. ~Says("stop", "ok")
    BY Zenon DEF Init, Names, NoJob, Says, Done
  <2>2. Phase = None
    BY Zenon DEF Init, Phase, NoStatus
  <2> QED BY <2>1, <2>2, PhaseInit, NoneIsNoPhase, Zenon DEF SwapInv, Stopped, Phases
<1>2. SwapInv /\ [Next]_vars =>
        [~late /\ ~excused /\ In("Updating") /\ ~(pods \subseteq pods')
           => \A n \in Nodes : engine[n] # "up"]_vars
  <2> SUFFICES ASSUME SwapInv, [Next]_vars, ~late, ~excused, In("Updating"), ~(pods \subseteq pods'),
                      NEW n \in Nodes
               PROVE  engine[n] # "up"
    BY Zenon
  <2>1. Phase = "Updating"
    BY NoneIsNoPhase, Zenon DEF In, Phase, Phases
  <2> QED BY <2>1, Zenon DEF SwapInv, Stopped, Down
<1> QED BY <1>1, <1>2, SwapStep, PTL DEF Spec, SwapsWhileDown
=============================================================================
