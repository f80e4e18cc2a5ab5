----------------------- MODULE EngineRestart_proofs -----------------------
(***************************************************************************)
(* Proofs about EngineRestart, for any number of ranks, nodes, tries,      *)
(* events and faults.                                                      *)
(***************************************************************************)
EXTENDS EngineRestart, TLAPS

USE EngineRestartAssumption

\* What Run leaves behind is a Job value again.
LEMMA AfterRunType ==
    ASSUME NEW C, NEW O, NEW j \in Job(C, O), NEW c \in C
    PROVE  AfterRun(j, c) \in Job(C, O)
  BY Zenon DEF Job, AfterRun, Running, Deleting, Done

\* A running Job that ends with an output is a Job value again, and keeps its
\* command.
LEMMA FinishedType ==
    ASSUME NEW C, NEW O, NEW j \in Job(C, O), j.phase = "running", NEW o \in O
    PROVE  /\ Finished(j, o) \in Job(C, O) /\ j.cmd \in C
           /\ Done(Finished(j, o)) /\ Finished(j, o).cmd = j.cmd
<1>1. j \in [phase : {"running"}, cmd : C, out : {None}]
  BY Zenon DEF Job
<1>2. Finished(j, o) \in [phase : {"finished"}, cmd : C, out : O]
  BY <1>1, Zenon DEF Finished
<1> QED BY <1>1, <1>2, Zenon DEF Job, Finished, Done

Copies == [view : [Ranks -> States], ready : SUBSET Nodes, cands : SUBSET Ranks,
           asked : SUBSET Ranks, sent : SUBSET Ranks]

\* The copy between passes, no track, and the Job that is not there.
LEMMA BlankTypes ==
    /\ NoSys \in Copies
    /\ NoTrack \in Tracks
    /\ \A C, O : NoJob \in Job(C, O)
<1>1. NoSys \in Copies
  BY Zenon DEF NoSys, Copies, States
<1> QED BY <1>1, Zenon DEF NoTrack, Tracks, NoJob, Job

\* A change of a track is a track.
LEMMA TrackTypes ==
    ASSUME NEW t \in Tracks, NEW b \in BOOLEAN, NEW n \in Nat
    PROVE  /\ [t EXCEPT !.wait = b] \in Tracks
           /\ [t EXCEPT !.gaveUp = b] \in Tracks
           /\ [t EXCEPT !.tries = n, !.wait = b] \in Tracks
<1>1. [t EXCEPT !.wait = b] \in Tracks
  BY Zenon DEF Tracks
<1>2. [t EXCEPT !.gaveUp = b] \in Tracks
  BY Zenon DEF Tracks
<1>3. [t EXCEPT !.tries = n, !.wait = b] \in Tracks
  BY Zenon DEF Tracks
<1> QED BY <1>1, <1>2, <1>3, Zenon

\* What a pass sees in a rank's track: the track that was there, or a new one with
\* no tries; a rank seen joined has none.
LEMMA TrackedIs ==
    ASSUME TypeOK, NEW r \in Ranks
    PROVE  /\ Tracked(r) \in Tracks
           /\ Tracked(r) = tracks[r] \/ Tracked(r).tries = 0
           /\ Tracked(r) = tracks[r] \/ ~tracks[r].on \/ sys.view[r] = "joined"
           /\ Tracked(r) = tracks[r] \/ Tracked(r).on \/ Tracked(r) = NoTrack
  BY Zenon DEF Tracked, TypeOK, Tracks, NoTrack

\* The tracks a pass writes: one try more for a rank that is due.
LEMMA Scheduled ==
    ASSUME TypeOK, Schedule
    PROVE  /\ tracks' \in [Ranks -> Tracks]
           /\ \A r \in Ranks :
                /\ tracks'[r].on = Tracked(r).on
                /\ tracks'[r].tries = IF r \in Due THEN Tracked(r).tries + 1 ELSE Tracked(r).tries
<1>1. ASSUME NEW r \in Ranks
      PROVE  /\ [Tracked(r) EXCEPT !.tries = @ + 1, !.wait = TRUE] \in Tracks
             /\ [Tracked(r) EXCEPT !.gaveUp = TRUE] \in Tracks
             /\ Tracked(r) \in Tracks
  <2>1. Tracked(r) \in Tracks /\ Tracked(r).tries + 1 \in Nat
    BY TrackedIs DEF Tracks
  <2> QED BY <2>1, TrackTypes, Zenon
<1>2. tracks' \in [Ranks -> Tracks]
  BY <1>1, Zenon DEF Schedule
<1>3. ASSUME NEW r \in Ranks
      PROVE  /\ tracks'[r].on = Tracked(r).on
             /\ tracks'[r].tries = IF r \in Due THEN Tracked(r).tries + 1 ELSE Tracked(r).tries
  BY <1>1, Zenon DEF Schedule, Tracks
<1> QED BY <1>2, <1>3, Zenon

\* Types are kept by every step.
LEMMA TypeStep == TypeOK /\ [Next]_vars => TypeOK'
<1> SUFFICES ASSUME TypeOK, [Next]_vars PROVE TypeOK'
  BY Zenon
<1> USE DEF world, object, memory, bounds
<1>b. NoSys \in Copies /\ NoTrack \in Tracks /\ NoJob \in Job(SUBSET Ranks, Outs)
  BY BlankTypes, Zenon
<1>1. CASE BeginPass
  <2>1. Candidates \subseteq Ranks
    BY Zenon DEF Candidates
  <2>2. sys' \in Copies
    BY <1>1, <2>1, Zenon DEF BeginPass, TypeOK, Copies
  <2> QED BY <1>1, <2>2, Zenon DEF BeginPass, TypeOK, Copies
<1>2. CASE Schedule
  <2>1. Due \subseteq Ranks
    BY Zenon DEF Due, TypeOK
  <2>2. running' \in SUBSET Ranks /\ pc' \in {"update", "run"}
    BY <1>2, <2>1, Zenon DEF Schedule, TypeOK
  <2>3. starts' \in [Ranks -> Nat]
    BY <1>2, Zenon DEF Schedule, TypeOK
  <2> QED BY <1>2, <2>2, <2>3, Scheduled, Zenon DEF Schedule, TypeOK
<1>3. CASE StartWait
  <2>1. job' \in Job(SUBSET Ranks, Outs)
    BY <1>3, AfterRunType, Zenon DEF StartWait, TypeOK
  <2>2. starts' \in [Ranks -> Nat]
    BY <1>3 DEF StartWait, TypeOK
  <2> QED BY <1>3, <2>1, <2>2, Zenon DEF StartWait, TypeOK
<1>4. CASE StartDone
  <2>1. job' \in Job(SUBSET Ranks, Outs)
    BY <1>4, AfterRunType, Zenon DEF StartDone, TypeOK
  <2>2. job.cmd \in SUBSET Ranks
    BY <1>4, Zenon DEF StartDone, TypeOK, Job, Done
  <2>3. sys' \in Copies
    BY <1>4, <2>2, Zenon DEF StartDone, TypeOK, Copies
  <2> QED BY <1>4, <2>1, <2>3, Zenon DEF StartDone, TypeOK, Copies
<1>5. CASE RestartStuckServers
  <2>1. state' \in [Ranks -> States]
    BY <1>5, Zenon DEF RestartStuckServers, TypeOK, States
  <2>2. \A r \in Ranks : [tracks[r] EXCEPT !.wait = TRUE] \in Tracks /\ tracks[r] \in Tracks
    BY TrackTypes, Zenon DEF TypeOK
  <2>3. tracks' \in [Ranks -> Tracks]
    BY <1>5, <2>2, Zenon DEF RestartStuckServers
  <2> QED BY <1>5, <2>1, <2>3, Zenon DEF RestartStuckServers, TypeOK
<1>6. CASE EndPass
  BY <1>6, <1>b, Zenon DEF EndPass, TypeOK, Copies
<1>7. CASE PassEnds
  <2>1. faults' \in 0..MaxFaults
    BY <1>7 DEF PassEnds, TypeOK
  <2> QED BY <1>7, <1>b, <2>1, Zenon DEF PassEnds, TypeOK, Copies
<1>8. CASE OperatorRestarts
  <2>1. restarts' \in 0..MaxFaults
    BY <1>8 DEF OperatorRestarts, TypeOK
  <2>2. tracks' \in [Ranks -> Tracks]
    BY <1>8, <1>b, Zenon DEF OperatorRestarts
  <2> QED BY <1>8, <1>b, <2>1, <2>2, Zenon DEF OperatorRestarts, TypeOK, Copies
<1>9. CASE SystemStops \/ RankOpRequested \/ QueryFails
  <2>1. events' \in 0..MaxEvents
    BY <1>9 DEF SystemStops, RankOpRequested, QueryFails, Event, TypeOK
  <2>2. state' \in [Ranks -> States]
    BY <1>9, Zenon DEF SystemStops, RankOpRequested, QueryFails, TypeOK, States
  <2> QED BY <1>9, <2>1, <2>2, Zenon DEF SystemStops, RankOpRequested, QueryFails, TypeOK
<1>10. CASE RankOpEnds \/ QueryAnswers
  BY <1>10, Zenon DEF RankOpEnds, QueryAnswers, TypeOK
<1>11. CASE JobFinishes
  <2>1. job' \in Job(SUBSET Ranks, Outs)
    BY <1>11, FinishedType DEF JobFinishes, TypeOK
  <2>2. state' \in [Ranks -> States]
    BY <1>11, Zenon DEF JobFinishes, TypeOK, States
  <2> QED BY <1>11, <2>1, <2>2, Zenon DEF JobFinishes, TypeOK
<1>12. CASE JobRemoved
  BY <1>12, <1>b, Zenon DEF JobRemoved, TypeOK
<1>13. CASE JobExpires
  <2>1. faults' \in 0..MaxFaults
    BY <1>13 DEF JobExpires, TypeOK
  <2> QED BY <1>13, <1>b, <2>1, Zenon DEF JobExpires, TypeOK
<1>14. ASSUME NEW r \in Ranks, TimePasses(r) PROVE TypeOK'
  <2>1. [tracks[r] EXCEPT !.wait = FALSE] \in Tracks
    BY TrackTypes, Zenon DEF TypeOK
  <2>2. tracks' \in [Ranks -> Tracks]
    BY <1>14, <2>1, Zenon DEF TimePasses, TypeOK
  <2> QED BY <1>14, <2>2, Zenon DEF TimePasses, TypeOK
<1>15. ASSUME NEW r \in Ranks, EngineDies(r) PROVE TypeOK'
  <2>1. events' \in 0..MaxEvents
    BY <1>15 DEF EngineDies, Event, TypeOK
  <2>2. state' \in [Ranks -> States]
    BY <1>15, Zenon DEF EngineDies, TypeOK, States
  <2> QED BY <1>15, <2>1, <2>2, Zenon DEF EngineDies, TypeOK
<1>16. ASSUME NEW r \in Ranks, EngineJoins(r) PROVE TypeOK'
  <2>1. state' \in [Ranks -> States]
    BY <1>16, Zenon DEF EngineJoins, TypeOK, States
  <2> QED BY <1>16, <2>1, Zenon DEF EngineJoins, TypeOK
<1>17. ASSUME NEW n \in Nodes, PodReady(n) PROVE TypeOK'
  BY <1>17, Zenon DEF PodReady, TypeOK
<1>18. CASE UNCHANGED vars
  BY <1>18, Zenon DEF vars, TypeOK
<1> QED BY <1>1, <1>2, <1>3, <1>4, <1>5, <1>6, <1>7, <1>8, <1>9, <1>10, <1>11, <1>12, <1>13,
           <1>14, <1>15, <1>16, <1>17, <1>18, Zenon DEF Next, Operator

\* The initial state is well typed.
LEMMA InitType == Init => TypeOK
<1> SUFFICES ASSUME Init PROVE TypeOK
  BY Zenon
<1>1. state \in [Ranks -> States] /\ view \in [Ranks -> States]
  BY Zenon DEF Init, States
<1>2. tracks \in [Ranks -> Tracks] /\ starts \in [Ranks -> Nat]
  BY BlankTypes, Zenon DEF Init
<1>3. events \in 0..MaxEvents /\ faults \in 0..MaxFaults /\ restarts \in 0..MaxFaults
  BY DEF Init
<1> QED BY <1>1, <1>2, <1>3, BlankTypes, Zenon DEF Init, TypeOK, Copies

\* TypeOK of EngineRestart, for any number of ranks and faults.
THEOREM Typing == Spec => []TypeOK
  BY InitType, TypeStep, PTL DEF Spec

-----------------------------------------------------------------------------
(***************************************************************************)
(* The starts sent to a rank.  A track that is not on has no tries, and    *)
(* tries stop at MaxTries.  Owed is the start that is decided and not yet  *)
(* sent: the rank set in flight names the rank and no Job carries it out.  *)
(* A try pays for one start; a restart of the operator forgets at most     *)
(* MaxTries of them, and a lost Job lets one be sent again.                *)
(***************************************************************************)
Owed(r) == IF r \in running /\ job.phase \in {"absent", "deleting"} THEN 1 ELSE 0

\* The starts that are paid for, besides the rank's tries.
Allowance == MaxTries * restarts + faults + 1

Paid(r) == starts[r] + Owed(r) <= tracks[r].tries + Allowance

TriesOK(r) == tracks[r].tries <= MaxTries /\ (~tracks[r].on => tracks[r].tries = 0)

\* A candidate was seen down in the same pass.
CandsDown == \A r \in sys.cands : sys.view[r] = "down"

StartInv == TypeOK /\ CandsDown /\ \A r \in Ranks : TriesOK(r) /\ Paid(r)

\* Every step keeps the candidates of the pass down in the pass.
LEMMA CandsStep == TypeOK /\ CandsDown /\ [Next]_vars => CandsDown'
<1> SUFFICES ASSUME TypeOK, CandsDown, [Next]_vars PROVE CandsDown'
  BY Zenon
<1>1. ASSUME sys' = sys PROVE CandsDown'
  BY <1>1, Zenon DEF CandsDown
<1>2. CASE BeginPass
  BY <1>2, Zenon DEF BeginPass, Candidates, CandsDown
<1>3. CASE StartDone
  <2>1. sys'.cands = sys.cands /\ sys'.view = sys.view
    BY <1>3, Zenon DEF StartDone, TypeOK
  <2> QED BY <2>1, Zenon DEF CandsDown
<1>4. CASE EndPass \/ PassEnds \/ OperatorRestarts
  BY <1>4 DEF EndPass, PassEnds, OperatorRestarts, NoSys, CandsDown
<1>5. CASE Schedule \/ StartWait \/ RestartStuckServers
  BY <1>1, <1>5, Zenon DEF Schedule, StartWait, RestartStuckServers
<1>6. CASE SystemStops \/ RankOpRequested \/ RankOpEnds \/ QueryFails \/ QueryAnswers
  BY <1>1, <1>6, Zenon DEF SystemStops, RankOpRequested, RankOpEnds, QueryFails, QueryAnswers
<1>7. CASE JobFinishes \/ JobRemoved \/ JobExpires
  BY <1>1, <1>7, Zenon DEF JobFinishes, JobRemoved, JobExpires
<1>8. ASSUME NEW r \in Ranks, TimePasses(r) \/ EngineDies(r) \/ EngineJoins(r) PROVE CandsDown'
  BY <1>1, <1>8, Zenon DEF TimePasses, EngineDies, EngineJoins
<1>9. ASSUME NEW n \in Nodes, PodReady(n) PROVE CandsDown'
  BY <1>1, <1>9, Zenon DEF PodReady
<1>10. CASE UNCHANGED vars
  BY <1>1, <1>10, Zenon DEF vars
<1> QED BY <1>2, <1>3, <1>4, <1>5, <1>6, <1>7, <1>8, <1>9, <1>10, Zenon DEF Next, Operator

\* What the types say about the numbers in Paid.
LEMMA PaidTypes ==
    ASSUME TypeOK
    PROVE  /\ Allowance \in Nat /\ faults \in Nat /\ restarts \in Nat /\ Allowance >= 1
           /\ \A r \in Ranks : starts[r] \in Nat /\ tracks[r].tries \in Nat /\ Owed(r) \in {0, 1}
<1>1. faults \in Nat /\ restarts \in Nat
  BY DEF TypeOK
<1>2. MaxTries * restarts \in Nat
  BY <1>1
<1>3. Allowance \in Nat /\ Allowance >= 1
  BY <1>1, <1>2 DEF Allowance
<1>4. \A r \in Ranks : starts[r] \in Nat /\ tracks[r].tries \in Nat /\ Owed(r) \in {0, 1}
  BY Zenon DEF TypeOK, Tracks, Owed
<1> QED BY <1>1, <1>3, <1>4, Zenon

\* A step that changes no count and owes no start more.
LEMMA StartKept ==
    ASSUME StartInv, UNCHANGED <<starts, faults, restarts>>, TypeOK', CandsDown',
           \A r \in Ranks : /\ tracks'[r].tries = tracks[r].tries /\ tracks'[r].on = tracks[r].on
                            /\ Owed(r)' = Owed(r) \/ Owed(r)' = 0
    PROVE  StartInv'
<1>1. Allowance' = Allowance
  BY Zenon DEF Allowance
<1>2. ASSUME NEW r \in Ranks PROVE TriesOK(r)' /\ Paid(r)'
  <2>1. TriesOK(r) /\ Paid(r)
    BY Zenon DEF StartInv
  <2>2. TriesOK(r)'
    BY <2>1, Zenon DEF TriesOK
  <2>3. /\ Allowance \in Nat /\ starts[r] \in Nat /\ tracks[r].tries \in Nat /\ Owed(r) \in {0, 1}
        /\ starts'[r] = starts[r] /\ tracks'[r].tries = tracks[r].tries
    BY PaidTypes, Zenon DEF StartInv
  <2>4. CASE Owed(r)' = Owed(r)
    BY <1>1, <2>1, <2>2, <2>3, <2>4, Zenon DEF Paid
  <2>5. CASE Owed(r)' = 0
    BY <1>1, <2>1, <2>2, <2>3, <2>5 DEF Paid
  <2> QED BY <2>4, <2>5, Zenon
<1> QED BY <1>2, Zenon DEF StartInv

\* A lost Job or a pass cut short: one start more is allowed and at most one owed.
LEMMA StartAfterFault ==
    ASSUME StartInv, UNCHANGED <<starts, tracks, restarts>>, faults' = faults + 1, TypeOK', CandsDown'
    PROVE  StartInv'
<1>1. Allowance' = Allowance + 1 /\ Allowance \in Nat
  <2>1. MaxTries * restarts \in Nat /\ faults \in Nat /\ restarts' = restarts
    BY DEF StartInv, TypeOK
  <2>2. MaxTries * restarts' = MaxTries * restarts
    BY <2>1, Zenon
  <2> QED BY <2>1, <2>2 DEF Allowance
<1>2. ASSUME NEW r \in Ranks PROVE TriesOK(r)' /\ Paid(r)'
  <2>1. TriesOK(r) /\ Paid(r)
    BY Zenon DEF StartInv
  <2>2. TriesOK(r)'
    BY <2>1, Zenon DEF TriesOK
  <2>3. /\ starts[r] \in Nat /\ tracks[r].tries \in Nat /\ Owed(r) \in {0, 1}
        /\ Owed(r)' \in {0, 1}
        /\ starts'[r] = starts[r] /\ tracks'[r].tries = tracks[r].tries
    BY PaidTypes, Zenon DEF StartInv, Owed
  <2>4. CASE Owed(r)' = 0
    BY <1>1, <2>1, <2>2, <2>3, <2>4 DEF Paid
  <2>5. CASE Owed(r)' = 1
    BY <1>1, <2>1, <2>2, <2>3, <2>5 DEF Paid
  <2> QED BY <2>3, <2>4, <2>5, Zenon
<1> QED BY <1>2, Zenon DEF StartInv

\* The decision: a rank that is due gets a try and owes a start; one seen joined
\* begins to count anew, with at most the start it already owes.
LEMMA StartSchedule ==
    ASSUME StartInv, Schedule, TypeOK', CandsDown'
    PROVE  StartInv'
<1>1. Allowance' = Allowance /\ Allowance \in Nat /\ Allowance >= 1
  BY PaidTypes, Zenon DEF Schedule, Allowance, bounds, StartInv
<1>d. Due # {} => running = {}
  BY Zenon DEF Due
<1>2. ASSUME NEW r \in Ranks PROVE TriesOK(r)' /\ Paid(r)'
  <2>1. TriesOK(r) /\ Paid(r) /\ TypeOK
    BY Zenon DEF StartInv
  <2>2. /\ starts[r] \in Nat /\ tracks[r].tries \in Nat /\ Owed(r) \in {0, 1}
        /\ Tracked(r).tries \in Nat /\ Owed(r)' \in {0, 1}
    BY <2>1, PaidTypes, TrackedIs, Zenon DEF Tracks, Owed
  <2>3. /\ tracks'[r].on = Tracked(r).on
        /\ tracks'[r].tries = IF r \in Due THEN Tracked(r).tries + 1 ELSE Tracked(r).tries
    BY <2>1, Scheduled, Zenon
  <2>4. /\ r \in Due => Tracked(r).tries < MaxTries /\ Tracked(r).on
        /\ Tracked(r).tries <= MaxTries /\ (~Tracked(r).on => Tracked(r).tries = 0)
    <3>1. Tracked(r).tries <= MaxTries /\ (~Tracked(r).on => Tracked(r).tries = 0)
      BY <2>1 DEF Tracked, NoTrack, TriesOK
    <3>2. r \in Due => r \in sys.cands /\ Tracked(r).tries < MaxTries /\ ~Tracked(r).wait
      BY Zenon DEF Due
    <3>3. r \in Due => sys.view[r] = "down"
      BY <3>2, Zenon DEF StartInv, CandsDown
    <3>4. r \in Due => Tracked(r).on
      BY <2>1, <3>2, <3>3, Zenon DEF Tracked, NoTrack
    <3> QED BY <3>1, <3>2, <3>4, Zenon
  <2>5. TriesOK(r)'
    BY <2>2, <2>3, <2>4 DEF TriesOK
  <2>6. CASE sys.view[r] = "joined"
    <3>1. starts'[r] = 0
      BY <2>6, Zenon DEF Schedule
    <3>4. tracks'[r].tries \in Nat
      BY Zenon DEF TypeOK, Tracks
    <3>2. CASE Owed(r)' = 0
      BY <1>1, <2>5, <3>1, <3>2, <3>4 DEF Paid
    <3>3. CASE Owed(r)' = 1
      BY <1>1, <2>5, <3>1, <3>3, <3>4 DEF Paid
    <3> QED BY <2>2, <2>5, <3>2, <3>3, Zenon
  <2>7. CASE sys.view[r] # "joined"
    <3>1. starts'[r] = starts[r]
      BY <2>7, Zenon DEF Schedule
    <3>2. Tracked(r).tries = tracks[r].tries
      BY <2>1, <2>7, Zenon DEF Tracked, NoTrack, TriesOK
    <3>3. CASE r \in Due
      <4>1. tracks'[r].tries = tracks[r].tries + 1 /\ Owed(r) = 0
        BY <1>d, <2>3, <3>2, <3>3, Zenon DEF Owed
      <4>2. CASE Owed(r)' = 0
        BY <1>1, <2>1, <2>2, <2>5, <3>1, <4>1, <4>2 DEF Paid
      <4>3. CASE Owed(r)' = 1
        BY <1>1, <2>1, <2>2, <2>5, <3>1, <4>1, <4>3 DEF Paid
      <4> QED BY <2>2, <2>5, <4>2, <4>3, Zenon
    <3>4. CASE r \notin Due
      <4>1. tracks'[r].tries = tracks[r].tries
        BY <2>3, <3>2, <3>4, Zenon
      <4>2. Owed(r)' = Owed(r) \/ Owed(r)' = 0
        BY <3>4, Zenon DEF Schedule, Owed
      <4>3. CASE Owed(r)' = Owed(r)
        BY <1>1, <2>1, <2>2, <2>5, <3>1, <4>1, <4>3, Zenon DEF Paid
      <4>4. CASE Owed(r)' = 0
        BY <1>1, <2>1, <2>2, <2>5, <3>1, <4>1, <4>4 DEF Paid
      <4> QED BY <2>5, <4>2, <4>3, <4>4, Zenon
    <3> QED BY <3>3, <3>4, Zenon
  <2> QED BY <2>6, <2>7, Zenon
<1> QED BY <1>2, Zenon DEF StartInv

\* Sending a start pays what was owed.
LEMMA StartSent ==
    ASSUME StartInv, StartWait, TypeOK', CandsDown'
    PROVE  StartInv'
<1>1. Allowance' = Allowance /\ Allowance \in Nat /\ tracks' = tracks
  BY PaidTypes, Zenon DEF StartWait, Allowance, bounds, memory, StartInv
<1>2. ASSUME NEW r \in Ranks PROVE TriesOK(r)' /\ Paid(r)'
  <2>1. TriesOK(r) /\ Paid(r) /\ TriesOK(r)'
    BY <1>1, Zenon DEF StartInv, TriesOK
  <2>2. starts[r] \in Nat /\ tracks[r].tries \in Nat /\ Owed(r) \in {0, 1}
    BY PaidTypes, Zenon DEF StartInv
  <2>3. CASE job.phase = "absent" /\ r \in running
    <3>1. starts'[r] = starts[r] + 1 /\ Owed(r) = 1 /\ Owed(r)' = 0
      BY <2>3, Zenon DEF StartWait, Owed, AfterRun, Running
    <3> QED BY <1>1, <2>1, <2>2, <3>1 DEF Paid
  <2>4. CASE ~(job.phase = "absent" /\ r \in running)
    <3>1. starts'[r] = starts[r] /\ Owed(r)' = Owed(r)
      BY <2>4, Zenon DEF StartWait, Owed, AfterRun, Running, memory
    <3> QED BY <1>1, <2>1, <2>2, <3>1, Zenon DEF Paid
  <2> QED BY <2>3, <2>4, Zenon
<1> QED BY <1>2, Zenon DEF StartInv

\* A restart of the operator forgets the tries, at most MaxTries of each rank.
LEMMA StartForgotten ==
    ASSUME StartInv, OperatorRestarts, TypeOK', CandsDown'
    PROVE  StartInv'
<1>1. Allowance' = Allowance + MaxTries /\ Allowance \in Nat
  <2>1. /\ restarts \in Nat /\ faults \in Nat /\ faults' = faults /\ restarts' = restarts + 1
        /\ MaxTries \in Nat /\ MaxTries * restarts \in Nat
    BY DEF StartInv, TypeOK, OperatorRestarts
  <2>2. MaxTries * (restarts + 1) = MaxTries * restarts + MaxTries
    BY <2>1
  <2> QED BY <2>1, <2>2 DEF Allowance
<1>2. ASSUME NEW r \in Ranks PROVE TriesOK(r)' /\ Paid(r)'
  <2>1. tracks'[r].tries = 0 /\ starts'[r] = starts[r] /\ Owed(r)' = 0
    BY Zenon DEF OperatorRestarts, NoTrack, Owed
  <2>2. starts[r] \in Nat /\ tracks[r].tries \in Nat /\ Owed(r) \in {0, 1}
    BY PaidTypes, Zenon DEF StartInv
  <2>3. tracks[r].tries <= MaxTries /\ Paid(r)
    BY Zenon DEF StartInv, TriesOK
  <2>4. TriesOK(r)'
    BY <2>1 DEF TriesOK
  <2> QED BY <1>1, <2>1, <2>2, <2>3, <2>4 DEF Paid
<1> QED BY <1>2, Zenon DEF StartInv

\* Every step keeps the starts paid for.
LEMMA StartStep == StartInv /\ [Next]_vars => StartInv'
<1> SUFFICES ASSUME StartInv, [Next]_vars PROVE StartInv'
  BY Zenon
<1>t. TypeOK /\ TypeOK' /\ CandsDown'
  BY TypeStep, CandsStep, Zenon DEF StartInv
<1> USE DEF memory, bounds
<1>1. CASE Schedule
  BY <1>1, <1>t, StartSchedule, Zenon
<1>2. CASE StartWait
  BY <1>2, <1>t, StartSent, Zenon
<1>3. CASE OperatorRestarts
  BY <1>3, <1>t, StartForgotten, Zenon
<1>4. CASE PassEnds \/ JobExpires
  BY <1>4, <1>t, StartAfterFault, Zenon DEF PassEnds, JobExpires
<1>5. CASE StartDone
  <2>1. \A r \in Ranks : Owed(r)' = 0
    BY <1>5, Zenon DEF StartDone, Owed
  <2> QED BY <1>5, <1>t, <2>1, StartKept, Zenon DEF StartDone
<1>6. CASE JobFinishes
  <2>1. job'.phase = "finished"
    BY <1>6, <1>t, FinishedType DEF JobFinishes, TypeOK, Done
  <2>2. \A r \in Ranks : Owed(r)' = 0
    BY <2>1, Zenon DEF Owed
  <2> QED BY <1>6, <1>t, <2>2, StartKept, Zenon DEF JobFinishes
<1>7. CASE JobRemoved
  <2>1. \A r \in Ranks : Owed(r)' = Owed(r)
    BY <1>7, Zenon DEF JobRemoved, Owed, NoJob
  <2> QED BY <1>7, <1>t, <2>1, StartKept, Zenon DEF JobRemoved
<1>8. ASSUME UNCHANGED <<running, job, starts, faults, restarts>>,
             \A r \in Ranks : tracks'[r].tries = tracks[r].tries /\ tracks'[r].on = tracks[r].on
      PROVE  StartInv'
  <2>1. \A r \in Ranks : Owed(r)' = Owed(r)
    BY <1>8, Zenon DEF Owed
  <2> QED BY <1>8, <1>t, <2>1, StartKept, Zenon
<1>9. CASE RestartStuckServers
  <2>1. \A r \in Ranks : tracks'[r].tries = tracks[r].tries /\ tracks'[r].on = tracks[r].on
    BY <1>9, <1>t DEF RestartStuckServers, TypeOK, Tracks
  <2> QED BY <1>8, <1>9, <2>1, Zenon DEF RestartStuckServers
<1>10. ASSUME NEW q \in Ranks, TimePasses(q) PROVE StartInv'
  <2>1. \A r \in Ranks : tracks'[r].tries = tracks[r].tries /\ tracks'[r].on = tracks[r].on
    BY <1>10, <1>t DEF TimePasses, TypeOK, Tracks
  <2> QED BY <1>8, <1>10, <2>1, Zenon DEF TimePasses
<1>11. CASE BeginPass \/ EndPass
  BY <1>8, <1>11, Zenon DEF BeginPass, EndPass
<1>12. CASE SystemStops \/ RankOpRequested \/ RankOpEnds \/ QueryFails \/ QueryAnswers
  BY <1>8, <1>12, Zenon DEF SystemStops, RankOpRequested, RankOpEnds, QueryFails, QueryAnswers
<1>13. ASSUME NEW r \in Ranks, EngineDies(r) \/ EngineJoins(r) PROVE StartInv'
  BY <1>8, <1>13, Zenon DEF EngineDies, EngineJoins
<1>14. ASSUME NEW n \in Nodes, PodReady(n) PROVE StartInv'
  BY <1>8, <1>14, Zenon DEF PodReady
<1>15. CASE UNCHANGED vars
  BY <1>8, <1>15, Zenon DEF vars
<1> QED BY <1>1, <1>2, <1>3, <1>4, <1>5, <1>6, <1>7, <1>9, <1>10, <1>11, <1>12, <1>13, <1>14,
           <1>15, Zenon DEF Next, Operator

\* engineRestartMax (daossystem_enginerestart.go:64-65): for any number of ranks, tries,
\* restarts of the operator and faults, a rank that stays down is sent no more starts
\* than StartsBounded allows.
THEOREM StartsAreBounded == Spec => []StartsBounded
<1>1. Init => StartInv
  <2> SUFFICES ASSUME Init PROVE StartInv
    BY Zenon
  <2>1. TypeOK
    BY InitType, Zenon
  <2>2. ASSUME NEW r \in Ranks PROVE TriesOK(r) /\ Paid(r)
    <3>1. starts[r] = 0 /\ Owed(r) = 0 /\ tracks[r].tries = 0
      BY Zenon DEF Init, Owed, NoTrack
    <3>2. Allowance \in Nat
      BY <2>1, PaidTypes, Zenon
    <3> QED BY <3>1, <3>2 DEF TriesOK, Paid
  <2>3. CandsDown
    BY Zenon DEF Init, NoSys, CandsDown
  <2> QED BY <2>1, <2>2, <2>3, Zenon DEF StartInv
<1>2. StartInv => StartsBounded
  <2> SUFFICES ASSUME StartInv, NEW r \in Ranks
               PROVE  starts[r] <= MaxTries * (restarts + 1) + faults + 1
    BY Zenon DEF StartsBounded
  <2>1. /\ starts[r] \in Nat /\ tracks[r].tries \in Nat /\ Owed(r) \in {0, 1}
        /\ restarts \in Nat /\ faults \in Nat
    BY PaidTypes, Zenon DEF StartInv
  <2>2. tracks[r].tries <= MaxTries /\ Paid(r)
    BY Zenon DEF StartInv, TriesOK
  <2>3. MaxTries * (restarts + 1) = MaxTries * restarts + MaxTries /\ MaxTries * restarts \in Nat
    BY <2>1
  <2> QED BY <2>1, <2>2, <2>3 DEF Paid, Allowance
<1> QED BY <1>1, <1>2, StartStep, PTL DEF Spec

-----------------------------------------------------------------------------
(***************************************************************************)
(* The pods that are deleted.  As long as the operator was not restarted,  *)
(* the Job in flight carries exactly the ranks that memory says, so the    *)
(* ranks whose pods are deleted are the ranks the start named.  After a    *)
(* restart the Job may be an old one, and this is all that is lost.        *)
(***************************************************************************)
Busy == job.phase \in {"running", "finished"}

FlightInv ==
    /\ TypeOK
    /\ pc = "run" => running # {}
    /\ restarts = 0 =>
         /\ Busy => job.cmd = running /\ running # {}
         /\ pc = "pods" => sys.asked = sys.sent

\* A step that leaves the Job, the rank set in flight and the pass alone.
LEMMA FlightKept ==
    ASSUME FlightInv, UNCHANGED <<running, job, pc, sys, restarts>>, TypeOK'
    PROVE  FlightInv'
  BY Zenon DEF FlightInv, Busy

\* Every step keeps the Job and the rank set in flight together.
LEMMA FlightStep == FlightInv /\ [Next]_vars => FlightInv'
<1> SUFFICES ASSUME FlightInv, [Next]_vars PROVE FlightInv'
  BY Zenon
<1>t. TypeOK /\ TypeOK'
  BY TypeStep, Zenon DEF FlightInv
<1> USE DEF memory, bounds
<1>1. CASE BeginPass \/ EndPass \/ PassEnds
  BY <1>1, <1>t, Zenon DEF BeginPass, EndPass, PassEnds, FlightInv, Busy
<1>2. CASE Schedule
  <2>1. running # {} => running' = running
    BY <1>2, Zenon DEF Schedule, Due
  <2>2. pc' = "run" => running' # {}
    BY <1>2, Zenon DEF Schedule
  <2>3. pc' # "pods" /\ UNCHANGED <<job, restarts>>
    BY <1>2, Zenon DEF Schedule
  <2> QED BY <1>t, <2>1, <2>2, <2>3, Zenon DEF FlightInv, Busy
<1>3. CASE StartWait
  <2>1. pc' = "update" /\ running # {} /\ UNCHANGED <<running, restarts>>
    BY <1>3, Zenon DEF StartWait, FlightInv
  <2>2. job' = job \/ job'.cmd = running
    BY <1>3, Zenon DEF StartWait, AfterRun, Running
  <2> QED BY <1>t, <2>1, <2>2, Zenon DEF FlightInv, Busy
<1>4. CASE StartDone
  <2>1. pc' # "run" /\ restarts' = restarts /\ job' = Deleting
    BY <1>4, Zenon DEF StartDone, AfterRun, Done
  <2>2. sys'.asked = running /\ sys'.sent = job.cmd
    BY <1>4, <1>t, Zenon DEF StartDone, TypeOK
  <2>3. restarts = 0 => job.cmd = running
    BY <1>4, Zenon DEF StartDone, FlightInv, Busy, Done
  <2> QED BY <1>t, <2>1, <2>2, <2>3, Zenon DEF FlightInv, Busy, Deleting
<1>5. CASE RestartStuckServers
  BY <1>5, <1>t, Zenon DEF RestartStuckServers, FlightInv, Busy
<1>6. CASE OperatorRestarts
  <2>1. restarts \in Nat /\ restarts' = restarts + 1 /\ pc' = "idle"
    BY <1>6, <1>t DEF OperatorRestarts, TypeOK
  <2> QED BY <1>t, <2>1 DEF FlightInv
<1>7. CASE JobFinishes
  <2>1. job'.cmd = job.cmd /\ Busy
    BY <1>7, <1>t, FinishedType DEF JobFinishes, TypeOK, Busy
  <2> QED BY <1>7, <1>t, <2>1, Zenon DEF JobFinishes, FlightInv
<1>8. CASE JobRemoved \/ JobExpires
  BY <1>8, <1>t DEF JobRemoved, JobExpires, NoJob, FlightInv, Busy
<1>9. CASE SystemStops \/ RankOpRequested \/ RankOpEnds \/ QueryFails \/ QueryAnswers
  BY <1>9, <1>t, FlightKept, Zenon DEF SystemStops, RankOpRequested, RankOpEnds, QueryFails, QueryAnswers
<1>10. ASSUME NEW r \in Ranks, TimePasses(r) \/ EngineDies(r) \/ EngineJoins(r) PROVE FlightInv'
  BY <1>10, <1>t, FlightKept, Zenon DEF TimePasses, EngineDies, EngineJoins
<1>11. ASSUME NEW n \in Nodes, PodReady(n) PROVE FlightInv'
  BY <1>11, <1>t, FlightKept, Zenon DEF PodReady
<1>12. CASE UNCHANGED vars
  BY <1>12, <1>t, FlightKept, Zenon DEF vars
<1> QED BY <1>1, <1>2, <1>3, <1>4, <1>5, <1>6, <1>7, <1>8, <1>9, <1>10, <1>11, <1>12, Zenon
        DEF Next, Operator

\* restartStuckServers (daossystem_enginerestart.go:227-228): for any number of ranks and
\* nodes, and any placement of ranks, the pod of a node is deleted only when a start
\* that named a rank of that node did not succeed, and a rank there that the status
\* shows joined was named by that start, unless the operator was restarted.
THEOREM PodsDeletedAfterTheirStart == Spec => PodDeletedAfterItsStart
<1>1. Init => FlightInv
  BY InitType DEF Init, FlightInv, Busy, NoJob
<1>2. FlightInv /\ [Next]_vars =>
        [ \A n \in Nodes : restarts = 0 /\ PodDeleted(n) =>
            /\ \E r \in sys.sent : NodeOf[r] = n
            /\ \A r \in Ranks : NodeOf[r] = n /\ sys.view[r] = "joined" => r \in sys.sent ]_vars
  <2> SUFFICES ASSUME FlightInv, [Next]_vars, NEW n \in Nodes, restarts = 0, PodDeleted(n)
               PROVE  /\ \E r \in sys.sent : NodeOf[r] = n
                      /\ \A r \in Ranks : NodeOf[r] = n /\ sys.view[r] = "joined" => r \in sys.sent
    BY Zenon
  <2>1. sys.asked = sys.sent
    BY Zenon DEF FlightInv, PodDeleted
  <2>2. RestartStuckServers
    <3>1. ~(ready' = ready) /\ ~(\E m \in Nodes : PodReady(m))
      BY Zenon DEF PodDeleted, PodReady
    <3>2. RestartStuckServers \/ ready' = ready \/ \E m \in Nodes : PodReady(m)
      BY Zenon DEF Next, Operator, BeginPass, Schedule, StartWait, StartDone, EndPass, PassEnds,
             OperatorRestarts, SystemStops, RankOpRequested, RankOpEnds, QueryFails, QueryAnswers,
             JobFinishes, JobRemoved, JobExpires, TimePasses, EngineDies, EngineJoins, vars, world
    <3> QED BY <3>1, <3>2, Zenon
  <2>3. n \in StuckNodes
    BY <2>2, Zenon DEF RestartStuckServers, PodDeleted
  <2> QED BY <2>1, <2>3, Zenon DEF StuckNodes
<1> QED BY <1>1, <1>2, FlightStep, PTL DEF Spec, PodDeletedAfterItsStart
=============================================================================
