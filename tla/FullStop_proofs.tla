-------------------------- MODULE FullStop_proofs --------------------------
(***************************************************************************)
(* Proofs about FullStop, for any number of nodes, images, approvals,      *)
(* edits and faults and any time limit.                                    *)
(***************************************************************************)
EXTENDS FullStop, TLAPS

USE FullStopAssumption, NoneIsNoUpgrade

\* What Run leaves behind is a Job value again.
LEMMA AfterRunType ==
    ASSUME NEW C, NEW O, NEW j \in Job(C, O), NEW c \in C
    PROVE  AfterRun(j, c) \in Job(C, O)
  BY Zenon DEF Job, AfterRun, Running, Deleting, Done

\* A running Job that ends with an output is a Job value again.
LEMMA FinishedType ==
    ASSUME NEW C, NEW O, NEW j \in Job(C, O), j.phase = "running", NEW o \in O
    PROVE  /\ Finished(j, o) \in Job(C, O)
           /\ Done(Finished(j, o)) /\ Finished(j, o).out = o
<1>1. j \in [phase : {"running"}, cmd : C, out : {None}]
  BY Zenon DEF Job
<1>2. Finished(j, o) \in [phase : {"finished"}, cmd : C, out : O]
  BY <1>1, Zenon DEF Finished
<1> QED BY <1>1, <1>2, Zenon DEF Job, Finished, Done

\* The copy of the DaosSystem between passes, and the Job that is not there.
LEMMA BlankTypes ==
    /\ NoSys \in [image : Images, approved : BOOLEAN, certs : BOOLEAN]
    /\ \A C, O : NoJob \in Job(C, O)
  BY Zenon DEF NoSys, NoJob, Job

(***************************************************************************)
(* TypeOK is not inductive: a pass between RotateCerts and the deletion of *)
(* the pods must hold a restart.  A pass works on the status that is       *)
(* stored, and that status stays Updating while the certificates are       *)
(* swapped.                                                                *)
(***************************************************************************)
TypeInv ==
    /\ TypeOK
    /\ pc = "upgrade" => wup = up
    /\ pc = "pods" => /\ up # None /\ up.phase = "Updating"
                      /\ wup # None /\ wup.phase = "Updating" /\ wup.trigger = "certs"

\* The steps of a pass that move a restart on, except the deletion of pods.
RunStep ==
    \/ TimeOut \/ StopWait \/ StopDone \/ RotateCerts \/ RotateFails \/ AwaitPods
    \/ StartWait \/ StartDone \/ VerifyWait \/ VerifyDone

\* The restart a pass works on: a new one, which begins with Stopping, or the one
\* that is stored.
LEMMA RunIs ==
    ASSUME TypeInv, pc = "upgrade", InProgress(wup) \/ Starts
    PROVE  /\ Run \in Upgrades /\ RunAge \in 0..(Timeout + 1)
           /\ Starts => Run.phase = "Stopping" /\ Run.to = sys.image /\ Run.was = secret
           /\ ~Starts => Run = up /\ wup = up /\ InProgress(up)
<1>1. NewRun("certs", "Stopping") \in Upgrades /\ NewRun("image", "Stopping") \in Upgrades
  BY Zenon DEF NewRun, Upgrades, Phases, TypeInv, TypeOK
<1>2. InProgress(wup) => wup \in Upgrades
  BY Zenon DEF TypeInv, TypeOK, InProgress
<1>3. RunAge \in 0..(Timeout + 1)
  BY DEF RunAge, TypeInv, TypeOK
<1> QED BY <1>1, <1>2, <1>3, Zenon DEF Run, NewRun, TypeInv

\* What a step of a restart leaves in the pass.
LEMMA Entered ==
    ASSUME TypeInv, pc = "upgrade", InProgress(wup) \/ Starts,
           NEW phase \in Phases \cup {"Completed", "Failed"}, Enter(phase)
    PROVE  /\ wup' \in Upgrades /\ wup' # None /\ wup'.phase = phase
           /\ wup'.trigger = Run.trigger /\ wup'.to = Run.to /\ wup'.was = Run.was
           /\ age' \in 0..(Timeout + 1)
           /\ runs' = IF Starts THEN runs + 1 ELSE runs
<1>1. Run \in Upgrades /\ RunAge \in 0..(Timeout + 1)
  BY RunIs, Zenon
<1>2. wup' = [Run EXCEPT !.phase = phase]
  BY Zenon DEF Enter
<1>3. wup' \in Upgrades
  BY <1>1, <1>2, Zenon DEF Upgrades
<1> QED BY <1>1, <1>2, <1>3, Zenon DEF Enter, Upgrades

\* What the steps of a restart have in common.
LEMMA RunStepEffect ==
    ASSUME TypeInv, RunStep
    PROVE  /\ pc = "upgrade" /\ (InProgress(wup) \/ Starts)
           /\ wup' \in Upgrades /\ wup' # None
           /\ wup'.trigger = Run.trigger /\ wup'.to = Run.to /\ wup'.was = Run.was
           /\ \/ pc' = "update" /\ wup'.phase \in Phases
              \/ pc' = "pods" /\ wup'.phase = "Updating" /\ RotateCerts
              \/ pc' = "reset" /\ wup'.phase \in {"Completed", "Failed"}
           /\ age' \in 0..(Timeout + 1)
           /\ runs' = IF Starts THEN runs + 1 ELSE runs
           /\ faults' = faults \/ (faults' = faults + 1 /\ faults < MaxFaults)
           /\ UNCHANGED <<spec, up, sys, cluster, partial, given, renewals, edits, upsets>>
<1> USE Entered DEF Go, End, In, Phases
<1>1. CASE TimeOut
  BY <1>1, Zenon DEF TimeOut
<1>2. CASE StopWait
  BY <1>2, Zenon DEF StopWait
<1>3. CASE StopDone
  BY <1>3, Zenon DEF StopDone
<1>4. CASE RotateCerts
  BY <1>4, Zenon DEF RotateCerts
<1>5. CASE RotateFails
  BY <1>5, Zenon DEF RotateFails
<1>6. CASE AwaitPods
  BY <1>6, Zenon DEF AwaitPods
<1>7. CASE StartWait
  BY <1>7, Zenon DEF StartWait
<1>8. CASE StartDone
  BY <1>8, Zenon DEF StartDone
<1>9. CASE VerifyWait
  BY <1>9, Zenon DEF VerifyWait
<1>10. CASE VerifyDone
  BY <1>10, Zenon DEF VerifyDone
<1> QED BY <1>1, <1>2, <1>3, <1>4, <1>5, <1>6, <1>7, <1>8, <1>9, <1>10, Zenon DEF RunStep

\* The Jobs, the certificates and meddled stay well typed in a step of a restart.
LEMMA RunStepTypes ==
    ASSUME TypeInv, RunStep
    PROVE  /\ stop' \in Job({"stop"}, Outs) /\ start' \in Job({"start"}, Outs)
           /\ verify' \in Job({"query"}, Outs)
           /\ secret' \in Nat /\ previous' \in Nat /\ meddled' \in BOOLEAN
<1> USE DEF jobs, keys
<1>t. /\ stop \in Job({"stop"}, Outs) /\ start \in Job({"start"}, Outs)
      /\ verify \in Job({"query"}, Outs)
      /\ secret \in Nat /\ previous \in Nat /\ meddled \in BOOLEAN
  BY Zenon DEF TypeInv, TypeOK
<1>1. CASE TimeOut \/ AwaitPods
  BY <1>t, <1>1, Zenon DEF TimeOut, AwaitPods
<1>2. CASE StopWait \/ StopDone
  BY <1>t, <1>2, AfterRunType, Zenon DEF StopWait, StopDone
<1>3. CASE RotateCerts \/ RotateFails
  <2>1. secret' \in Nat /\ previous' \in Nat
    BY <1>t, <1>3 DEF RotateCerts, RotateFails
  <2> QED BY <1>t, <1>3, <2>1, Zenon DEF RotateCerts, RotateFails
<1>4. CASE StartWait \/ StartDone
  BY <1>t, <1>4, AfterRunType, Zenon DEF StartWait, StartDone
<1>5. CASE VerifyWait \/ VerifyDone
  BY <1>t, <1>5, AfterRunType DEF VerifyWait, VerifyDone
<1> QED BY <1>1, <1>2, <1>3, <1>4, <1>5, Zenon DEF RunStep

\* The deletion of pods happens in a restart that is stored in Updating.
LEMMA ReplaceInRun ==
    ASSUME TypeInv, ReplacePods \/ ReplaceSome
    PROVE  /\ up # None /\ up.phase = "Updating"
           /\ wup \in Upgrades /\ wup.phase = "Updating" /\ pc \in {"upgrade", "pods"}
           /\ pc = "upgrade" => wup = up /\ wup.trigger = "image"
<1>1. CASE pc = "pods"
  BY <1>1, Zenon DEF TypeInv, TypeOK
<1>2. CASE pc # "pods"
  <2>1. In("Updating") /\ Run.trigger = "image"
    BY <1>2, Zenon DEF ReplacePods, ReplaceSome
  <2>2. ~Starts /\ wup = up /\ InProgress(up) /\ Run = up
    BY <2>1, RunIs, Zenon DEF In
  <2> QED BY <2>1, <2>2, Zenon DEF In, InProgress, TypeInv, TypeOK
<1> QED BY <1>1, <1>2, Zenon

\* Deleting pods gives pods.
LEMMA DeletedType ==
    ASSUME TypeOK, NEW S PROVE Deleted(S) \in [Nodes -> Pods]
<1>1. \A n \in Nodes : pod[n] \in Pods /\ [pod[n] EXCEPT !.st = "terminating"] \in Pods
  BY DEF TypeOK, Pods
<1> QED BY <1>1, Zenon DEF Deleted

\* dmg system start leaves engines.
LEMMA StartedType ==
    ASSUME TypeOK, NEW S PROVE Started(S) \in [Nodes -> Engines]
  BY Zenon DEF Started, TypeOK, Engines

\* Types, and the tie between the pass and the stored status, are kept by every step.
LEMMA TypeStep == TypeInv /\ [Next]_vars => TypeInv'
<1> SUFFICES ASSUME TypeInv, [Next]_vars PROVE TypeInv'
  BY Zenon
<1> USE DEF spec, memory, cluster, keys, jobs, clock, counts
<1>t. TypeOK
  BY Zenon DEF TypeInv
<1>1. CASE BeginPass
  BY <1>1, Zenon DEF BeginPass, TypeInv, TypeOK
<1>2. CASE UpToDate
  BY <1>2, Zenon DEF UpToDate, TypeInv, TypeOK
<1>3. CASE WaitForApproval
  <2>1. NewRun("image", "Pending") \in Upgrades
    BY Zenon DEF NewRun, Upgrades, TypeInv, TypeOK
  <2> QED BY <1>3, <2>1, Zenon DEF WaitForApproval, TypeInv, TypeOK
<1>4. CASE RunStep
  <2>1. runs' \in Nat /\ faults' \in 0..MaxFaults
    BY <1>4, RunStepEffect DEF TypeInv, TypeOK
  <2>2. RotateCerts => Run.trigger = "certs" /\ ~Starts /\ Run = up /\ up.phase = "Updating" /\ up # None
    BY RunIs, Zenon DEF RotateCerts, In, TypeInv, InProgress
  <2> QED BY <1>4, <2>1, <2>2, RunStepEffect, RunStepTypes, Zenon DEF TypeInv, TypeOK
<1>5. CASE ReplacePods
  <2>1. wup' \in Upgrades
    BY <1>5, ReplaceInRun, Zenon DEF ReplacePods, Upgrades, Phases
  <2> QED BY <1>5, <1>t, <2>1, DeletedType, Zenon DEF ReplacePods, TypeInv, TypeOK
<1>6. CASE ReplaceSome
  <2>1. pod' \in [Nodes -> Pods]
    BY <1>6, <1>t, DeletedType, Zenon DEF ReplaceSome
  <2> QED BY <1>6, <2>1, BlankTypes DEF ReplaceSome, TypeInv, TypeOK
<1>7. CASE ResetApproval
  <2>1. sys' \in [image : Images, approved : BOOLEAN, certs : BOOLEAN]
    BY <1>7, Zenon DEF ResetApproval, TypeInv, TypeOK
  <2> QED BY <1>7, <2>1, Zenon DEF ResetApproval, TypeInv, TypeOK
<1>8. CASE ClearCertsApproval
  BY <1>8, Zenon DEF ClearCertsApproval, TypeInv, TypeOK
<1>9. CASE UpdateStatus
  BY <1>9, BlankTypes, Zenon DEF UpdateStatus, TypeInv, TypeOK
<1>10. CASE PassEnds
  BY <1>10, BlankTypes DEF PassEnds, TypeInv, TypeOK
<1>25. CASE NotReached
  BY <1>25, BlankTypes, Zenon DEF NotReached, TypeInv, TypeOK
<1>11. ASSUME NEW i \in Images, Approve(i) PROVE TypeInv'
  <2>1. given' \in Nat /\ edits' \in 0..MaxEdits
    BY <1>11 DEF Approve, TypeInv, TypeOK
  <2>2. meddled' \in BOOLEAN
    BY <1>11, Zenon DEF Approve
  <2> QED BY <1>11, <2>1, <2>2 DEF Approve, TypeInv, TypeOK
<1>12. ASSUME NEW i \in Images, EditImage(i) PROVE TypeInv'
  <2>1. meddled' \in BOOLEAN
    BY <1>12, Zenon DEF EditImage
  <2> QED BY <1>12, <2>1 DEF EditImage, TypeInv, TypeOK
<1>13. CASE ApproveCerts
  <2>1. given' \in Nat /\ renewals' \in 0..MaxApprovals
    BY <1>13 DEF ApproveCerts, TypeInv, TypeOK
  <2>2. certs' \in BOOLEAN /\ late' \in BOOLEAN
    BY <1>13, Zenon DEF ApproveCerts, MidRun, InProgress
  <2> QED BY <1>13, <2>1, <2>2, Zenon DEF ApproveCerts, TypeInv, TypeOK
<1>14. CASE Withdraw
  BY <1>14, ZenonT(30) DEF Withdraw, TypeInv, TypeOK
<1>15. CASE StartByHand
  <2>1. meddled' \in BOOLEAN
    BY <1>15, Zenon DEF StartByHand
  <2>2. engine' \in [Nodes -> Engines]
    BY <1>15, <1>t, StartedType, Zenon DEF StartByHand
  <2> QED BY <1>15, <2>1, <2>2 DEF StartByHand, TypeInv, TypeOK
<1>16. CASE Tick
  BY <1>16 DEF Tick, TypeInv, TypeOK
<1>17. ASSUME NEW n \in Nodes, PodRecreated(n) PROVE TypeInv'
  <2>1. [img |-> template, st |-> "starting", bundle |-> secret] \in Pods
    BY Zenon DEF Pods, TypeInv, TypeOK
  <2>2. engine' \in [Nodes -> Engines]
    BY <1>17, <1>t, Zenon DEF PodRecreated, TypeOK, Engines
  <2> QED BY <1>17, <2>1, <2>2 DEF PodRecreated, TypeInv, TypeOK
<1>18. ASSUME NEW n \in Nodes, PodReady(n) PROVE TypeInv'
  <2>1. pod' \in [Nodes -> Pods]
    BY <1>18 DEF PodReady, Pods, TypeInv, TypeOK
  <2>2. engine' \in [Nodes -> Engines]
    BY <1>18, <1>t, Zenon DEF PodReady, TypeOK, Engines
  <2> QED BY <1>18, <2>1, <2>2 DEF PodReady, TypeInv, TypeOK
<1>26. ASSUME NEW n \in Nodes, EngineDies(n) PROVE TypeInv'
  <2>1. engine' \in [Nodes -> Engines]
    BY <1>26, <1>t, Zenon DEF EngineDies, TypeOK, Engines
  <2> QED BY <1>26, <2>1 DEF EngineDies, TypeInv, TypeOK
<1>19. ASSUME NEW out \in Outs, StopFinishes(out) PROVE TypeInv'
  <2>1. stop' \in Job({"stop"}, Outs)
    BY <1>19, <1>t, FinishedType, Zenon DEF StopFinishes, TypeOK
  <2>2. engine' \in [Nodes -> Engines]
    BY <1>19, <1>t, Zenon DEF StopFinishes, TypeOK, Engines
  <2>3. partial' \in BOOLEAN
    BY <1>19, Zenon DEF StopFinishes
  <2>4. upsets' \in 0..MaxUpsets
    BY <1>19, <1>t DEF StopFinishes, TypeOK
  <2> QED BY <1>19, <2>1, <2>2, <2>3, <2>4 DEF StopFinishes, TypeInv, TypeOK
<1>20. ASSUME NEW out \in Outs, StartFinishes(out) PROVE TypeInv'
  <2>1. start' \in Job({"start"}, Outs)
    BY <1>20, <1>t, FinishedType, Zenon DEF StartFinishes, TypeOK
  <2>2. engine' \in [Nodes -> Engines]
    <3>1. engine' = engine \/ \E S \in SUBSET Nodes : engine' = Started(S)
      BY <1>20 DEF StartFinishes
    <3> QED BY <1>t, <3>1, StartedType, Zenon DEF TypeOK
  <2> QED BY <1>20, <2>1, <2>2 DEF StartFinishes, TypeInv, TypeOK
<1>21. ASSUME NEW out \in Outs, VerifyFinishes(out) PROVE TypeInv'
  <2>1. verify' \in Job({"query"}, Outs)
    BY <1>21, <1>t, FinishedType, Zenon DEF VerifyFinishes, TypeOK
  <2> QED BY <1>21, <2>1 DEF VerifyFinishes, TypeInv, TypeOK
<1>22. CASE JobsRemoved
  BY <1>22, BlankTypes DEF JobsRemoved, TypeInv, TypeOK
<1>23. CASE JobsExpire
  BY <1>23, BlankTypes DEF JobsExpire, TypeInv, TypeOK
<1>24. CASE UNCHANGED vars
  BY <1>24 DEF vars, TypeInv, TypeOK
<1> QED
  BY <1>1, <1>2, <1>3, <1>4, <1>5, <1>6, <1>7, <1>8, <1>9, <1>10, <1>11, <1>12, <1>13, <1>14,
     <1>15, <1>16, <1>17, <1>18, <1>19, <1>20, <1>21, <1>22, <1>23, <1>24, <1>25, <1>26, Zenon
     DEF Next, Operator, ReconcileUpgrade, RunStep, Human, Environment, JobsFinish

\* The initial states are well typed, between two passes.
LEMMA InitType == Init => TypeInv
<1> SUFFICES ASSUME Init PROVE TypeInv
  BY Zenon
<1>1. pod \in [Nodes -> Pods] /\ engine \in [Nodes -> Engines]
  BY Zenon DEF Init, Pods, Engines
<1>2. /\ age \in 0..(Timeout + 1) /\ given \in Nat /\ renewals \in 0..MaxApprovals /\ edits \in 0..MaxEdits
      /\ faults \in 0..MaxFaults /\ upsets \in 0..MaxUpsets /\ runs \in Nat
      /\ secret \in Nat /\ previous \in Nat
  BY DEF Init
<1>3. approved \in BOOLEAN /\ certs \in BOOLEAN /\ late \in BOOLEAN /\ meddled \in BOOLEAN /\ partial \in BOOLEAN
  BY Zenon DEF Init
<1> QED BY <1>1, <1>2, <1>3, BlankTypes, Zenon DEF Init, TypeInv, TypeOK

\* Every state that passes, humans, the cluster and faults can reach is well typed.
THEOREM Typing == Spec => []TypeOK
<1>1. TypeInv => TypeOK
  BY Zenon DEF TypeInv
<1> QED BY <1>1, InitType, TypeStep, PTL DEF Spec

-----------------------------------------------------------------------------
(***************************************************************************)
(* At most one restart per approval.  OneRunPerApproval is not inductive:  *)
(* an approval on the object is one more restart unless the restart it     *)
(* stands for was already begun.  Held counts the approvals on the object, *)
(* Unseen those that came after the pass read it: they stay when the pass  *)
(* removes the ones it saw.                                                *)
(***************************************************************************)
Token(held) == IF held THEN 1 ELSE 0

Paid == given + faults
Held == Token(approved) + Token(certs)
Unseen == Token(approved /\ ~sys.approved) + Token(certs /\ ~sys.certs)

ApprovalInv ==
    /\ TypeInv /\ OneRunPerApproval
    /\ runs + Held <= Paid + 1
    /\ pc = "idle" /\ ~InProgress(up) => runs + Held <= Paid
    /\ pc = "upgrade" /\ ~InProgress(up) =>
           /\ runs + Held <= Paid
           /\ runs + Token(sys.approved \/ sys.certs) + Unseen <= Paid
    /\ (pc = "upgrade" /\ InProgress(up)) \/ pc \in {"pods", "reset"} => runs + Unseen <= Paid
    /\ pc = "clear" => runs + Token(approved) + Token(certs /\ ~sys.certs) <= Paid
    /\ pc = "update" /\ ~InProgress(wup) => runs + Held <= Paid
    /\ pc \in {"reset", "clear"} => ~InProgress(wup)

\* A step that gives no approval and begins no restart, and leaves the pass where
\* it is, keeps ApprovalInv.
LEMMA ApprovalKept ==
    ASSUME ApprovalInv, TypeInv', UNCHANGED <<pc, sys, up, wup, given, runs, approved, certs>>,
           faults' = faults \/ faults' = faults + 1
    PROVE  ApprovalInv'
<1>1. /\ runs \in Nat /\ given \in Nat /\ faults \in Nat
      /\ approved \in BOOLEAN /\ certs \in BOOLEAN /\ sys.approved \in BOOLEAN /\ sys.certs \in BOOLEAN
  BY DEF ApprovalInv, TypeInv, TypeOK
<1>2. CASE faults' = faults
  BY <1>2, Zenon DEF ApprovalInv, OneRunPerApproval, Paid, Held, Unseen, InProgress
<1>3. CASE faults' = faults + 1
  BY <1>1, <1>3 DEF ApprovalInv, OneRunPerApproval, Paid, Held, Unseen, InProgress, Token
<1> QED BY <1>2, <1>3, Zenon

\* A pass that ends by a fault leaves every approval on the object paid for.
LEMMA ApprovalAfterFault ==
    ASSUME ApprovalInv, TypeInv', UNCHANGED <<up, given, runs, approved, certs>>,
           faults' = faults + 1, pc' = "idle"
    PROVE  ApprovalInv'
<1>1. /\ runs \in Nat /\ given \in Nat /\ faults \in Nat
      /\ approved \in BOOLEAN /\ certs \in BOOLEAN
  BY DEF ApprovalInv, TypeInv, TypeOK
<1>2. runs <= given + faults /\ runs + Held <= given + faults + 1
  BY Zenon DEF ApprovalInv, OneRunPerApproval, Paid
<1> QED BY <1>1, <1>2 DEF ApprovalInv, OneRunPerApproval, Paid, Held, Token

\* A restart is begun only when the pass saw an approval, which pays for it.
LEMMA ApprovalRunStep ==
    ASSUME ApprovalInv, TypeInv', RunStep PROVE ApprovalInv'
<1>t. TypeInv
  BY Zenon DEF ApprovalInv
<1>1. /\ runs \in Nat /\ given \in Nat /\ faults \in Nat
      /\ approved \in BOOLEAN /\ certs \in BOOLEAN /\ sys.approved \in BOOLEAN /\ sys.certs \in BOOLEAN
  BY <1>t DEF TypeInv, TypeOK
<1>2. /\ pc = "upgrade" /\ wup = up /\ UNCHANGED <<approved, certs, sys, up, given>>
      /\ runs' = IF Starts THEN runs + 1 ELSE runs
      /\ pc' \in {"update", "pods", "reset"}
      /\ pc' = "update" => InProgress(wup')
      /\ pc' = "reset" => ~InProgress(wup')
  BY <1>t, RunStepEffect, Zenon DEF TypeInv, spec, InProgress, Phases
<1>3. runs' + Unseen <= Paid /\ runs' + Held <= Paid + 1
  <2>1. CASE Starts
    <3>1. ~InProgress(up) /\ (sys.certs \/ sys.approved)
      BY <1>2, <2>1, Zenon DEF Starts
    <3> QED BY <1>1, <1>2, <2>1, <3>1 DEF ApprovalInv, Token, Held, Unseen, Paid
  <2>2. CASE ~Starts
    <3>1. InProgress(up)
      BY <1>2, <2>2, <1>t, RunStepEffect, Zenon
    <3> QED BY <1>1, <1>2, <2>2, <3>1, Zenon DEF ApprovalInv
  <2> QED BY <2>1, <2>2, Zenon
<1>4. runs' \in Nat
  BY <1>1, <1>2
<1>5. faults' = faults \/ faults' = faults + 1
  BY <1>t, RunStepEffect, Zenon
<1>6. CASE faults' = faults
  BY <1>1, <1>2, <1>3, <1>4, <1>6 DEF ApprovalInv, OneRunPerApproval, Token, Held, Unseen, Paid
<1>7. CASE faults' = faults + 1
  BY <1>1, <1>2, <1>3, <1>4, <1>7 DEF ApprovalInv, OneRunPerApproval, Token, Held, Unseen, Paid
<1> QED BY <1>5, <1>6, <1>7, Zenon

\* A new approval pays for itself.
LEMMA ApprovalGiven ==
    ASSUME ApprovalInv, TypeInv', given' = given + 1, UNCHANGED <<pc, sys, up, wup, runs, faults>>,
           \/ approved' = TRUE /\ certs' = certs
           \/ certs' = TRUE /\ approved' = approved
    PROVE  ApprovalInv'
<1>1. /\ runs \in Nat /\ given \in Nat /\ faults \in Nat
      /\ approved \in BOOLEAN /\ certs \in BOOLEAN /\ sys.approved \in BOOLEAN /\ sys.certs \in BOOLEAN
  BY DEF ApprovalInv, TypeInv, TypeOK
<1> USE DEF Paid, Held, Unseen, Token, InProgress
<1>2. CASE approved' = TRUE /\ certs' = certs
  <2>1. OneRunPerApproval' /\ runs' + Held' <= Paid' + 1
    BY <1>1, <1>2 DEF ApprovalInv, OneRunPerApproval
  <2>2. ASSUME (pc \in {"idle", "upgrade"} /\ ~InProgress(up)) \/ (pc = "update" /\ ~InProgress(wup))
        PROVE  runs' + Held' <= Paid'
    BY <1>1, <1>2, <2>2 DEF ApprovalInv
  <2>3. ASSUME pc = "upgrade" /\ ~InProgress(up)
        PROVE  runs' + Token(sys.approved \/ sys.certs)' + Unseen' <= Paid'
    BY <1>1, <1>2, <2>3 DEF ApprovalInv
  <2>4. ASSUME (pc = "upgrade" /\ InProgress(up)) \/ pc \in {"pods", "reset"}
        PROVE  runs' + Unseen' <= Paid'
    BY <1>1, <1>2, <2>4 DEF ApprovalInv
  <2>5. ASSUME pc = "clear" PROVE runs' + Token(approved)' + Token(certs /\ ~sys.certs)' <= Paid'
    BY <1>1, <1>2, <2>5 DEF ApprovalInv
  <2> QED BY <2>1, <2>2, <2>3, <2>4, <2>5, Zenon DEF ApprovalInv
<1>3. CASE certs' = TRUE /\ approved' = approved
  <2>1. OneRunPerApproval' /\ runs' + Held' <= Paid' + 1
    BY <1>1, <1>3 DEF ApprovalInv, OneRunPerApproval
  <2>2. ASSUME (pc \in {"idle", "upgrade"} /\ ~InProgress(up)) \/ (pc = "update" /\ ~InProgress(wup))
        PROVE  runs' + Held' <= Paid'
    BY <1>1, <1>3, <2>2 DEF ApprovalInv
  <2>3. ASSUME pc = "upgrade" /\ ~InProgress(up)
        PROVE  runs' + Token(sys.approved \/ sys.certs)' + Unseen' <= Paid'
    BY <1>1, <1>3, <2>3 DEF ApprovalInv
  <2>4. ASSUME (pc = "upgrade" /\ InProgress(up)) \/ pc \in {"pods", "reset"}
        PROVE  runs' + Unseen' <= Paid'
    BY <1>1, <1>3, <2>4 DEF ApprovalInv
  <2>5. ASSUME pc = "clear" PROVE runs' + Token(approved)' + Token(certs /\ ~sys.certs)' <= Paid'
    BY <1>1, <1>3, <2>5 DEF ApprovalInv
  <2> QED BY <2>1, <2>2, <2>3, <2>4, <2>5, Zenon DEF ApprovalInv
<1> QED BY <1>2, <1>3, Zenon

\* ApprovalInv is kept by every step.
LEMMA ApprovalStep == ApprovalInv /\ [Next]_vars => ApprovalInv'
<1> SUFFICES ASSUME ApprovalInv, [Next]_vars PROVE ApprovalInv'
  BY Zenon
<1> USE DEF spec, memory, cluster, keys, jobs, clock, counts
<1>t. TypeInv /\ TypeInv'
  BY TypeStep, Zenon DEF ApprovalInv
<1>n. /\ runs \in Nat /\ given \in Nat /\ faults \in Nat
      /\ approved \in BOOLEAN /\ certs \in BOOLEAN /\ sys.approved \in BOOLEAN /\ sys.certs \in BOOLEAN
  BY <1>t DEF TypeInv, TypeOK
<1>l. runs <= given + faults /\ runs + Held <= given + faults + 1
  BY Zenon DEF ApprovalInv, OneRunPerApproval, Paid
<1>1. CASE BeginPass
  <2>1. /\ pc = "idle" /\ pc' = "upgrade" /\ sys'.approved = approved /\ sys'.certs = certs
        /\ UNCHANGED <<approved, certs, up, runs, given, faults>>
    BY <1>1, Zenon DEF BeginPass
  <2>2. Unseen' = 0 /\ Held' = Held
    BY <1>n, <2>1 DEF Unseen, Held, Token
  <2>3. Token(sys'.approved \/ sys'.certs) <= Held
    BY <1>n, <2>1 DEF Held, Token
  <2>4. Held \in Nat /\ Token(approved \/ certs) <= Held
    BY <1>n DEF Held, Token
  <2>5. (~InProgress(up))' => runs + Held <= given + faults
    BY <2>1, Zenon DEF ApprovalInv, Paid, InProgress
  <2>6. runs' + Unseen' <= Paid' /\ OneRunPerApproval' /\ runs' + Held' <= Paid' + 1
    BY <1>n, <1>l, <2>1, <2>2 DEF Paid, OneRunPerApproval
  <2>7. (~InProgress(up))' =>
           /\ runs' + Held' <= Paid'
           /\ runs' + Token(sys.approved \/ sys.certs)' + Unseen' <= Paid'
    BY <1>n, <2>1, <2>2, <2>4, <2>5 DEF Paid, Token
  <2> QED BY <1>t, <2>1, <2>6, <2>7, Zenon DEF ApprovalInv
<1>2. CASE UpToDate
  <2>1. /\ pc = "upgrade" /\ ~InProgress(up) /\ pc' = "update"
        /\ approved' = (approved /\ ~sys.approved)
        /\ UNCHANGED <<certs, sys, up, runs, given, faults>>
    BY <1>2, <1>t, Zenon DEF UpToDate, TypeInv
  <2>2. runs + Held <= given + faults
    BY <2>1, Zenon DEF ApprovalInv, Paid
  <2>3. runs' + Held' <= Paid'
    BY <1>n, <2>1, <2>2 DEF Held, Token, Paid
  <2> QED BY <1>t, <1>n, <1>l, <2>1, <2>3 DEF ApprovalInv, OneRunPerApproval, Paid, Held, Token
<1>3. CASE WaitForApproval
  <2>1. /\ pc = "upgrade" /\ ~InProgress(up) /\ pc' = "update"
        /\ UNCHANGED <<approved, certs, sys, up, runs, given, faults>>
    BY <1>3, <1>t, Zenon DEF WaitForApproval, TypeInv
  <2> QED BY <1>t, <1>n, <1>l, <2>1, Zenon DEF ApprovalInv, OneRunPerApproval, Paid, Held
<1>4. CASE RunStep
  BY <1>t, <1>4, ApprovalRunStep, Zenon
<1>5. CASE ReplacePods
  <2>1. wup' # None /\ wup'.phase = "Starting"
    <3>1. wup' \in Upgrades
      BY <1>5, <1>t, ReplaceInRun, Zenon DEF ReplacePods, Upgrades, Phases
    <3> QED BY <1>5, <1>t, <3>1, ReplaceInRun, Zenon DEF ReplacePods, Upgrades
  <2>2. pc' = "update" /\ UNCHANGED <<approved, certs, up, runs, given, faults>>
    BY <1>5, Zenon DEF ReplacePods
  <2> QED BY <1>t, <1>n, <1>l, <2>1, <2>2, Zenon
          DEF ApprovalInv, OneRunPerApproval, Paid, Held, InProgress, Phases
<1>6. CASE ReplaceSome \/ PassEnds
  <2>1. /\ UNCHANGED <<up, given, runs, approved, certs>>
        /\ faults' = faults + 1 /\ pc' = "idle"
    BY <1>6, Zenon DEF ReplaceSome, PassEnds
  <2> QED BY <1>t, <2>1, ApprovalAfterFault, Zenon
<1>7. CASE ResetApproval
  <2>1. /\ pc = "reset" /\ pc' = "clear" /\ approved' = (approved /\ ~sys.approved)
        /\ sys'.certs = certs \/ sys' = sys
        /\ UNCHANGED <<certs, up, wup, runs, given, faults>>
    BY <1>7, Zenon DEF ResetApproval
  <2>2. runs + Unseen <= given + faults
    BY <2>1, Zenon DEF ApprovalInv, Paid
  <2>3. runs' + Token(approved)' + Token(certs /\ ~sys.certs)' <= Paid'
    <3>1. /\ Token(approved)' = Token(approved /\ ~sys.approved)
          /\ Token(certs /\ ~sys.certs)' \in {0, Token(certs /\ ~sys.certs)}
      BY <1>n, <2>1, Zenon DEF Token
    <3>2. Token(approved /\ ~sys.approved) \in {0, 1} /\ Token(certs /\ ~sys.certs) \in {0, 1}
      BY Zenon DEF Token
    <3>3. runs + Token(approved /\ ~sys.approved) + Token(certs /\ ~sys.certs) <= given + faults
      BY <1>n, <2>2, <3>2 DEF Unseen
    <3>4. CASE Token(certs /\ ~sys.certs)' = 0
      BY <1>n, <2>1, <3>1, <3>2, <3>3, <3>4 DEF Paid
    <3>5. CASE Token(certs /\ ~sys.certs)' = Token(certs /\ ~sys.certs)
      BY <1>n, <2>1, <3>1, <3>2, <3>3, <3>5, Zenon DEF Paid
    <3> QED BY <3>1, <3>4, <3>5, Zenon
  <2>4. runs' + Held' <= Paid' + 1
    BY <1>n, <1>l, <2>1 DEF Held, Token, Paid
  <2>5. ~InProgress(wup)'
    BY <2>1, Zenon DEF ApprovalInv, InProgress
  <2> QED BY <1>t, <1>n, <1>l, <2>1, <2>3, <2>4, <2>5, Zenon DEF ApprovalInv, OneRunPerApproval
<1>8. CASE ClearCertsApproval
  <2>1. /\ pc = "clear" /\ pc' = "update" /\ certs' = (certs /\ ~sys.certs)
        /\ UNCHANGED <<approved, up, wup, sys, runs, given, faults>>
    BY <1>8, Zenon DEF ClearCertsApproval
  <2>2. runs + Token(approved) + Token(certs /\ ~sys.certs) <= given + faults
    BY <2>1, Zenon DEF ApprovalInv, Paid
  <2>3. Held' = Token(approved) + Token(certs /\ ~sys.certs)
    BY <2>1, Zenon DEF Held
  <2>4. runs' + Held' <= Paid'
    <3>1. Token(approved) \in {0, 1} /\ Token(certs /\ ~sys.certs) \in {0, 1}
      BY Zenon DEF Token
    <3> QED BY <1>n, <2>1, <2>2, <2>3, <3>1 DEF Paid
  <2> QED BY <1>t, <1>n, <1>l, <2>1, <2>4 DEF ApprovalInv, OneRunPerApproval, Paid, Held, Token
<1>9. CASE UpdateStatus
  <2>1. /\ pc = "update" /\ pc' = "idle" /\ up' = wup
        /\ UNCHANGED <<approved, certs, runs, given, faults>>
    BY <1>9, Zenon DEF UpdateStatus
  <2> QED BY <1>t, <1>n, <1>l, <2>1, Zenon DEF ApprovalInv, OneRunPerApproval, Paid, Held, InProgress
<1>10. ASSUME NEW i \in Images, Approve(i) PROVE ApprovalInv'
  BY <1>t, <1>10, ApprovalGiven, Zenon DEF Approve
<1>11. CASE ApproveCerts
  BY <1>t, <1>11, ApprovalGiven, Zenon DEF ApproveCerts
<1>12. CASE Withdraw
  <2>1. approved' = FALSE /\ certs' = FALSE /\ UNCHANGED <<pc, sys, up, wup, given, runs, faults>>
    BY <1>12, Zenon DEF Withdraw
  <2> QED BY <1>t, <1>n, <1>l, <2>1
          DEF ApprovalInv, OneRunPerApproval, Paid, Held, Unseen, Token, InProgress
<1>13. ASSUME NEW i \in Images, EditImage(i) PROVE ApprovalInv'
  BY <1>t, <1>13, ApprovalKept, Zenon DEF EditImage
<1>14. CASE StartByHand \/ Tick \/ JobsRemoved
  BY <1>t, <1>14, ApprovalKept, Zenon DEF StartByHand, Tick, JobsRemoved
<1>15. CASE JobsExpire
  BY <1>t, <1>15, ApprovalKept, Zenon DEF JobsExpire
<1>16. ASSUME NEW n \in Nodes, PodRecreated(n) \/ PodReady(n) \/ EngineDies(n) PROVE ApprovalInv'
  BY <1>t, <1>16, ApprovalKept, Zenon DEF PodRecreated, PodReady, EngineDies
<1>17. ASSUME NEW out \in Outs, StopFinishes(out) \/ StartFinishes(out) \/ VerifyFinishes(out)
       PROVE  ApprovalInv'
  BY <1>t, <1>17, ApprovalKept, Zenon DEF StopFinishes, StartFinishes, VerifyFinishes
<1>18. CASE UNCHANGED vars
  BY <1>t, <1>18, ApprovalKept, Zenon DEF vars
<1>19. CASE NotReached
  <2>1. /\ pc = "upgrade" /\ pc' = "idle"
        /\ UNCHANGED <<approved, certs, up, runs, given, faults>>
    BY <1>19, Zenon DEF NotReached
  <2> QED BY <1>t, <1>n, <1>l, <2>1, Zenon DEF ApprovalInv, OneRunPerApproval, Paid, Held, InProgress
<1> QED
  BY <1>1, <1>2, <1>3, <1>4, <1>5, <1>6, <1>7, <1>8, <1>9, <1>10, <1>11, <1>12, <1>13, <1>14,
     <1>15, <1>16, <1>17, <1>18, <1>19, Zenon
     DEF Next, Operator, ReconcileUpgrade, RunStep, Human, Environment, JobsFinish

\* However approvals, withdrawals, failures and passes interleave, the operator
\* begins at most one full-stop restart per approval and fault.
THEOREM RunsNeedApprovals == Spec => []OneRunPerApproval
<1>1. Init => ApprovalInv
  <2> SUFFICES ASSUME Init PROVE ApprovalInv
    BY Zenon
  <2>1. runs = 0 /\ given = 0 /\ faults = 0 /\ ~approved /\ ~certs /\ pc = "idle"
    BY Zenon DEF Init
  <2> QED BY <2>1, InitType DEF ApprovalInv, OneRunPerApproval, Paid, Held, Token
<1>2. ApprovalInv => OneRunPerApproval
  BY Zenon DEF ApprovalInv
<1> QED BY <1>1, <1>2, ApprovalStep, PTL DEF Spec

-----------------------------------------------------------------------------
(***************************************************************************)
(* The bundle a rotation replaces is backed up.  was is the bundle in use  *)
(* when the restart began: until the rotation it is in the Secret, after   *)
(* it in <sys>-certs-previous, and between the two writes of one pass the  *)
(* stored status still says Updating.                                      *)
(***************************************************************************)
RotatesIn(u, S) == u # None /\ u.trigger = "certs" /\ u.phase \in S

NotRotated(u) == RotatesIn(u, {"Stopping", "Updating"}) => u.was = secret

Rotated(u) ==
    RotatesIn(u, {"Starting", "StartingSystem", "Verifying", "Completed"}) => previous = u.was

BackupInv ==
    /\ TypeInv
    /\ faults = 0 =>
         /\ Rotated(up)
         /\ pc \in {"idle", "upgrade"} => NotRotated(up)
         /\ pc \in {"reset", "clear", "update"} => NotRotated(wup) /\ Rotated(wup)
         /\ pc = "pods" => previous = wup.was

\* Which phase follows which, and that only Updating touches the certificates.
LEMMA PhaseMoves ==
    ASSUME TypeInv, RunStep, ~RotateCerts, ~RotateFails
    PROVE  /\ UNCHANGED <<secret, previous, faults>> /\ pc' \in {"update", "reset"}
           /\ \/ wup'.phase = "Failed"
              \/ Run.phase = "Stopping" /\ wup'.phase \in {"Stopping", "Updating"}
              \/ Run.phase = "Starting" /\ wup'.phase \in {"Starting", "StartingSystem"}
              \/ Run.phase = "StartingSystem" /\ wup'.phase \in {"StartingSystem", "Verifying"}
              \/ Run.phase = "Verifying" /\ wup'.phase \in {"Verifying", "Completed"}
<1> USE Entered DEF Go, End, In, Phases, keys
<1>1. CASE TimeOut
  BY <1>1, Zenon DEF TimeOut
<1>2. CASE StopWait
  BY <1>2, Zenon DEF StopWait
<1>3. CASE StopDone
  BY <1>3, Zenon DEF StopDone
<1>6. CASE AwaitPods
  BY <1>6, Zenon DEF AwaitPods
<1>7. CASE StartWait
  BY <1>7, Zenon DEF StartWait
<1>8. CASE StartDone
  BY <1>8, Zenon DEF StartDone
<1>9. CASE VerifyWait
  BY <1>9, Zenon DEF VerifyWait
<1>10. CASE VerifyDone
  BY <1>10, Zenon DEF VerifyDone
<1> QED BY <1>1, <1>2, <1>3, <1>6, <1>7, <1>8, <1>9, <1>10, Zenon DEF RunStep

\* A step that leaves the restart, the pass and the certificates alone.
LEMMA BackupKept ==
    ASSUME BackupInv, TypeInv', UNCHANGED <<pc, up, wup, secret, previous, faults>>
    PROVE  BackupInv'
  BY Zenon DEF BackupInv, Rotated, NotRotated, RotatesIn

\* BackupInv says nothing once there was a fault.
LEMMA BackupAfterFault ==
    ASSUME BackupInv, TypeInv', faults' = faults + 1 PROVE BackupInv'
<1>1. faults \in Nat
  BY DEF BackupInv, TypeInv, TypeOK
<1> QED BY <1>1 DEF BackupInv

\* BackupInv is kept by every step.
LEMMA BackupStep == BackupInv /\ [Next]_vars => BackupInv'
<1> SUFFICES ASSUME BackupInv, [Next]_vars PROVE BackupInv'
  BY Zenon
<1> USE DEF spec, memory, cluster, keys, jobs, clock, counts
<1>t. TypeInv /\ TypeInv'
  BY TypeStep, Zenon DEF BackupInv
<1>1. CASE BeginPass
  BY <1>1, <1>t, Zenon DEF BeginPass, BackupInv, Rotated, NotRotated, RotatesIn
<1>2. CASE UpToDate \/ WaitForApproval
  <2>1. /\ pc = "upgrade" /\ wup = up /\ pc' = "update"
        /\ UNCHANGED <<up, secret, previous, faults>>
        /\ wup' = up \/ wup' = None \/ wup' = NewRun("image", "Pending")
    BY <1>2, <1>t, Zenon DEF UpToDate, WaitForApproval, TypeInv
  <2> QED BY <1>t, <2>1 DEF BackupInv, Rotated, NotRotated, RotatesIn, NewRun
<1>3. CASE RunStep /\ ~RotateCerts /\ ~RotateFails
  <2>1. /\ pc = "upgrade" /\ UNCHANGED <<up, secret, previous, faults>>
        /\ pc' \in {"update", "reset"}
    BY <1>3, <1>t, RunStepEffect, PhaseMoves, Zenon
  <2>2. /\ Starts => Run.phase = "Stopping" /\ Run.was = secret
        /\ ~Starts => Run = up /\ up # None
    BY <1>3, <1>t, RunStepEffect, RunIs, Zenon DEF InProgress
  <2>3. faults = 0 => NotRotated(wup)' /\ Rotated(wup)'
    BY <1>3, <1>t, <2>1, <2>2, RunStepEffect, PhaseMoves, Zenon
       DEF BackupInv, Rotated, NotRotated, RotatesIn
  <2>4. faults = 0 => Rotated(up)'
    BY <2>1, Zenon DEF BackupInv, Rotated, RotatesIn
  <2> QED BY <1>t, <2>1, <2>3, <2>4, Zenon DEF BackupInv
<1>4. CASE RotateCerts
  <2>1. /\ Run.phase = "Updating" /\ Run.trigger = "certs" /\ previous' = secret /\ pc' = "pods"
        /\ UNCHANGED <<up, faults>>
    BY <1>4, Zenon DEF RotateCerts, In
  <2>2. pc = "upgrade" /\ ~Starts /\ Run = up /\ up # None /\ wup'.was = Run.was
    BY <1>4, <1>t, <2>1, RunStepEffect, RunIs, Zenon DEF RunStep, InProgress
  <2>3. faults = 0 => previous' = wup'.was
    BY <2>1, <2>2, Zenon DEF BackupInv, NotRotated, RotatesIn
  <2> QED BY <1>t, <2>1, <2>2, <2>3, Zenon DEF BackupInv, Rotated, RotatesIn
<1>5. CASE ReplacePods
  <2>1. /\ wup'.trigger = wup.trigger /\ wup'.was = wup.was /\ wup'.phase = "Starting"
        /\ pc' = "update" /\ UNCHANGED <<up, secret, previous, faults>>
    BY <1>5, <1>t, ReplaceInRun, Zenon DEF ReplacePods, Upgrades
  <2> QED BY <1>5, <1>t, <2>1, ReplaceInRun, Zenon DEF BackupInv, Rotated, NotRotated, RotatesIn
<1>6. CASE ResetApproval \/ ClearCertsApproval
  BY <1>6, <1>t, Zenon DEF ResetApproval, ClearCertsApproval, BackupInv, Rotated, NotRotated, RotatesIn
<1>7. CASE UpdateStatus
  BY <1>7, <1>t, Zenon DEF UpdateStatus, BackupInv, Rotated, NotRotated, RotatesIn
<1>8. CASE PassEnds \/ RotateFails \/ ReplaceSome \/ JobsExpire
  BY <1>8, <1>t, BackupAfterFault, Zenon DEF PassEnds, RotateFails, ReplaceSome, JobsExpire
<1>9. CASE Human
  BY <1>9, <1>t, BackupKept, Zenon DEF Human, Approve, EditImage, ApproveCerts, Withdraw, StartByHand
<1>10. CASE Tick \/ JobsRemoved
  BY <1>10, <1>t, BackupKept, Zenon DEF Tick, JobsRemoved
<1>11. ASSUME NEW n \in Nodes, PodRecreated(n) \/ PodReady(n) \/ EngineDies(n) PROVE BackupInv'
  BY <1>11, <1>t, BackupKept, Zenon DEF PodRecreated, PodReady, EngineDies
<1>12. ASSUME NEW out \in Outs, StopFinishes(out) \/ StartFinishes(out) \/ VerifyFinishes(out)
       PROVE  BackupInv'
  BY <1>12, <1>t, BackupKept, Zenon DEF StopFinishes, StartFinishes, VerifyFinishes
<1>13. CASE UNCHANGED vars
  BY <1>13, <1>t, BackupKept, Zenon DEF vars
<1>14. CASE NotReached
  BY <1>14, <1>t, Zenon DEF NotReached, BackupInv, Rotated, NotRotated, RotatesIn
<1> QED
  BY <1>1, <1>2, <1>3, <1>4, <1>5, <1>6, <1>7, <1>8, <1>9, <1>10, <1>11, <1>12, <1>13, <1>14, Zenon
     DEF Next, Operator, ReconcileUpgrade, RunStep, Environment, JobsFinish

\* When no pass is cut short, <sys>-certs-previous holds the bundle in use before
\* the rotation from the moment the new one is in place.
THEOREM BackupHolds == Spec => []PreviousKept
<1>1. Init => BackupInv
  BY InitType, Zenon DEF Init, BackupInv, Rotated, NotRotated, RotatesIn
<1>2. BackupInv => PreviousKept
  BY Zenon DEF BackupInv, Rotated, RotatesIn, PreviousKept
<1> QED BY <1>1, <1>2, BackupStep, PTL DEF Spec

-----------------------------------------------------------------------------
(***************************************************************************)
(* An approved rotation takes place.  An approval that was there before    *)
(* the pass and the restart is seen by every pass, so the restart it ends  *)
(* with is a rotation; and a rotation that is past Updating has put a      *)
(* newer bundle in the Secret than the one in use when it began.           *)
(***************************************************************************)
Swapped == {"Starting", "StartingSystem", "Verifying", "Completed"}

Renewed(u) == u # None => u.was <= secret /\ (RotatesIn(u, Swapped) => u.was < secret)

Seen ==
    /\ InProgress(up) => up.trigger = "certs"
    /\ pc # "idle" => sys.certs
    /\ pc \in {"pods", "reset", "clear", "update"} => wup # None /\ wup.trigger = "certs"

HonourInv ==
    /\ TypeInv /\ Renewed(up) /\ Renewed(wup)
    /\ pc = "pods" => wup.was < secret
    /\ certs /\ ~late => Seen

\* A step that leaves the restart, the pass and the certificates alone and gives no
\* approval of a rotation.
LEMMA HonourKept ==
    ASSUME HonourInv, TypeInv', UNCHANGED <<pc, sys, up, wup, secret>>,
           (UNCHANGED <<certs, late>>) \/ certs' = FALSE
    PROVE  HonourInv'
<1>1. Renewed(up)' /\ Renewed(wup)' /\ (pc' = "pods" => wup'.was < secret')
  BY Zenon DEF HonourInv, Renewed, RotatesIn
<1>2. CASE UNCHANGED <<certs, late>>
  BY <1>1, <1>2, Zenon DEF HonourInv, Seen, InProgress
<1>3. CASE certs' = FALSE
  BY <1>1, <1>3, Zenon DEF HonourInv
<1> QED BY <1>2, <1>3, Zenon

\* A pass that ends, with its status stored or not.
LEMMA HonourIdle ==
    ASSUME HonourInv, TypeInv', UNCHANGED <<certs, late, secret>>, pc' = "idle", wup' = None,
           \/ up' = up
           \/ up' = wup /\ pc = "update"
    PROVE  HonourInv'
  BY Zenon DEF HonourInv, Renewed, RotatesIn, Seen, InProgress

\* A step of a restart that does not rotate: the phases it moves between are on one
\* side of the swap.
LEMMA HonourRunStep ==
    ASSUME HonourInv, TypeInv', RunStep, ~RotateCerts PROVE HonourInv'
<1> USE DEF spec
<1>t. TypeInv
  BY Zenon DEF HonourInv
<1>1. /\ pc = "upgrade" /\ wup = up /\ UNCHANGED <<certs, late, up, sys, secret>>
      /\ pc' \in {"update", "reset"}
  BY <1>t, RunStepEffect, Zenon DEF TypeInv, RunStep, RotateFails, TimeOut, StopWait, StopDone, AwaitPods,
                             StartWait, StartDone, VerifyWait, VerifyDone, keys
<1>2. wup' # None /\ wup'.trigger = Run.trigger /\ wup'.was = Run.was
  BY <1>t, RunStepEffect, Zenon
<1>3. /\ Starts => Run.was = secret /\ Run.phase = "Stopping" /\ (sys.certs => Run.trigger = "certs")
      /\ ~Starts => Run = up /\ up # None /\ InProgress(up)
  <2>1. Starts /\ sys.certs => Run.trigger = "certs"
    BY Zenon DEF Run, NewRun
  <2> QED BY <1>t, <2>1, RunStepEffect, RunIs, Zenon DEF InProgress
<1>4. wup'.phase \in Swapped => Run.phase \in Swapped
  <2>1. CASE RotateFails
    <3>1. wup'.phase = "Failed"
      BY <1>t, <2>1, Entered, Zenon DEF RotateFails, End, In
    <3> QED BY <3>1, Zenon DEF Swapped
  <2>2. CASE ~RotateFails
    BY <1>t, <2>2, PhaseMoves, Zenon DEF Swapped
  <2> QED BY <2>1, <2>2, Zenon
<1>5. Renewed(wup)'
  <2>1. CASE Starts
    <3>1. Run.was <= secret /\ "Stopping" \notin Swapped
      BY <1>t, <1>3, <2>1 DEF TypeInv, TypeOK, Swapped
    <3> QED BY <1>1, <1>2, <1>3, <1>4, <2>1, <3>1, Zenon DEF Renewed, RotatesIn
  <2>2. CASE ~Starts
    BY <1>1, <1>2, <1>3, <1>4, <2>2, Zenon DEF HonourInv, Renewed, RotatesIn
  <2> QED BY <2>1, <2>2, Zenon
<1>6. ASSUME certs', ~late' PROVE Seen'
  <2>1. Seen /\ sys.certs
    BY <1>1, <1>6, Zenon DEF HonourInv, Seen
  <2> QED BY <1>1, <1>2, <1>3, <2>1, Zenon DEF Seen, InProgress
<1> QED BY <1>1, <1>5, <1>6, Zenon DEF HonourInv, Renewed, RotatesIn

\* HonourInv is kept by every step.
LEMMA HonourStep == HonourInv /\ [Next]_vars => HonourInv'
<1> SUFFICES ASSUME HonourInv, [Next]_vars PROVE HonourInv'
  BY Zenon
<1> USE DEF spec, memory, cluster, keys, jobs, clock, counts
<1>t. TypeInv /\ TypeInv'
  BY TypeStep, Zenon DEF HonourInv
<1>1. CASE BeginPass
  <2>1. /\ pc' = "upgrade" /\ sys'.certs = certs /\ wup' = up /\ UNCHANGED <<certs, late, up, secret>>
    BY <1>1, Zenon DEF BeginPass
  <2> QED BY <1>t, <2>1, Zenon DEF HonourInv, Renewed, RotatesIn, Seen, InProgress
<1>2. CASE UpToDate \/ WaitForApproval
  <2>1. /\ pc = "upgrade" /\ wup = up /\ ~sys.certs /\ pc' = "update" /\ UNCHANGED <<certs, late, up, secret>>
        /\ wup' = up \/ wup' = None \/ wup' = NewRun("image", "Pending")
    BY <1>2, <1>t, Zenon DEF UpToDate, WaitForApproval, TypeInv
  <2>2. secret <= secret /\ "image" # "certs"
    BY <1>t DEF TypeInv, TypeOK
  <2>3. Renewed(up)'
    BY <2>1, Zenon DEF HonourInv, Renewed, RotatesIn
  <2>4. Renewed(wup)'
    <3>1. CASE wup' = up
      BY <2>1, <2>3, <3>1, Zenon DEF Renewed, RotatesIn
    <3>2. CASE wup' = None
      BY <3>2, Zenon DEF Renewed
    <3>3. CASE wup' = NewRun("image", "Pending")
      <4>1. wup'.was = secret /\ wup'.trigger = "image"
        BY <3>3, Zenon DEF NewRun
      <4> QED BY <2>1, <2>2, <4>1, Zenon DEF Renewed, RotatesIn
    <3> QED BY <2>1, <3>1, <3>2, <3>3, Zenon
  <2> QED BY <1>t, <2>1, <2>3, <2>4, Zenon DEF HonourInv, Seen
<1>3. CASE RunStep /\ ~RotateCerts
  BY <1>3, <1>t, HonourRunStep, Zenon
<1>4. CASE RotateCerts
  <2>1. /\ Run.trigger = "certs" /\ secret' = secret + 1 /\ pc' = "pods"
        /\ UNCHANGED <<certs, late, up, sys>> /\ pc = "upgrade" /\ Run.phase = "Updating"
    BY <1>4, Zenon DEF RotateCerts, In
  <2>2. /\ Run = up /\ up # None /\ wup' # None /\ wup'.phase = "Updating"
        /\ wup'.was = Run.was /\ wup'.trigger = "certs"
    BY <1>4, <1>t, <2>1, RunStepEffect, RunIs, Zenon DEF RunStep, InProgress
  <2>3. secret \in Nat /\ up.was \in Nat /\ up.was <= secret
    BY <1>t, <2>2, Zenon DEF TypeInv, TypeOK, Upgrades, HonourInv, Renewed
  <2>4. up.was < secret + 1 /\ up.was <= secret + 1
    BY <2>3
  <2>5. Renewed(up)' /\ Renewed(wup)'
    BY <2>1, <2>2, <2>4, Zenon DEF Renewed, Swapped, RotatesIn
  <2> QED BY <1>t, <2>1, <2>2, <2>4, <2>5, Zenon DEF HonourInv, Seen
<1>5. CASE ReplacePods
  <2>1. /\ wup' # None /\ wup'.trigger = wup.trigger /\ wup'.was = wup.was /\ wup'.phase = "Starting"
        /\ pc' = "update" /\ UNCHANGED <<up, secret, certs, late, sys>>
    <3>1. wup' \in Upgrades
      BY <1>5, <1>t, ReplaceInRun, Zenon DEF ReplacePods, Upgrades, Phases
    <3> QED BY <1>5, <1>t, <3>1, ReplaceInRun, Zenon DEF ReplacePods, Upgrades
  <2>2. /\ wup # None /\ up # None /\ InProgress(up)
        /\ \/ pc = "pods" /\ wup.was < secret /\ wup.trigger = "certs"
           \/ pc = "upgrade" /\ wup = up /\ wup.trigger = "image"
    BY <1>5, <1>t, ReplaceInRun, Zenon DEF HonourInv, TypeInv, InProgress, Phases
  <2>3. Renewed(wup)' /\ Renewed(up)'
    BY <2>1, <2>2, Zenon DEF HonourInv, Renewed, RotatesIn
  <2>4. certs /\ ~late => Seen'
    BY <2>1, <2>2, Zenon DEF HonourInv, Seen, InProgress
  <2> QED BY <1>t, <2>1, <2>3, <2>4, Zenon DEF HonourInv
<1>6. CASE ResetApproval
  <2>1. /\ pc = "reset" /\ pc' = "clear" /\ UNCHANGED <<up, wup, secret, certs, late>>
        /\ sys'.certs = certs \/ sys' = sys
    BY <1>6, Zenon DEF ResetApproval
  <2> QED BY <1>t, <2>1, Zenon DEF HonourInv, Renewed, RotatesIn, Seen, InProgress
<1>7. CASE ClearCertsApproval
  <2>1. /\ pc = "clear" /\ pc' = "update" /\ UNCHANGED <<up, wup, secret, sys>>
        /\ certs' = (certs /\ ~sys.certs) /\ late' = (late /\ certs')
    BY <1>7, Zenon DEF ClearCertsApproval
  <2>2. ~(certs' /\ ~late')
    BY <1>t, <2>1, Zenon DEF HonourInv, Seen
  <2> QED BY <1>t, <2>1, <2>2, Zenon DEF HonourInv, Renewed, RotatesIn
<1>8. CASE UpdateStatus \/ NotReached \/ PassEnds \/ ReplaceSome
  BY <1>8, <1>t, HonourIdle, Zenon DEF UpdateStatus, NotReached, PassEnds, ReplaceSome
<1>9. CASE ApproveCerts
  <2>1. late' = MidRun /\ UNCHANGED <<pc, sys, up, wup, secret>>
    BY <1>9, Zenon DEF ApproveCerts
  <2>2. ~late' => Seen'
    BY <2>1, Zenon DEF MidRun, Seen, InProgress
  <2> QED BY <1>t, <2>1, <2>2, Zenon DEF HonourInv, Renewed, RotatesIn
<1>10. ASSUME NEW i \in Images, Approve(i) \/ EditImage(i) PROVE HonourInv'
  BY <1>10, <1>t, HonourKept, Zenon DEF Approve, EditImage
<1>11. CASE Withdraw \/ StartByHand \/ Tick \/ JobsRemoved \/ JobsExpire
  BY <1>11, <1>t, HonourKept, Zenon DEF Withdraw, StartByHand, Tick, JobsRemoved, JobsExpire
<1>12. ASSUME NEW n \in Nodes, PodRecreated(n) \/ PodReady(n) \/ EngineDies(n) PROVE HonourInv'
  BY <1>12, <1>t, HonourKept, Zenon DEF PodRecreated, PodReady, EngineDies
<1>13. ASSUME NEW out \in Outs, StopFinishes(out) \/ StartFinishes(out) \/ VerifyFinishes(out)
       PROVE  HonourInv'
  BY <1>13, <1>t, HonourKept, Zenon DEF StopFinishes, StartFinishes, VerifyFinishes
<1>14. CASE UNCHANGED vars
  BY <1>14, <1>t, HonourKept, Zenon DEF vars
<1> QED
  BY <1>1, <1>2, <1>3, <1>4, <1>5, <1>6, <1>7, <1>8, <1>9, <1>10, <1>11, <1>12, <1>13, <1>14, Zenon
     DEF Next, Operator, ReconcileUpgrade, RunStep, Human, Environment, JobsFinish

\* clearCertsApproval: an approval of a rotation that was given between restarts is
\* taken away only by a rotation, and by a Completed one only with new certificates
\* in place, for any number of approvals of both kinds, withdrawals and faults.
THEOREM ApprovalsAreHonoured == Spec => ApprovalHonoured
<1>1. Init => HonourInv
  BY InitType, Zenon DEF Init, HonourInv, Renewed, Seen, InProgress
<1>2. HonourInv /\ [Next]_vars =>
        [ pc = "clear" /\ pc' = "update" /\ certs /\ ~certs' /\ ~late
            => /\ wup.trigger = "certs"
               /\ wup.phase = "Completed" => wup.was < secret ]_vars
  <2> SUFFICES ASSUME HonourInv, pc = "clear", certs, ~late
               PROVE  wup.trigger = "certs" /\ (wup.phase = "Completed" => wup.was < secret)
    BY Zenon
  <2>1. Seen /\ Renewed(wup)
    BY Zenon DEF HonourInv
  <2> QED BY <2>1, Zenon DEF Seen, Renewed, RotatesIn, Swapped
<1> QED BY <1>1, <1>2, HonourStep, PTL DEF Spec, ApprovalHonoured

-----------------------------------------------------------------------------
(***************************************************************************)
(* Certificates and pods are swapped while the engines are down.  Cur is   *)
(* the restart the operator is in.  When nothing was cut short, meddled    *)
(* with or partial, a Job of the restart exists only in its phase, a pod   *)
(* is away only in Starting, and from the answer of dmg system stop to the *)
(* end of Updating no engine runs.                                         *)
(***************************************************************************)
Calm == ~meddled /\ ~partial /\ faults = 0

Busy(job) == job.phase \in {"running", "finished"}

InPhase(u, phase) == u # None /\ u.phase = phase

Cur == IF pc \in {"idle", "upgrade"} THEN up ELSE wup

Down == \A n \in Nodes : engine[n] # "up"

OnlyInPhase ==
    /\ Busy(stop) => InPhase(Cur, "Stopping")
    /\ Busy(start) => InPhase(Cur, "StartingSystem")
    /\ \A n \in Nodes : pod[n].st # "ready" => InPhase(Cur, "Starting")

DownInUpdating ==
    /\ Done(stop) /\ stop.out = "ok" => Down
    /\ InPhase(Cur, "Updating") => Down

SwapInv == TypeInv /\ (Calm => OnlyInPhase /\ DownInUpdating)

\* What was cut short, meddled with or partial stays so.
LEMMA CalmBefore ==
    ASSUME TypeInv, [Next]_vars
    PROVE  (~meddled' => ~meddled) /\ (~partial' => ~partial) /\ (faults' = 0 => faults = 0)
<1> USE DEF spec, memory, cluster, keys, jobs, clock, counts
<1>f. faults \in Nat
  BY DEF TypeInv, TypeOK
<1>1. CASE RunStep
  <2>1. ~meddled' => ~meddled
    BY <1>1, Zenon DEF RunStep, TimeOut, StopWait, StopDone, RotateCerts, RotateFails, AwaitPods,
                StartWait, StartDone, VerifyWait, VerifyDone
  <2> QED BY <1>1, <1>f, <2>1, RunStepEffect
<1>2. CASE \/ BeginPass \/ UpToDate \/ WaitForApproval \/ ReplacePods \/ ResetApproval
           \/ ClearCertsApproval \/ UpdateStatus \/ NotReached \/ PassEnds \/ ReplaceSome
  BY <1>2, <1>f DEF BeginPass, UpToDate, WaitForApproval, ReplacePods, ResetApproval,
              ClearCertsApproval, UpdateStatus, NotReached, PassEnds, ReplaceSome
<1>3. CASE Human
  <2>1. ~meddled' => ~meddled
    BY <1>3, Zenon DEF Human, Approve, EditImage, ApproveCerts, Withdraw, StartByHand
  <2>2. UNCHANGED <<partial, faults>>
    BY <1>3, Zenon DEF Human, Approve, EditImage, ApproveCerts, Withdraw, StartByHand
  <2> QED BY <2>1, <2>2, Zenon
<1>4. CASE Tick \/ JobsRemoved \/ JobsExpire
  BY <1>4, <1>f DEF Tick, JobsRemoved, JobsExpire
<1>5. ASSUME NEW n \in Nodes, PodRecreated(n) \/ PodReady(n) \/ EngineDies(n)
      PROVE  UNCHANGED <<meddled, partial, faults>>
  BY <1>5, Zenon DEF PodRecreated, PodReady, EngineDies
<1>6. ASSUME NEW out \in Outs, StartFinishes(out) \/ VerifyFinishes(out)
      PROVE  UNCHANGED <<meddled, partial, faults>>
  BY <1>6, Zenon DEF StartFinishes, VerifyFinishes
<1>7. ASSUME NEW out \in Outs, StopFinishes(out)
      PROVE  UNCHANGED <<meddled, faults>> /\ (~partial' => ~partial)
  BY <1>7, Zenon DEF StopFinishes
<1>8. CASE UNCHANGED vars
  BY <1>8, Zenon DEF vars
<1> QED BY <1>1, <1>2, <1>3, <1>4, <1>5, <1>6, <1>7, <1>8, Zenon
        DEF Next, Operator, ReconcileUpgrade, RunStep, Environment, JobsFinish

\* A step that leaves the restart, the pods and the engines alone and starts no Job.
LEMMA SwapKept ==
    ASSUME OnlyInPhase, DownInUpdating, Cur' = Cur, UNCHANGED <<pod, engine>>,
           stop' = stop \/ ~Busy(stop'), start' = start \/ ~Busy(start')
    PROVE  OnlyInPhase' /\ DownInUpdating'
  BY Zenon DEF OnlyInPhase, DownInUpdating, Busy, InPhase, Down, Done

\* Between restarts no Job of theirs exists and every pod is ready.
LEMMA NothingBetweenRestarts ==
    ASSUME OnlyInPhase, ~InProgress(Cur)
    PROVE  ~Busy(stop) /\ ~Busy(start) /\ \A n \in Nodes : pod[n].st = "ready"
  BY Zenon DEF OnlyInPhase, InPhase, InProgress, Phases

\* The steps of a restart keep its Jobs, pods and engines in their phases.
LEMMA SwapRunStep ==
    ASSUME TypeInv, OnlyInPhase, DownInUpdating, RunStep, ~meddled', faults' = faults
    PROVE  OnlyInPhase' /\ DownInUpdating'
<1> USE DEF jobs
<1>1. /\ pc = "upgrade" /\ wup = up /\ Cur = up /\ Cur' = wup' /\ wup' # None
      /\ UNCHANGED <<pod, engine>>
  BY RunStepEffect, Zenon DEF TypeInv, Cur, cluster
<1>2. /\ Starts => Run.phase = "Stopping" /\ ~InProgress(Cur)
      /\ ~Starts => Run = Cur /\ Cur # None
  BY RunStepEffect, RunIs, <1>1, Zenon DEF InProgress, Starts
<1>3. CASE Run.phase = "Stopping"
  <2>1. ~Busy(start) /\ \A n \in Nodes : pod[n].st = "ready"
    BY <1>2, <1>3, NothingBetweenRestarts, Zenon DEF OnlyInPhase, InPhase
  <2>2. CASE StopWait
    <3>1. start' = start /\ wup'.phase = "Stopping" /\ ~Done(stop')
      BY <2>2, Entered, Zenon DEF StopWait, Go, In, AfterRun, Running, Done, Phases
    <3> QED BY <1>1, <2>1, <3>1, Zenon DEF OnlyInPhase, DownInUpdating, InPhase
  <2>3. CASE StopDone
    <3>1. ~Starts
      BY <1>2, <2>3, NothingBetweenRestarts, Zenon DEF StopDone, Busy, Done
    <3>2. start' = start /\ stop' = Deleting
      BY <2>3, Zenon DEF StopDone, AfterRun, Done
    <3>3. \/ stop.out = "ok" /\ wup'.phase = "Updating"
          \/ wup'.phase = "Failed"
      BY <2>3, Entered, Zenon DEF StopDone, Go, End, In, Phases
    <3>4. stop.out = "ok" => Down
      BY <2>3, Zenon DEF StopDone, DownInUpdating
    <3> QED BY <1>1, <2>1, <3>2, <3>3, <3>4, Zenon
            DEF OnlyInPhase, DownInUpdating, InPhase, Busy, Deleting, Done, Down
  <2> QED BY <1>3, <2>2, <2>3, Zenon
          DEF RunStep, TimeOut, RotateCerts, RotateFails, AwaitPods, StartWait, StartDone,
              VerifyWait, VerifyDone, In
<1>4. CASE Run.phase # "Stopping"
  <2>1. ~Starts /\ Run = Cur /\ Cur # None /\ ~Busy(stop) /\ stop' = stop
    BY <1>2, <1>4, Zenon DEF RunStep, TimeOut, StopWait, StopDone, RotateCerts, RotateFails, AwaitPods,
       StartWait, StartDone, VerifyWait, VerifyDone, In, OnlyInPhase, InPhase
  <2>2. CASE RotateCerts
    <3>1. wup'.phase = "Updating" /\ start' = start /\ Run.phase = "Updating"
      BY <2>2, Entered, Zenon DEF RotateCerts, In, Phases
    <3> QED BY <1>1, <2>1, <3>1, Zenon DEF OnlyInPhase, DownInUpdating, InPhase, Busy, Down, Done
  <2>3. CASE AwaitPods
    <3>1. /\ wup'.phase = IF PodsReady THEN "StartingSystem" ELSE "Starting"
          /\ start' = start /\ Run.phase = "Starting"
      BY <2>3, Entered, Zenon DEF AwaitPods, Go, In, Phases
    <3> QED BY <1>1, <2>1, <3>1, Zenon DEF OnlyInPhase, DownInUpdating, InPhase, Busy, Done, PodsReady
  <2>4. CASE StartWait
    <3>1. wup'.phase = "StartingSystem" /\ Run.phase = "StartingSystem"
      BY <2>4, Entered, Zenon DEF StartWait, Go, In, Phases
    <3> QED BY <1>1, <2>1, <3>1, Zenon DEF OnlyInPhase, DownInUpdating, InPhase, Busy, Done
  <2>5. CASE StartDone
    <3>1. /\ wup'.phase \in {"Verifying", "Failed"} /\ Run.phase = "StartingSystem"
          /\ start' = Deleting
      BY <2>5, Entered, Zenon DEF StartDone, Go, End, In, Phases, AfterRun, Done
    <3> QED BY <1>1, <2>1, <3>1, Zenon DEF OnlyInPhase, DownInUpdating, InPhase, Busy, Done, Deleting
  <2>6. CASE VerifyWait \/ VerifyDone
    <3>1. Run.phase = "Verifying" /\ start' = start
      BY <2>6, Zenon DEF VerifyWait, VerifyDone, In
    <3>2. CASE VerifyWait
      BY <3>2, <1>1, <2>1, <3>1, Entered, Zenon
         DEF VerifyWait, Go, In, Phases, OnlyInPhase, DownInUpdating, InPhase, Busy, Done
    <3>3. CASE VerifyDone
      BY <3>3, <1>1, <2>1, <3>1, Entered
         DEF VerifyDone, End, In, Phases, OnlyInPhase, DownInUpdating, InPhase, Busy, Done
    <3> QED BY <2>6, <3>2, <3>3, Zenon
  <2>7. ~TimeOut /\ ~RotateFails
    <3>1. faults \in Nat
      BY DEF TypeInv, TypeOK
    <3> QED BY <3>1 DEF TimeOut, RotateFails
  <2> QED BY <1>4, <2>2, <2>3, <2>4, <2>5, <2>6, <2>7, Zenon DEF RunStep, StopWait, StopDone, In
<1> QED BY <1>3, <1>4, Zenon

\* Deleting pods takes a restart from Updating to Starting.
LEMMA SwapReplace ==
    ASSUME TypeInv, OnlyInPhase, DownInUpdating, ReplacePods
    PROVE  OnlyInPhase' /\ DownInUpdating'
<1> USE DEF jobs
<1>1. Cur = wup /\ InPhase(Cur, "Updating")
  BY ReplaceInRun, Zenon DEF Cur, InPhase, TypeInv, TypeOK, NoneIsNoUpgrade
<1>2. ~Busy(stop) /\ ~Busy(start)
  BY <1>1, Zenon DEF OnlyInPhase, InPhase
<1>3. Cur' = wup' /\ wup' \in Upgrades /\ wup'.phase = "Starting" /\ UNCHANGED <<stop, start>>
  BY ReplaceInRun, Zenon DEF ReplacePods, Cur, Upgrades, Phases
<1>4. InPhase(wup', "Starting")
  BY <1>3, Zenon DEF InPhase
<1> QED BY <1>2, <1>3, <1>4, Zenon DEF OnlyInPhase, DownInUpdating, InPhase, Busy, Done

\* The steps of humans, of Kubernetes and of DAOS.
LEMMA SwapOutside ==
    ASSUME TypeInv, OnlyInPhase, DownInUpdating, ~meddled', ~partial', faults' = faults,
           Human \/ Environment
    PROVE  OnlyInPhase' /\ DownInUpdating'
<1> USE DEF memory, jobs, cluster, counts
<1>c. (UNCHANGED <<pc, up, wup>>) => Cur' = Cur
  BY Zenon DEF Cur
<1>1. CASE StartByHand
  <2>1. pc = "idle" /\ ~InProgress(Cur)
    BY <1>1, Zenon DEF StartByHand, MidRun, Cur
  <2>2. ~InPhase(Cur, "Updating") /\ Cur' = Cur
    BY <1>1, <1>c, <2>1, Zenon DEF StartByHand, InPhase, InProgress, Phases
  <2> QED BY <1>1, <2>1, <2>2, NothingBetweenRestarts, Zenon
          DEF StartByHand, OnlyInPhase, DownInUpdating, Busy, Done
<1>2. CASE Human /\ ~StartByHand
  BY <1>2, <1>c, SwapKept, Zenon DEF Human, Approve, EditImage, ApproveCerts, Withdraw
<1>3. CASE Tick
  BY <1>3, <1>c, SwapKept, Zenon DEF Tick
<1>4. CASE JobsRemoved
  <2>1. (stop' = stop \/ ~Busy(stop')) /\ (start' = start \/ ~Busy(start'))
    BY <1>4, Zenon DEF JobsRemoved, NoJob, Busy
  <2> QED BY <1>4, <1>c, <2>1, SwapKept, Zenon DEF JobsRemoved
<1>5. ~JobsExpire
  BY DEF JobsExpire, TypeInv, TypeOK
<1>6. ASSUME NEW n \in Nodes, PodRecreated(n) \/ PodReady(n)
      PROVE  OnlyInPhase' /\ DownInUpdating'
  <2>1. Cur' = Cur /\ UNCHANGED <<stop, start>> /\ pod[n].st # "ready"
    BY <1>6, <1>c, Zenon DEF PodRecreated, PodReady
  <2>2. InPhase(Cur, "Starting") /\ ~Busy(stop) /\ ~Busy(start)
    BY <2>1, Zenon DEF OnlyInPhase, InPhase
  <2> QED BY <2>1, <2>2, Zenon DEF OnlyInPhase, DownInUpdating, InPhase, Busy, Done
<1>7. ASSUME NEW out \in Outs, StopFinishes(out)
      PROVE  OnlyInPhase' /\ DownInUpdating'
  <2>1. Cur' = Cur /\ UNCHANGED <<pod, start>> /\ Busy(stop)
    BY <1>7, <1>c, Zenon DEF StopFinishes, Busy
  <2>2. InPhase(Cur, "Stopping")
    BY <2>1, Zenon DEF OnlyInPhase
  <2>3. stop'.out = out
    BY <1>7, FinishedType DEF StopFinishes, TypeInv, TypeOK
  <2>4. out = "ok" => Down'
    BY <1>7, Zenon DEF StopFinishes, Down
  <2> QED BY <2>1, <2>2, <2>3, <2>4, Zenon DEF OnlyInPhase, DownInUpdating, InPhase
<1>8. ASSUME NEW out \in Outs, StartFinishes(out)
      PROVE  OnlyInPhase' /\ DownInUpdating'
  <2>1. Cur' = Cur /\ UNCHANGED <<pod, stop>> /\ Busy(start)
    BY <1>8, <1>c, Zenon DEF StartFinishes, Busy
  <2>2. InPhase(Cur, "StartingSystem") /\ ~Busy(stop)
    BY <2>1, Zenon DEF OnlyInPhase, InPhase
  <2> QED BY <2>1, <2>2, Zenon DEF OnlyInPhase, DownInUpdating, InPhase, Busy, Done
<1>9. ASSUME NEW out \in Outs, VerifyFinishes(out)
      PROVE  OnlyInPhase' /\ DownInUpdating'
  BY <1>9, <1>c, SwapKept, Zenon DEF VerifyFinishes
<1>10. ASSUME NEW n \in Nodes, EngineDies(n)
       PROVE  OnlyInPhase' /\ DownInUpdating'
  <2>1. Cur' = Cur /\ UNCHANGED <<pod, stop, start>>
    BY <1>10, <1>c, Zenon DEF EngineDies
  <2>2. Down => Down'
    BY <1>10, Zenon DEF EngineDies, Down
  <2> QED BY <2>1, <2>2, Zenon DEF OnlyInPhase, DownInUpdating, InPhase, Busy, Done
<1> QED BY <1>1, <1>2, <1>3, <1>4, <1>5, <1>6, <1>7, <1>8, <1>9, <1>10, Zenon DEF Environment, JobsFinish

\* Every step keeps the Jobs, pods and engines of a restart in their phases.
LEMMA SwapStep == SwapInv /\ [Next]_vars => SwapInv'
<1> SUFFICES ASSUME SwapInv, [Next]_vars PROVE SwapInv'
  BY Zenon
<1>t. TypeInv /\ TypeInv'
  BY TypeStep, Zenon DEF SwapInv
<1> SUFFICES ASSUME Calm' PROVE OnlyInPhase' /\ DownInUpdating'
  BY <1>t, Zenon DEF SwapInv
<1>c. /\ OnlyInPhase /\ DownInUpdating /\ faults \in Nat /\ faults' = faults
      /\ ~meddled' /\ ~partial'
  BY <1>t, CalmBefore DEF SwapInv, Calm, TypeInv, TypeOK
<1> USE DEF memory, jobs, cluster, counts
<1>1. CASE BeginPass
  <2>1. Cur' = Cur
    BY <1>1, Zenon DEF BeginPass, Cur
  <2> QED BY <1>1, <1>c, <2>1, SwapKept, Zenon DEF BeginPass
<1>2. CASE UpToDate \/ WaitForApproval
  <2>1. ~InProgress(Cur) /\ Cur' = wup' /\ UNCHANGED <<pod, engine, stop, start>>
    BY <1>2, <1>t, Zenon DEF UpToDate, WaitForApproval, Cur, TypeInv
  <2>2. ~Busy(stop) /\ ~Busy(start) /\ \A n \in Nodes : pod[n].st = "ready"
    BY <1>c, <2>1, NothingBetweenRestarts, Zenon
  <2>3. ~InPhase(wup', "Updating")
    BY <1>2 DEF UpToDate, WaitForApproval, NewRun, InPhase, InProgress, Phases
  <2> QED BY <2>1, <2>2, <2>3, Zenon DEF OnlyInPhase, DownInUpdating, Busy, Done
<1>3. CASE RunStep
  BY <1>3, <1>c, <1>t, SwapRunStep, Zenon
<1>4. CASE ReplacePods
  BY <1>4, <1>c, <1>t, SwapReplace, Zenon
<1>5. CASE ResetApproval \/ ClearCertsApproval \/ UpdateStatus \/ NotReached
  <2>1. Cur' = Cur
    BY <1>5, Zenon DEF ResetApproval, ClearCertsApproval, UpdateStatus, NotReached, Cur
  <2> QED BY <1>5, <1>c, <2>1, SwapKept, Zenon
          DEF ResetApproval, ClearCertsApproval, UpdateStatus, NotReached
<1>6. ~PassEnds /\ ~ReplaceSome
  BY <1>c DEF PassEnds, ReplaceSome
<1>7. CASE Human \/ Environment
  BY <1>7, <1>c, <1>t, SwapOutside, Zenon
<1>8. CASE UNCHANGED vars
  <2>1. Cur' = Cur
    BY <1>8, Zenon DEF vars, Cur
  <2> QED BY <1>8, <1>c, <2>1, SwapKept, Zenon DEF vars
<1> QED BY <1>1, <1>2, <1>3, <1>4, <1>5, <1>6, <1>7, <1>8, Zenon
        DEF Next, Operator, ReconcileUpgrade, RunStep

\* The certificates are swapped by RotateCerts and pods deleted by ReplacePods only,
\* and both find the restart in Updating.
LEMMA SwapsInUpdating ==
    ASSUME SwapInv, [Next]_vars, Calm, faults' = 0,
           secret' # secret \/ \E n \in Nodes : BeingDeleted(n)
    PROVE  Down
<1> USE DEF cluster, keys
<1>t. TypeInv /\ OnlyInPhase /\ DownInUpdating /\ faults = 0
  BY Zenon DEF SwapInv, Calm
<1>1. CASE ReplacePods
  <2>1. Cur = wup /\ InPhase(Cur, "Updating")
    BY <1>1, <1>t, ReplaceInRun, Zenon DEF Cur, InPhase, TypeInv, TypeOK, NoneIsNoUpgrade
  <2> QED BY <1>t, <2>1, Zenon DEF DownInUpdating
<1>2. CASE RotateCerts
  <2>1. RunStep
    BY <1>2, Zenon DEF RunStep
  <2>2. InPhase(Cur, "Updating")
    BY <1>2, <1>t, <2>1, RunStepEffect, RunIs, Zenon
       DEF RotateCerts, In, Cur, InPhase, TypeInv, InProgress
  <2> QED BY <1>t, <2>2, Zenon DEF DownInUpdating
<1>3. ~ReplaceSome /\ ~RotateFails
  BY <1>t DEF ReplaceSome, RotateFails
<1>4. CASE RunStep /\ ~RotateCerts
  BY <1>3, <1>4, <1>t, PhaseMoves, RunStepEffect, Zenon DEF BeingDeleted
<1>5. ASSUME NEW n \in Nodes, PodRecreated(n) \/ PodReady(n)
      PROVE  FALSE
  <2>1. pod \in [Nodes -> Pods]
    BY <1>t, Zenon DEF TypeInv, TypeOK
  <2>2. \A m \in Nodes : pod'[m].st = "terminating" => pod[m].st = "terminating"
    BY <1>5, <2>1, Zenon DEF PodRecreated, PodReady, Pods
  <2> QED BY <1>5, <2>2, Zenon DEF PodRecreated, PodReady, BeingDeleted
<1>6. CASE Human
  BY <1>6, Zenon DEF Human, Approve, EditImage, ApproveCerts, Withdraw, StartByHand, BeingDeleted
<1>7. CASE Tick \/ JobsFinish \/ JobsRemoved \/ JobsExpire
  BY <1>7, Zenon DEF Tick, JobsFinish, StopFinishes, StartFinishes, VerifyFinishes, JobsRemoved,
              JobsExpire, BeingDeleted
<1>8. CASE \/ BeginPass \/ UpToDate \/ WaitForApproval \/ ResetApproval \/ ClearCertsApproval
           \/ UpdateStatus \/ NotReached \/ PassEnds
  BY <1>8, Zenon DEF BeginPass, UpToDate, WaitForApproval, ResetApproval, ClearCertsApproval,
              UpdateStatus, NotReached, PassEnds, BeingDeleted
<1>9. CASE (\E n \in Nodes : EngineDies(n)) \/ UNCHANGED vars
  BY <1>9, Zenon DEF EngineDies, vars, BeingDeleted
<1> QED BY <1>1, <1>2, <1>3, <1>4, <1>5, <1>6, <1>7, <1>8, <1>9, Zenon
        DEF Next, Operator, ReconcileUpgrade, RunStep, Environment

\* Updating (daossystem_upgrade.go:163-164, 233): for any number of nodes, restarts and
\* edits, the Secret is swapped and server pods are deleted only while every engine
\* is down, unless a pass was cut short, somebody meddled or a stop was partial.
THEOREM SwapsWhileDown == Spec => SwapWhileDown
<1>1. Init => SwapInv
  <2> SUFFICES ASSUME Init PROVE SwapInv
    BY Zenon
  <2>1. TypeInv
    BY InitType, Zenon
  <2>2. ~Busy(stop) /\ ~Busy(start) /\ ~Done(stop) /\ Cur = None
    BY Zenon DEF Init, NoJob, Busy, Done, Cur
  <2>3. \A n \in Nodes : pod[n].st = "ready"
    BY Zenon DEF Init
  <2> QED BY <2>1, <2>2, <2>3, Zenon DEF SwapInv, OnlyInPhase, DownInUpdating, InPhase
<1>2. SwapInv /\ [Next]_vars =>
        [ ~meddled /\ ~partial /\ faults' = 0
            /\ (secret' # secret \/ \E n \in Nodes : BeingDeleted(n))
              => \A n \in Nodes : engine[n] # "up" ]_vars
  <2> SUFFICES ASSUME SwapInv, [Next]_vars, ~meddled, ~partial, faults' = 0,
                      secret' # secret \/ \E n \in Nodes : BeingDeleted(n)
               PROVE  \A n \in Nodes : engine[n] # "up"
    BY Zenon
  <2>1. Calm
    BY CalmBefore, Zenon DEF Calm, SwapInv
  <2> QED BY <2>1, SwapsInUpdating, Zenon DEF Down
<1> QED BY <1>1, <1>2, SwapStep, PTL DEF Spec, SwapWhileDown

-----------------------------------------------------------------------------
(***************************************************************************)
(* A restart that is reported Completed leaves no listed engine stopped.   *)
(* Fits says what a restart in a late phase may rely on: the image asked   *)
(* for is its own, no stop Job is left that could take engines down again, *)
(* and past the swap the pods are new.  Rejoined is what the member list   *)
(* of Verifying shows; deaths and starts of engines do not take it away.   *)
(***************************************************************************)
Fresh(n) == pod[n].st = "terminating" \/ pod[n].bundle = secret

PastSwap == {"Starting", "StartingSystem", "Verifying"}

Fits(u) ==
    /\ InProgress(u) => u.to = image
    /\ u # None /\ u.phase \in PastSwap \cup {"Updating"} => ~Busy(stop)
    /\ u # None /\ u.phase \in PastSwap /\ u.trigger = "certs" => \A n \in Nodes : Fresh(n)
    /\ u # None /\ u.phase \in {"StartingSystem", "Verifying"} =>
         \A n \in Nodes : pod[n].st = "ready" /\ pod[n].img = u.to

Rejoined == Listed # {} /\ \A n \in Listed : engine[n] # "stopped"

Verified ==
    /\ Busy(verify) => InPhase(up, "Verifying") /\ (pc # "idle" => InPhase(wup, "Verifying"))
    /\ Done(verify) /\ verify.out = "joined" => Rejoined

Unmeddled ==
    /\ pc # "idle" => sys.image = image /\ Fits(wup)
    /\ Fits(up)
    /\ Verified

BundleInv == faults = 0 /\ pc # "pods" => \A n \in Nodes : Fresh(n)

JoinInv == TypeInv /\ BundleInv /\ (~meddled => Unmeddled)

\* No engine is stopped or leaves the member list.
LEMMA RejoinedKept ==
    ASSUME Rejoined, \A n \in Nodes : engine'[n] = engine[n] \/ engine'[n] \in {"up", "dead"}
    PROVE  Rejoined'
  BY Zenon DEF Rejoined, Listed

\* A step that leaves everything Fits is about alone.
LEMMA FitsKept ==
    ASSUME NEW u, Fits(u), UNCHANGED <<image, pod, secret>>, stop' = stop \/ ~Busy(stop')
    PROVE  Fits(u)'
  BY Zenon DEF Fits, InProgress, Busy, Fresh

\* The copies of the certificates in the pods, while no pass was cut short.
LEMMA BundleStep == TypeInv /\ BundleInv /\ [Next]_vars => BundleInv'
<1> SUFFICES ASSUME TypeInv, BundleInv, [Next]_vars, faults' = 0, pc' # "pods"
             PROVE  \A n \in Nodes : Fresh(n)'
  BY Zenon DEF BundleInv
<1>t. faults = 0 /\ faults \in Nat /\ pod \in [Nodes -> Pods]
  BY CalmBefore DEF TypeInv, TypeOK
<1> USE DEF keys, cluster, memory
<1>1. ASSUME UNCHANGED <<pod, secret>>, pc # "pods"
      PROVE  \A n \in Nodes : Fresh(n)'
  BY <1>1, <1>t, Zenon DEF BundleInv, Fresh
<1>2. CASE RunStep
  <2>1. ~RotateFails
    BY <1>t DEF RotateFails
  <2>2. ~RotateCerts
    BY Zenon DEF RotateCerts
  <2> QED BY <1>1, <1>2, <2>1, <2>2, RunStepEffect, PhaseMoves, Zenon
<1>3. CASE ReplacePods
  <2>1. /\ pod' = Deleted(ToReplace) /\ secret' = secret /\ pc \in {"upgrade", "pods"}
        /\ pc = "pods" => wup.trigger = "certs"
    BY <1>3, ReplaceInRun, Zenon DEF ReplacePods, TypeInv
  <2>2. ASSUME NEW n \in Nodes PROVE Fresh(n)'
    <3>1. pod'[n] = pod[n] \/ pod'[n].st = "terminating"
      BY <1>t, <2>1, Zenon DEF Deleted, Pods
    <3>2. pc = "pods" => pod'[n].st = "terminating"
      BY <1>t, <2>1, Zenon DEF Deleted, ToReplace, Pods
    <3> QED BY <1>t, <2>1, <3>1, <3>2, Zenon DEF Fresh, BundleInv
  <2> QED BY <2>2, Zenon
<1>4. ASSUME NEW m \in Nodes, PodRecreated(m) PROVE \A n \in Nodes : Fresh(n)'
  <2>1. /\ secret' = secret /\ pc # "pods"
        /\ \A n \in Nodes : pod'[n] = IF n = m THEN [img |-> template, st |-> "starting", bundle |-> secret]
                                      ELSE pod[n]
    BY <1>t, <1>4, Zenon DEF PodRecreated
  <2> QED BY <1>t, <2>1 DEF BundleInv, Fresh
<1>5. ASSUME NEW m \in Nodes, PodReady(m) PROVE \A n \in Nodes : Fresh(n)'
  <2>1. /\ secret' = secret /\ pc # "pods" /\ pod[m].st = "starting"
        /\ \A n \in Nodes : n # m => pod'[n] = pod[n]
        /\ pod'[m].bundle = pod[m].bundle
    BY <1>t, <1>5, Zenon DEF PodReady, Pods
  <2> QED BY <1>t, <2>1, Zenon DEF BundleInv, Fresh
<1>6. ~ReplaceSome /\ ~PassEnds
  BY <1>t DEF ReplaceSome, PassEnds
<1>7. CASE Human
  BY <1>1, <1>7, Zenon DEF Human, Approve, EditImage, ApproveCerts, Withdraw, StartByHand
<1>8. CASE Tick \/ JobsFinish \/ JobsRemoved \/ JobsExpire
  BY <1>1, <1>8, Zenon DEF Tick, JobsFinish, StopFinishes, StartFinishes, VerifyFinishes,
                    JobsRemoved, JobsExpire
<1>9. CASE \/ BeginPass \/ UpToDate \/ WaitForApproval \/ ResetApproval \/ ClearCertsApproval
           \/ UpdateStatus \/ NotReached
  BY <1>1, <1>9, Zenon DEF BeginPass, UpToDate, WaitForApproval, ResetApproval, ClearCertsApproval,
                    UpdateStatus, NotReached
<1>10. CASE (\E n \in Nodes : EngineDies(n)) \/ UNCHANGED vars
  BY <1>1, <1>10, Zenon DEF EngineDies, vars
<1> QED BY <1>2, <1>3, <1>4, <1>5, <1>6, <1>7, <1>8, <1>9, <1>10, Zenon
        DEF Next, Operator, ReconcileUpgrade, RunStep, Environment

\* The steps of a restart.
LEMMA JoinRunStep ==
    ASSUME TypeInv, Unmeddled, RunStep, ~meddled'
    PROVE  Unmeddled'
<1> USE DEF jobs, keys, cluster, spec
<1>1. /\ pc = "upgrade" /\ pc' # "idle" /\ wup = up /\ up' = up /\ wup' # None
      /\ sys' = sys /\ UNCHANGED <<pod, engine, image>>
      /\ wup'.to = Run.to /\ wup'.trigger = Run.trigger /\ sys.image = image /\ Fits(up)
  BY RunStepEffect, Zenon DEF TypeInv, Unmeddled
<1>2. /\ Starts => Run.phase = "Stopping" /\ Run.to = image /\ ~InProgress(up)
      /\ ~Starts => Run = up /\ InProgress(up) /\ up # None /\ up.to = image
  BY RunStepEffect, RunIs, <1>1, Zenon DEF InProgress, Starts, Fits
<1>v. Busy(verify) => InPhase(up, "Verifying") /\ ~Starts
  BY <1>1, <1>2, Zenon DEF Unmeddled, Verified, InPhase, InProgress, Phases
<1>3. CASE Run.phase = "Stopping"
  <2>1. ~Busy(verify) /\ (up # None => up.phase \notin PastSwap \cup {"Updating"})
    BY <1>2, <1>3, <1>v, Zenon DEF InPhase, PastSwap, InProgress, Phases
  <2>2. /\ UNCHANGED <<secret, verify>> /\ wup'.phase \in {"Stopping", "Updating", "Failed"}
        /\ wup'.phase = "Updating" => ~Busy(stop')
    <3>1. CASE StopWait
      BY <3>1, Entered, Zenon DEF StopWait, Go, In, Phases
    <3>2. CASE StopDone
      BY <3>2, Entered, Zenon DEF StopDone, Go, End, In, Phases, AfterRun, Done, Busy, Deleting
    <3> QED BY <1>3, <3>1, <3>2, Zenon
            DEF RunStep, TimeOut, RotateCerts, RotateFails, AwaitPods, StartWait, StartDone,
                VerifyWait, VerifyDone, In
  <2>3. Fits(up)'
    BY <1>1, <2>1, Zenon DEF Fits, InProgress, PastSwap
  <2>4. Fits(wup)'
    BY <1>1, <1>2, <2>2, Zenon DEF Fits, PastSwap
  <2>5. Verified'
    BY <2>1, <2>2, Zenon DEF Verified, Busy, Done
  <2> QED BY <1>1, <2>3, <2>4, <2>5, Zenon DEF Unmeddled
<1>4. CASE Run.phase # "Stopping"
  <2>1. ~Starts /\ Run = up /\ up # None /\ up.to = image /\ InProgress(up)
    BY <1>2, <1>4, Zenon
  <2>2. stop' = stop
    BY <1>4, Zenon DEF RunStep, TimeOut, StopWait, StopDone, RotateCerts, RotateFails, AwaitPods,
       StartWait, StartDone, VerifyWait, VerifyDone, In
  <2>3. CASE RotateCerts \/ RotateFails
    <3>1. Run.phase = "Updating" /\ verify' = verify
      BY <2>3, Zenon DEF RotateCerts, RotateFails, In
    <3>2. wup'.phase \in {"Updating", "Failed"}
      <4>1. CASE RotateCerts
        BY <4>1, Entered, Zenon DEF RotateCerts, In, Phases
      <4>2. CASE RotateFails
        BY <4>2, Entered, Zenon DEF RotateFails, End, In, Phases
      <4> QED BY <2>3, <4>1, <4>2, Zenon
    <3>3. Fits(up)' /\ Fits(wup)'
      BY <1>1, <2>1, <2>2, <3>1, <3>2, Zenon DEF Fits, PastSwap, InProgress, Phases, Busy
    <3>4. Verified'
      BY <1>v, <2>1, <3>1, Zenon DEF Verified, Busy, Done, InPhase
    <3> QED BY <1>1, <3>3, <3>4, Zenon DEF Unmeddled
  <2>4. CASE ~RotateCerts /\ ~RotateFails
    <3>1. /\ secret' = secret
          /\ \/ wup'.phase = "Failed"
             \/ Run.phase = "Starting" /\ wup'.phase = "Starting"
             \/ Run.phase = "Starting" /\ wup'.phase = "StartingSystem" /\ PodsReady
             \/ Run.phase = "StartingSystem" /\ wup'.phase \in {"StartingSystem", "Verifying"}
             \/ Run.phase = "Verifying" /\ wup'.phase \in {"Verifying", "Completed"}
      <4>1. AwaitPods => wup'.phase = IF PodsReady THEN "StartingSystem" ELSE "Starting"
        BY Entered, Zenon DEF AwaitPods, Go, In, Phases
      <4>2. Run.phase = "Starting" => AwaitPods
        BY <2>4, Zenon DEF RunStep, TimeOut, StopWait, StopDone, StartWait, StartDone,
                    VerifyWait, VerifyDone, In
      <4> QED BY <1>4, <2>4, <4>1, <4>2, PhaseMoves, Zenon
    <3>2. Fits(up)'
      BY <1>1, <2>1, <2>2, <3>1, FitsKept, Zenon
    <3>3. Fits(wup)'
      BY <1>1, <2>1, <2>2, <3>1, Zenon DEF Fits, PastSwap, InProgress, Phases, Busy, Fresh, PodsReady
    <3>4. Verified'
      <4>1. CASE Run.phase # "Verifying"
        <5>1. verify' = verify /\ ~Busy(verify)
          BY <4>1, <1>v, <2>1, Zenon
             DEF RunStep, TimeOut, StopWait, StopDone, RotateCerts, RotateFails, AwaitPods,
                 StartWait, StartDone, VerifyWait, VerifyDone, In, InPhase
        <5> QED BY <5>1, Zenon DEF Verified, Busy, Done
      <4>2. CASE VerifyWait
        <5>1. wup'.phase = "Verifying" /\ Run.phase = "Verifying" /\ ~Done(verify')
          BY <4>2, Entered, Zenon DEF VerifyWait, Go, In, Phases, AfterRun, Running, Deleting, Done
        <5> QED BY <5>1, <1>1, <2>1, Zenon DEF Verified, InPhase
      <4>3. CASE VerifyDone
        BY <4>3, Zenon DEF VerifyDone, Verified, AfterRun, Done, Busy, Deleting
      <4> QED BY <4>1, <4>2, <4>3, Zenon
              DEF RunStep, TimeOut, StopWait, StopDone, RotateCerts, RotateFails, AwaitPods,
                  StartWait, StartDone, In
    <3> QED BY <1>1, <3>2, <3>3, <3>4, Zenon DEF Unmeddled
  <2> QED BY <2>3, <2>4, Zenon
<1> QED BY <1>3, <1>4, Zenon

\* The deletion of pods.
LEMMA JoinReplace ==
    ASSUME TypeInv, Unmeddled, ReplacePods \/ ReplaceSome
    PROVE  Unmeddled'
<1> USE DEF jobs, keys, cluster, spec
<1>1. /\ InPhase(up, "Updating") /\ up' = up /\ UNCHANGED <<image, secret, stop, verify, engine>>
      /\ wup \in Upgrades /\ wup # None /\ wup.phase = "Updating" /\ Fits(up) /\ Fits(wup)
      /\ sys.image = image
  BY ReplaceInRun, Zenon DEF InPhase, Unmeddled, ReplacePods, ReplaceSome, NoneIsNoUpgrade
<1>2. Fits(up)'
  BY <1>1, Zenon DEF Fits, InPhase, InProgress, PastSwap, Busy
<1>3. ~Busy(verify) /\ Verified'
  BY <1>1, Zenon DEF Unmeddled, Verified, InPhase, Busy, Done
<1>4. CASE ReplaceSome
  BY <1>2, <1>3, <1>4, Zenon DEF ReplaceSome, Unmeddled
<1>5. CASE ReplacePods
  <2>1. /\ wup' \in Upgrades /\ wup' # None /\ wup'.phase = "Starting" /\ wup'.to = wup.to
        /\ wup'.trigger = wup.trigger /\ sys' = sys
    BY <1>1, <1>5, Zenon DEF ReplacePods, Upgrades, Phases, NoneIsNoUpgrade
  <2>2. pod \in [Nodes -> Pods]
    BY Zenon DEF TypeInv, TypeOK
  <2>3. wup.trigger = "certs" => \A n \in Nodes : pod'[n].st = "terminating"
    BY <1>5, <2>2, Zenon DEF ReplacePods, Deleted, ToReplace, Pods
  <2>4. ~Busy(stop') /\ wup.to = image
    BY <1>1, Zenon DEF Fits, PastSwap, InProgress, Phases
  <2>5. Fits(wup)'
    BY <1>1, <2>1, <2>3, <2>4, Zenon DEF Fits, PastSwap, Fresh
  <2> QED BY <1>1, <1>2, <1>3, <2>1, <2>5, Zenon DEF Unmeddled
<1> QED BY <1>4, <1>5, Zenon

\* The steps of humans, of Kubernetes and of DAOS.
LEMMA JoinOutside ==
    ASSUME TypeInv, Unmeddled, Human \/ Environment, ~meddled'
    PROVE  Unmeddled'
<1> USE DEF memory, jobs, keys, cluster, spec
<1>t. pod \in [Nodes -> Pods] /\ engine \in [Nodes -> Engines]
  BY Zenon DEF TypeInv, TypeOK
<1>u. Fits(up) /\ Verified /\ (pc # "idle" => sys.image = image /\ Fits(wup))
  BY Zenon DEF Unmeddled
<1>m. UNCHANGED <<up, pc, sys, wup>>
  BY Zenon DEF Human, Environment, Approve, EditImage, ApproveCerts, Withdraw, StartByHand, Tick,
         JobsFinish, StopFinishes, StartFinishes, VerifyFinishes, JobsRemoved, JobsExpire,
         PodRecreated, PodReady, EngineDies
<1>a. ASSUME UNCHANGED <<image, pod, secret>>, stop' = stop \/ ~Busy(stop'), Verified'
      PROVE  Unmeddled'
  BY <1>a, <1>m, <1>u, FitsKept, Zenon DEF Unmeddled
<1>1. CASE \E i \in Images : Approve(i) \/ EditImage(i)
  <2>1. UNCHANGED <<pod, secret, stop, verify, engine>> /\ Verified'
    BY <1>1, <1>m, <1>u, RejoinedKept, Zenon DEF Approve, EditImage, Verified, InPhase
  <2>2. CASE image' = image
    BY <1>a, <2>1, <2>2, Zenon
  <2>3. CASE image' # image
    <3>1. ~MidRun
      BY <1>1, <2>3, Zenon DEF Approve, EditImage
    <3>2. pc' = "idle" /\ ~InProgress(up')
      BY <1>m, <3>1, Zenon DEF MidRun
    <3>3. Fits(up)'
      BY <3>2, Zenon DEF Fits, InProgress, Phases, PastSwap
    <3> QED BY <2>1, <3>2, <3>3, Zenon DEF Unmeddled
  <2> QED BY <2>2, <2>3, Zenon
<1>2. CASE ApproveCerts \/ Withdraw \/ Tick
  <2>1. UNCHANGED <<image, pod, secret, stop, verify, engine>>
    BY <1>2, Zenon DEF ApproveCerts, Withdraw, Tick
  <2>2. Verified'
    BY <2>1, <1>m, <1>u, RejoinedKept, Zenon DEF Verified, InPhase
  <2> QED BY <1>a, <2>1, <2>2, Zenon
<1>3. CASE StartByHand
  <2>1. /\ UNCHANGED <<image, pod, secret, stop, verify>>
        /\ \A n \in Nodes : engine'[n] = engine[n] \/ engine'[n] \in {"up", "dead"}
    BY <1>3, Zenon DEF StartByHand, Started
  <2>2. Verified'
    BY <2>1, <1>m, <1>u, RejoinedKept, Zenon DEF Verified, InPhase
  <2> QED BY <1>a, <2>1, <2>2, Zenon
<1>4. ASSUME NEW out \in Outs, StartFinishes(out) PROVE Unmeddled'
  <2>1. /\ UNCHANGED <<image, pod, secret, stop, verify>>
        /\ \A n \in Nodes : engine'[n] = engine[n] \/ engine'[n] \in {"up", "dead"}
    BY <1>4, Zenon DEF StartFinishes, Started
  <2>2. Verified'
    BY <2>1, <1>m, <1>u, RejoinedKept, Zenon DEF Verified, InPhase
  <2> QED BY <1>a, <2>1, <2>2, Zenon
<1>5. ASSUME NEW out \in Outs, StopFinishes(out) PROVE Unmeddled'
  <2>1. UNCHANGED <<image, pod, secret, verify>> /\ Busy(stop)
    BY <1>5, Zenon DEF StopFinishes, Busy
  <2>2. ASSUME NEW u, Fits(u) PROVE Fits(u)'
    BY <2>1, <2>2, Zenon DEF Fits, Fresh, InProgress
  <2>3. ~Busy(verify)
    BY <1>u, <2>1, Zenon DEF Verified, InPhase, Fits, PastSwap
  <2>4. Verified'
    BY <2>1, <2>3, Zenon DEF Verified, Busy, Done
  <2> QED BY <1>m, <1>u, <2>1, <2>2, <2>4, Zenon DEF Unmeddled
<1>6. ASSUME NEW out \in Outs, VerifyFinishes(out) PROVE Unmeddled'
  <2>1. UNCHANGED <<image, pod, secret, stop, engine>> /\ Busy(verify)
    BY <1>6, Zenon DEF VerifyFinishes, Busy
  <2>2. verify'.out = out
    BY <1>6, FinishedType DEF VerifyFinishes, TypeInv, TypeOK
  <2>3. out = "joined" => Rejoined
    BY <1>6, Zenon DEF VerifyFinishes, Rejoined
  <2>4. Verified'
    BY <1>m, <1>u, <2>1, <2>2, <2>3, RejoinedKept, Zenon DEF Verified, InPhase
  <2> QED BY <1>a, <2>1, <2>4, Zenon
<1>7. CASE JobsRemoved \/ JobsExpire
  <2>1. /\ UNCHANGED <<image, pod, secret, engine>>
        /\ stop' = stop \/ ~Busy(stop')
        /\ verify' = verify \/ ~Busy(verify')
    BY <1>7 DEF JobsRemoved, JobsExpire, NoJob, Busy
  <2>2. Verified'
    BY <1>m, <1>u, <2>1, RejoinedKept, Zenon DEF Verified, InPhase, Busy, Done
  <2> QED BY <1>a, <2>1, <2>2, Zenon
<1>8. ASSUME NEW m \in Nodes, PodRecreated(m) \/ PodReady(m) PROVE Unmeddled'
  <2>1. UNCHANGED <<image, secret, stop, verify>> /\ pod[m].st # "ready"
    BY <1>8, Zenon DEF PodRecreated, PodReady
  <2>2. \A n \in Nodes : Fresh(n) => Fresh(n)'
    <3>1. CASE PodRecreated(m)
      BY <3>1, <1>t, Zenon DEF PodRecreated, Fresh
    <3>2. CASE PodReady(m)
      BY <3>2, <1>t DEF PodReady, Fresh, Pods
    <3> QED BY <1>8, <3>1, <3>2, Zenon
  <2>3. ASSUME NEW u, Fits(u) PROVE Fits(u)'
    BY <2>1, <2>2, <2>3, Zenon DEF Fits, InProgress, Busy
  <2>4. ~Busy(verify)
    BY <1>u, <2>1, Zenon DEF Verified, InPhase, Fits
  <2>5. Verified'
    BY <2>1, <2>4, Zenon DEF Verified, Busy, Done
  <2> QED BY <1>m, <1>u, <2>1, <2>3, <2>5, Zenon DEF Unmeddled
<1>9. ASSUME NEW m \in Nodes, EngineDies(m) PROVE Unmeddled'
  <2>1. /\ UNCHANGED <<image, pod, secret, stop, verify>>
        /\ \A n \in Nodes : engine'[n] = engine[n] \/ engine'[n] \in {"up", "dead"}
    BY <1>9, <1>t, Zenon DEF EngineDies
  <2>2. Verified'
    BY <2>1, <1>m, <1>u, RejoinedKept, Zenon DEF Verified, InPhase
  <2> QED BY <1>a, <2>1, <2>2, Zenon
<1> QED BY <1>1, <1>2, <1>3, <1>4, <1>5, <1>6, <1>7, <1>8, <1>9, Zenon DEF Human, Environment, JobsFinish

\* Every step keeps what a late restart relies on.
LEMMA JoinStep == JoinInv /\ [Next]_vars => JoinInv'
<1> SUFFICES ASSUME JoinInv, [Next]_vars PROVE JoinInv'
  BY Zenon
<1>t. TypeInv /\ TypeInv' /\ BundleInv'
  BY TypeStep, BundleStep, Zenon DEF JoinInv
<1> SUFFICES ASSUME ~meddled' PROVE Unmeddled'
  BY <1>t, Zenon DEF JoinInv
<1>u. /\ Unmeddled /\ Fits(up) /\ Verified
      /\ pc # "idle" => sys.image = image /\ Fits(wup)
  BY <1>t, CalmBefore, Zenon DEF JoinInv, Unmeddled
<1> USE DEF memory, jobs, keys, cluster, spec
<1>1. CASE BeginPass
  <2>1. /\ UNCHANGED <<up, image, pod, engine, secret, stop, verify>> /\ wup' = up
        /\ sys'.image = image
    BY <1>1, Zenon DEF BeginPass
  <2>2. Fits(up)' /\ Fits(wup)'
    BY <1>u, <2>1, FitsKept, Zenon
  <2>3. Verified'
    BY <1>u, <2>1, RejoinedKept, Zenon DEF Verified, InPhase
  <2> QED BY <2>1, <2>2, <2>3, Zenon DEF Unmeddled
<1>2. CASE UpToDate \/ WaitForApproval
  <2>1. /\ UNCHANGED <<up, sys, image, pod, engine, secret, stop, verify>> /\ ~InProgress(up)
        /\ pc # "idle" /\ ~InProgress(wup')
    BY <1>2, <1>t DEF UpToDate, WaitForApproval, TypeInv, InProgress, NewRun, Phases
  <2>2. Fits(up)' /\ Fits(wup)'
    BY <2>1, Zenon DEF Fits, InProgress, Phases, PastSwap
  <2>3. ~Busy(verify)
    BY <1>u, <2>1, Zenon DEF Verified, InPhase, InProgress, Phases
  <2>4. Verified'
    BY <2>1, <2>3, Zenon DEF Verified, Busy, Done
  <2> QED BY <1>u, <2>1, <2>2, <2>4, Zenon DEF Unmeddled
<1>3. CASE RunStep
  BY <1>3, <1>u, <1>t, JoinRunStep, Zenon
<1>4. CASE ReplacePods \/ ReplaceSome
  BY <1>4, <1>u, <1>t, JoinReplace, Zenon
<1>5. CASE ResetApproval \/ ClearCertsApproval
  <2>1. /\ UNCHANGED <<up, wup, image, pod, engine, secret, stop, verify>>
        /\ pc # "idle" /\ sys'.image = image
    BY <1>5, <1>u DEF ResetApproval, ClearCertsApproval
  <2>2. Fits(up)' /\ Fits(wup)'
    BY <1>u, <2>1, FitsKept, Zenon
  <2>3. Verified'
    BY <1>u, <2>1, RejoinedKept, Zenon DEF Verified, InPhase
  <2> QED BY <2>1, <2>2, <2>3, Zenon DEF Unmeddled
<1>6. CASE UpdateStatus \/ NotReached \/ PassEnds
  <2>1. /\ UNCHANGED <<image, pod, engine, secret, stop, verify>> /\ pc' = "idle" /\ pc # "idle"
        /\ up' \in {up, wup}
    BY <1>6, Zenon DEF UpdateStatus, NotReached, PassEnds
  <2>2. Fits(up)'
    BY <1>u, <2>1, FitsKept, Zenon
  <2>3. Verified'
    BY <1>u, <2>1, RejoinedKept, Zenon DEF Verified, InPhase
  <2> QED BY <2>1, <2>2, <2>3, Zenon DEF Unmeddled
<1>7. CASE Human \/ Environment
  BY <1>7, <1>u, <1>t, JoinOutside, Zenon
<1>8. CASE UNCHANGED vars
  <2>1. UNCHANGED <<up, pc, wup, sys, image, pod, engine, secret, stop, verify>>
    BY <1>8, Zenon DEF vars
  <2>2. Fits(up)' /\ (pc' # "idle" => Fits(wup)')
    BY <1>u, <2>1, FitsKept, Zenon
  <2>3. Verified'
    BY <1>u, <2>1, RejoinedKept, Zenon DEF Verified, InPhase
  <2> QED BY <1>u, <2>1, <2>2, <2>3, Zenon DEF Unmeddled
<1> QED BY <1>1, <1>2, <1>3, <1>4, <1>5, <1>6, <1>7, <1>8, Zenon
        DEF Next, Operator, ReconcileUpgrade, RunStep

\* A restart is reported Completed by VerifyDone only, in a pass that read "joined".
LEMMA CompletedByVerify ==
    ASSUME TypeInv, [Next]_vars, pc = "upgrade", wup' # None, wup'.phase = "Completed",
           pc' = "reset"
    PROVE  VerifyDone /\ verify.out = "joined" /\ ~Starts /\ wup = up /\ InPhase(up, "Verifying")
<1>1. ~Human /\ ~Environment /\ ~UNCHANGED vars
  BY Zenon DEF Human, Environment, Approve, EditImage, ApproveCerts, Withdraw, StartByHand, Tick,
         JobsFinish, StopFinishes, StartFinishes, VerifyFinishes, JobsRemoved, JobsExpire,
         PodRecreated, PodReady, EngineDies, memory, vars
<1>2. RunStep
  BY <1>1, Zenon DEF Next, Operator, ReconcileUpgrade, RunStep, BeginPass, UpToDate, WaitForApproval,
         ReplacePods, ReplaceSome, ResetApproval, ClearCertsApproval, UpdateStatus, NotReached, PassEnds
<1>3. ~RotateCerts
  BY Zenon DEF RotateCerts
<1>4. ~RotateFails
  BY Entered DEF RotateFails, End, In, Phases
<1>5. Run.phase = "Verifying"
  BY <1>2, <1>3, <1>4, PhaseMoves, Zenon
<1>6. ~TimeOut
  BY Entered DEF TimeOut, End, Phases
<1>7. VerifyDone
  BY <1>2, <1>3, <1>4, <1>5, <1>6, Zenon
     DEF RunStep, StopWait, StopDone, AwaitPods, StartWait, StartDone, VerifyWait, In, Go
<1>8. verify.out = "joined"
  BY <1>7, Entered DEF VerifyDone, End, In, Phases
<1> QED BY <1>2, <1>5, <1>7, <1>8, RunIs, RunStepEffect, Zenon DEF InPhase, InProgress

\* Verifying (daossystem_upgrade.go:314-334): for any number of nodes, restarts, edits,
\* deaths of engines and faults, when a restart is reported Completed DAOS lists
\* engines and none of them is left stopped, and every server pod has the image
\* it reports, and the certificates now in the Secret if it rotated them or no
\* pass was cut short; unless somebody meddled.
THEOREM CompletedIsJoined == Spec => CompletedMeansJoined
<1>1. Init => JoinInv
  <2> SUFFICES ASSUME Init PROVE JoinInv
    BY Zenon
  <2>1. TypeInv
    BY InitType, Zenon
  <2>2. BundleInv
    BY Zenon DEF Init, BundleInv, Fresh
  <2>3. ~Busy(verify) /\ ~Done(verify) /\ up = None /\ pc = "idle"
    BY Zenon DEF Init, NoJob, Busy, Done
  <2>4. Fits(up)
    BY <2>3, Zenon DEF Fits, InProgress
  <2> QED BY <2>1, <2>2, <2>3, <2>4, Zenon DEF JoinInv, Unmeddled, Verified
<1>2. JoinInv /\ [Next]_vars =>
        [ ~meddled /\ pc = "upgrade" /\ wup' # None /\ wup'.phase = "Completed" /\ pc' = "reset"
            => /\ Listed # {} /\ \A n \in Listed : engine[n] # "stopped"
               /\ \A n \in Nodes : /\ pod[n].img = wup.to
                                   /\ wup.trigger = "certs" \/ faults = 0 => pod[n].bundle = secret ]_vars
  <2> SUFFICES ASSUME JoinInv, [Next]_vars, ~meddled, pc = "upgrade", wup' # None,
                      wup'.phase = "Completed", pc' = "reset"
               PROVE  /\ Rejoined
                      /\ \A n \in Nodes : /\ pod[n].img = wup.to
                                          /\ wup.trigger = "certs" \/ faults = 0
                                               => pod[n].bundle = secret
    BY Zenon DEF Rejoined
  <2>1. VerifyDone /\ verify.out = "joined" /\ ~Starts /\ wup = up /\ InPhase(up, "Verifying")
    BY CompletedByVerify, Zenon DEF JoinInv
  <2>2. Fits(up) /\ Verified /\ BundleInv
    BY Zenon DEF JoinInv, Unmeddled
  <2>3. Rejoined
    BY <2>1, <2>2, Zenon DEF VerifyDone, Verified
  <2>4. \A n \in Nodes :
          pod[n].img = wup.to /\ pod[n].st = "ready" /\ (wup.trigger = "certs" => Fresh(n))
    BY <2>1, <2>2, Zenon DEF Fits, InPhase, PastSwap
  <2> QED BY <2>2, <2>3, <2>4, Zenon DEF Fresh, BundleInv
<1> QED BY <1>1, <1>2, JoinStep, PTL DEF Spec, CompletedMeansJoined
=============================================================================
