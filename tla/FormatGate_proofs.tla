------------------------- MODULE FormatGate_proofs -------------------------
(***************************************************************************)
(* Proofs about FormatGate, for any number of nodes, approvals, faults,    *)
(* readiness changes and replaced drives, with or without an external      *)
(* management service.                                                     *)
(***************************************************************************)
EXTENDS FormatGate, TLAPS

USE FormatGateAssumption

\* What Run leaves behind is a Job value again.
LEMMA AfterRunType ==
    ASSUME NEW C, NEW O, NEW j \in Job(C, O), NEW c \in C
    PROVE  AfterRun(j, c) \in Job(C, O)
  BY Zenon DEF Job, AfterRun, Running, Deleting, Done

\* A running Job that ends with an output is a Job value again, and keeps its
\* command.
LEMMA FinishedType ==
    ASSUME NEW C, NEW O, NEW j \in Job(C, O), j.phase = "running", NEW o \in O
    PROVE  /\ Finished(j, o) \in Job(C, O) /\ j.cmd \in C
           /\ Done(Finished(j, o)) /\ Finished(j, o).cmd = j.cmd /\ Finished(j, o).out = o
<1>1. j \in [phase : {"running"}, cmd : C, out : {None}]
  BY Zenon DEF Job
<1>2. Finished(j, o) \in [phase : {"finished"}, cmd : C, out : O]
  BY <1>1, Zenon DEF Finished
<1> QED BY <1>1, <1>2, Zenon DEF Job, Finished, Done

\* What a pass starts from, and the Job that is not there, are well typed.
LEMMA BlankTypes ==
    /\ NoStatus \in Statuses
    /\ NoSys \in [approved : BOOLEAN, rendered : SUBSET Nodes, ready : SUBSET Nodes]
    /\ \A C, O : NoJob \in Job(C, O)
  BY Zenon DEF NoStatus, Statuses, NoSys, NoJob, Job

\* The hosts of a format are nodes.
LEMMA HostsType == TypeOK => Hosts \in SUBSET Nodes
  BY Zenon DEF TypeOK, Hosts, FormatHosts

\* What `dmg system query` prints is an answer.
LEMMA AnswerType ==
    ASSUME NEW kind \in {"unformatted", "timeout", "error", "members"}
    PROVE  Answer(kind) \in Answers
<1>1. Blank \subseteq Nodes
  BY Zenon DEF Blank
<1> QED BY <1>1, Zenon DEF Answer, Answers

\* Collecting a query writes a status and goes on.
LEMMA CollectType ==
    ASSUME TypeOK, NEW status \in Statuses, NEW next \in {"clear", "update"},
           Collect(status, next)
    PROVE  TypeOK'
<1>1. query' \in Job({"query"}, Answers)
  BY AfterRunType, Zenon DEF Collect, TypeOK
<1> QED BY <1>1, Zenon DEF Collect, TypeOK, object, servers, daos, history, bounds

\* Types are kept by every step of the pass, of humans and of the cluster.
LEMMA TypeStep == TypeOK /\ [Next]_vars => TypeOK'
<1> SUFFICES ASSUME TypeOK, [Next]_vars PROVE TypeOK'
  BY Zenon
<1> USE DEF object, memory, servers, daos, history, bounds
<1>1. CASE BeginPass
  BY <1>1, Zenon DEF BeginPass, TypeOK
<1>2. CASE NoServers \/ AwaitServers \/ Held
  BY <1>2, Zenon DEF NoServers, AwaitServers, Held, TypeOK
<1>3. CASE Continue
  BY <1>3, Zenon DEF Continue, TypeOK
<1>4. CASE Formatting
  <2>1. format' \in Job(SUBSET Nodes, {"ok", "error"})
    BY <1>4, HostsType, AfterRunType, Zenon DEF Formatting, TypeOK
  <2> QED BY <1>4, <2>1 DEF Formatting, TypeOK
<1>5. CASE FormatDone
  <2>1. format' \in Job(SUBSET Nodes, {"ok", "error"})
    BY <1>5, HostsType, AfterRunType, Zenon DEF FormatDone, TypeOK
  <2>2. wst' \in Statuses
    BY <1>5, ZenonT(30) DEF FormatDone, TypeOK, Statuses
  <2> QED BY <1>5, <2>1, <2>2, Zenon DEF FormatDone, TypeOK
<1>6. CASE Probing
  <2>1. query' \in Job({"query"}, Answers)
    BY <1>6, AfterRunType, Zenon DEF Probing, TypeOK
  <2> QED BY <1>6, <2>1, Zenon DEF Probing, TypeOK
<1>7. CASE Unformatted \/ TimedOut \/ QueryError \/ Members
  <2>1. Done(query) => query.out \in Answers
    BY Zenon DEF TypeOK, Job, Done
  <2>2. CASE Unformatted
    BY <2>1, <2>2, CollectType, Zenon DEF Unformatted, Answered, Statuses, Answers
  <2>3. CASE TimedOut
    <3>1. PICK down \in SUBSET sys.rendered :
            Collect([wst EXCEPT !.await = @ \ (down \cup (sys.rendered \ sys.ready))], "update")
      BY <2>3, Zenon DEF TimedOut
    <3>2. [wst EXCEPT !.await = @ \ (down \cup (sys.rendered \ sys.ready))] \in Statuses
      BY Zenon DEF TypeOK, Statuses
    <3> QED BY <3>1, <3>2, CollectType, Zenon
  <2>4. CASE QueryError
    BY <2>4, CollectType, Zenon DEF QueryError, TypeOK
  <2>5. CASE Members
    <3>1. query.out \in Answers
      BY <2>1, <2>5, Zenon DEF Members, Answered
    <3>2. Membership(query.out) \in Statuses
      BY <3>1, Zenon DEF Membership, Statuses, Answers
    <3> QED BY <2>5, <3>2, CollectType, Zenon DEF Members
  <2> QED BY <1>7, <2>2, <2>3, <2>4, <2>5, Zenon
<1>8. CASE ClearApproval
  BY <1>8, Zenon DEF ClearApproval, TypeOK
<1>9. CASE UpdateStatus
  BY <1>9, BlankTypes, Zenon DEF UpdateStatus, Return, TypeOK
<1>10. CASE PassEnds
  <2>1. hold' \in BOOLEAN
    BY <1>10, Zenon DEF PassEnds, TypeOK
  <2>2. faults' \in 0..MaxFaults
    BY <1>10 DEF PassEnds, TypeOK
  <2> QED BY <1>10, <2>1, <2>2, BlankTypes, Zenon DEF PassEnds, Return, TypeOK
<1>11. CASE Human
  <2>1. CASE SystemFormat \/ Annotate
    <3>1. given' \in 0..MaxApprovals
      BY <2>1 DEF SystemFormat, Annotate, TypeOK
    <3> QED BY <2>1, <3>1, Zenon DEF SystemFormat, Annotate, TypeOK
  <2>w. CASE Withdraw
    BY <2>w, Zenon DEF Withdraw, TypeOK
  <2>2. ASSUME NEW n \in Nodes, AddNode(n) \/ ReplaceDrives(n) PROVE TypeOK'
    BY <2>2 DEF AddNode, ReplaceDrives, TypeOK
  <2> QED BY <1>11, <2>1, <2>w, <2>2, Zenon DEF Human
<1>12. CASE FormatFinishes
  <2>1. PICK S \in SUBSET format.cmd, out \in {"ok", "error"} : FormatEnds(S, out)
    BY <1>12, Zenon DEF FormatFinishes
  <2>2. format' \in Job(SUBSET Nodes, {"ok", "error"})
    BY <1>12, <2>1, FinishedType, Zenon DEF FormatFinishes, FormatEnds, TypeOK
  <2> QED BY <2>1, <2>2, Zenon DEF FormatEnds, TypeOK
<1>13. CASE QueryFinishes
  <2>1. PICK kind \in {"unformatted", "timeout", "error", "members"} :
           query' = Finished(query, Answer(kind))
    BY <1>13, Zenon DEF QueryFinishes
  <2>2. query' \in Job({"query"}, Answers)
    BY <1>13, <2>1, AnswerType, FinishedType, Zenon DEF QueryFinishes, TypeOK
  <2> QED BY <1>13, <2>2 DEF QueryFinishes, TypeOK
<1>14. CASE JobsRemoved \/ JobExpires
  BY <1>14, BlankTypes DEF JobsRemoved, JobExpires, TypeOK
<1>15. CASE HoldExpires
  BY <1>15, Zenon DEF HoldExpires, TypeOK
<1>16. ASSUME NEW n \in Nodes, PodFlips(n) PROVE TypeOK'
  BY <1>16 DEF PodFlips, TypeOK
<1>17. CASE UNCHANGED vars
  BY <1>17, Zenon DEF vars, TypeOK
<1> QED
  BY <1>1, <1>2, <1>3, <1>4, <1>5, <1>6, <1>7, <1>8, <1>9, <1>10, <1>11, <1>12, <1>13,
     <1>14, <1>15, <1>16, <1>17, Zenon
     DEF Next, Operator, ReconcileFormat, Cluster

\* The initial states are well typed.
LEMMA InitType == Init => TypeOK
<1> SUFFICES ASSUME Init PROVE TypeOK
  BY Zenon
<1>1. external \in BOOLEAN /\ approved \in BOOLEAN /\ hold \in BOOLEAN /\ ms \in BOOLEAN
  BY Zenon DEF Init
<1>2. rendered \subseteq Nodes
  BY Zenon DEF Init
<1>3. given \in 0..MaxApprovals /\ faults \in 0..MaxFaults /\ flips \in 0..MaxFlips /\ swaps \in 0..MaxSwaps
  BY DEF Init
<1> QED BY <1>1, <1>2, <1>3, BlankTypes, Zenon DEF Init, TypeOK

\* Every state that passes, humans, the cluster and faults can reach is well typed.
THEOREM Typing == Spec => []TypeOK
  BY InitType, TypeStep, PTL DEF Spec

-----------------------------------------------------------------------------
(***************************************************************************)
(* At most one format Job per approval.  OneFormatPerApproval alone is not *)
(* inductive: an approval that was not used yet must be paid for.  While a *)
(* format Job exists, or its approval is being removed, the annotation     *)
(* still stands for the Job that was created; otherwise the annotation,    *)
(* and the copy of it a pass acts on, may each lead to one more Job.       *)
(***************************************************************************)
Token(held) == IF held THEN 1 ELSE 0

Paid == given + faults

FormatJobExists == format.phase \in {"running", "finished"}

\* The pass is about to remove the annotation.
Clearing == pc \in {"clear", "formatted"}

ApprovalInv ==
    /\ TypeOK /\ OneFormatPerApproval
    /\ formats + Token(approved) <= Paid + 1
    /\ ~FormatJobExists /\ ~Clearing => formats + Token(approved) <= Paid
    /\ ~FormatJobExists /\ pc \in {"start", "format"} => formats + Token(sys.approved) <= Paid
    /\ Clearing => sys.approved

\* ApprovalInv is kept by a step that creates no format Job, if an annotation or
\* a pass's copy of it appears only with an approval or from the other, and a Job
\* goes only when the pass clears the annotation or with a fault.
LEMMA ApprovalKept ==
    ASSUME ApprovalInv, TypeOK', UNCHANGED <<formats, given>>,
           faults' \in {faults, faults + 1},
           approved' => approved,
           pc' \in {"start", "format"} =>
               IF pc \in {"start", "format"} THEN sys'.approved => sys.approved
               ELSE pc = "idle" /\ (sys'.approved => approved),
           Clearing' => sys'.approved,
           Clearing /\ ~Clearing' => ~approved' \/ faults' = faults + 1,
           FormatJobExists /\ ~FormatJobExists' => Clearing' \/ faults' = faults + 1
    PROVE  ApprovalInv'
<1>1. /\ formats \in Nat /\ given \in Nat /\ faults \in Nat /\ approved \in BOOLEAN
      /\ sys.approved \in BOOLEAN /\ sys'.approved \in BOOLEAN /\ approved' \in BOOLEAN
  BY DEF ApprovalInv, TypeOK
<1>2. Clearing' => sys'.approved
  BY Zenon
<1>3. formats <= given + faults /\ formats + Token(approved) <= given + faults + 1
  BY Zenon DEF ApprovalInv, OneFormatPerApproval, Paid
<1>4. CASE faults' = faults + 1
  BY <1>1, <1>2, <1>3, <1>4 DEF ApprovalInv, OneFormatPerApproval, Paid, Token
<1>5. CASE faults' = faults
  <2>1. OneFormatPerApproval' /\ formats' + Token(approved)' <= Paid' + 1
    BY <1>1, <1>3, <1>5 DEF OneFormatPerApproval, Paid, Token
  <2>2. ASSUME ~FormatJobExists', ~Clearing' PROVE formats' + Token(approved)' <= Paid'
    BY <1>1, <1>3, <1>5, <2>2 DEF ApprovalInv, Paid, Token
  <2>3. ASSUME ~FormatJobExists', pc' \in {"start", "format"} PROVE formats' + Token(sys.approved)' <= Paid'
    BY <1>1, <1>3, <1>5, <2>3 DEF ApprovalInv, Paid, Token, Clearing
  <2> QED BY <1>2, <2>1, <2>2, <2>3, Zenon DEF ApprovalInv
<1> QED BY <1>4, <1>5, Zenon

\* ApprovalInv is kept by every step.
LEMMA ApprovalStep == ApprovalInv /\ [Next]_vars => ApprovalInv'
<1> SUFFICES ASSUME ApprovalInv, [Next]_vars PROVE ApprovalInv'
  BY Zenon
<1> USE DEF object, memory, servers, daos, history, bounds
<1>t. TypeOK /\ TypeOK'
  BY TypeStep, Zenon DEF ApprovalInv
<1>n. /\ formats \in Nat /\ given \in Nat /\ faults \in Nat
      /\ approved \in BOOLEAN /\ sys.approved \in BOOLEAN
  BY <1>t DEF TypeOK
<1>1. CASE BeginPass
  BY <1>t, <1>1, ApprovalKept, Zenon DEF BeginPass, Clearing, FormatJobExists
<1>2. CASE NoServers \/ AwaitServers \/ Held \/ Probing
  BY <1>t, <1>2, ApprovalKept DEF NoServers, AwaitServers, Held, Probing, Clearing, FormatJobExists
<1>3. CASE Continue
  BY <1>t, <1>3, ApprovalKept, Zenon DEF Continue, TypeOK, Clearing, FormatJobExists
<1>4. CASE Formatting
  <2>1. CASE format.phase = "absent"
    <3>1. formats + 1 <= given + faults
      BY <1>4, <1>n, <2>1, Zenon DEF Formatting, NeedFormat, ApprovalInv, Clearing, FormatJobExists, Paid, Token
    <3>2. FormatJobExists' /\ formats' = formats + 1 /\ pc' = "update"
          /\ UNCHANGED <<approved, given, faults>>
      BY <1>4, <2>1, Zenon DEF Formatting, AfterRun, Running, Clearing, FormatJobExists
    <3> QED BY <1>t, <1>n, <3>1, <3>2 DEF ApprovalInv, OneFormatPerApproval, Paid, Token, Clearing
  <2>2. CASE format.phase # "absent"
    BY <1>t, <1>4, <2>2, ApprovalKept, Zenon DEF Formatting, AfterRun, Clearing, FormatJobExists
  <2> QED BY <2>1, <2>2, Zenon
<1>5. CASE FormatDone
  BY <1>t, <1>5, ApprovalKept, Zenon DEF FormatDone, NeedFormat, Clearing
<1>6. CASE Unformatted \/ TimedOut \/ QueryError \/ Members
  <2>1. /\ UNCHANGED <<object, sys, format, history, bounds>>
        /\ pc' = "update" \/ (pc' = "clear" /\ sys.approved)
    <3>1. CASE Unformatted \/ QueryError
      BY <3>1, Zenon DEF Unformatted, QueryError, Collect
    <3>2. CASE TimedOut
      BY <3>2, Zenon DEF TimedOut, Collect
    <3>3. CASE Members
      BY <3>3, Zenon DEF Members, Collect
    <3> QED BY <1>6, <3>1, <3>2, <3>3, Zenon
  <2> QED BY <1>t, <2>1, ApprovalKept, <1>6, Zenon
          DEF Unformatted, TimedOut, QueryError, Members, Answered, Clearing, FormatJobExists
<1>7. CASE ClearApproval
  <2>1. ~approved'
    BY <1>7, Zenon DEF ClearApproval, Clearing, ApprovalInv
  <2> QED BY <1>t, <1>7, <2>1, ApprovalKept, Zenon DEF ClearApproval, Clearing, FormatJobExists
<1>8. CASE UpdateStatus
  BY <1>t, <1>8, ApprovalKept, Zenon DEF UpdateStatus, Return, Clearing, FormatJobExists
<1>9. CASE PassEnds
  BY <1>t, <1>9, ApprovalKept, Zenon DEF PassEnds, Return, Clearing, FormatJobExists
<1>10. CASE SystemFormat \/ Annotate
  <2>1. ~approved /\ given' = given + 1 /\ UNCHANGED <<formats, faults, pc, sys, format>>
    BY <1>10, Zenon DEF SystemFormat, Annotate
  <2>2. formats <= given + faults
    BY Zenon DEF ApprovalInv, OneFormatPerApproval
  <2> QED BY <1>t, <1>n, <2>1, <2>2 DEF ApprovalInv, OneFormatPerApproval, Paid, Token, Clearing, FormatJobExists
<1>11. CASE Withdraw
  BY <1>t, <1>11, ApprovalKept, Zenon DEF Withdraw, Clearing, FormatJobExists, ApprovalInv
<1>12. ASSUME NEW n \in Nodes, AddNode(n) \/ ReplaceDrives(n) \/ PodFlips(n) PROVE ApprovalInv'
  BY <1>t, <1>12, ApprovalKept DEF AddNode, ReplaceDrives, PodFlips, Clearing, FormatJobExists, ApprovalInv
<1>13. CASE FormatFinishes
  <2>1. FormatJobExists' /\ UNCHANGED <<object, memory, history, bounds>>
    BY <1>13, <1>t, FinishedType DEF FormatFinishes, FormatEnds, FormatJobExists, Done, TypeOK
  <2> QED BY <1>t, <2>1, ApprovalKept, Zenon DEF Clearing, ApprovalInv
<1>14. CASE QueryFinishes
  BY <1>t, <1>14, ApprovalKept, Zenon DEF QueryFinishes, Clearing, FormatJobExists, ApprovalInv
<1>15. CASE JobsRemoved
  BY <1>t, <1>15, ApprovalKept, Zenon DEF JobsRemoved, NoJob, Clearing, FormatJobExists, ApprovalInv
<1>16. CASE JobExpires
  BY <1>t, <1>16, ApprovalKept, Zenon DEF JobExpires, Clearing, FormatJobExists, ApprovalInv
<1>17. CASE HoldExpires
  BY <1>t, <1>17, ApprovalKept, Zenon DEF HoldExpires, Clearing, FormatJobExists, ApprovalInv
<1>18. CASE UNCHANGED vars
  BY <1>t, <1>18, ApprovalKept, Zenon DEF vars, Clearing, FormatJobExists, ApprovalInv
<1> QED
  BY <1>1, <1>2, <1>3, <1>4, <1>5, <1>6, <1>7, <1>8, <1>9, <1>10, <1>11, <1>12, <1>13,
     <1>14, <1>15, <1>16, <1>17, <1>18, Zenon
     DEF Next, Operator, ReconcileFormat, Human, Cluster

\* However humans annotate and withdraw, and wherever passes are cut short, the
\* operator creates at most one format Job per approval and fault.
THEOREM FormatsNeedApprovals == Spec => []OneFormatPerApproval
<1>1. Init => ApprovalInv
  <2> SUFFICES ASSUME Init PROVE ApprovalInv
    BY Zenon
  <2>1. formats = 0 /\ given = 0 /\ faults = 0 /\ ~approved /\ pc = "idle"
    BY Zenon DEF Init
  <2> QED BY <2>1, InitType DEF ApprovalInv, OneFormatPerApproval, Paid, Token, Clearing
<1>2. ApprovalInv => OneFormatPerApproval
  BY Zenon DEF ApprovalInv
<1> QED BY <1>1, <1>2, ApprovalStep, PTL DEF Spec

-----------------------------------------------------------------------------
(***************************************************************************)
(* A format runs on evidence.  What the status claims, and what an answer  *)
(* not collected yet says, is tied to the drives as they were when the     *)
(* query ran: a node without a member or with one in awaitformat was       *)
(* blank, and a system seen as unformatted was blank altogether unless     *)
(* "raft service unavailable" was misread.                                 *)
(***************************************************************************)
WaitingNodes(a) == (Nodes \ a.member) \cup a.await

StatusSound(s) ==
    s.pending => IF s.formatted THEN WaitingNodes(s) \subseteq s.blank
                 ELSE misread \/ s.blank = Nodes

AnswerSound(a) ==
    /\ a.kind = "members" => WaitingNodes(a) \subseteq a.blank
    /\ a.kind = "unformatted" => misread \/ a.blank = Nodes

EvidenceInv ==
    /\ TypeOK
    /\ ~ms => \A n \in Nodes : disk[n] = "new"
    /\ StatusSound(st) /\ StatusSound(wst)
    /\ Done(query) => AnswerSound(query.out)

\* EvidenceInv is kept by a step that leaves the drives alone, stores only what a
\* pass built, brings no new answer, and builds a status that is sound; a
\* misreading is never forgotten.
LEMMA EvidenceKept ==
    ASSUME EvidenceInv, TypeOK', UNCHANGED <<disk, ms>>, misread => misread',
           st' = st \/ st' = wst,
           wst' = wst \/ wst' = st \/ StatusSound(wst)',
           query' = query \/ ~Done(query')
    PROVE  EvidenceInv'
<1>1. StatusSound(st)' /\ StatusSound(wst)'
  BY Zenon DEF EvidenceInv, StatusSound, WaitingNodes
<1>2. Done(query') => AnswerSound(query.out)'
  BY Zenon DEF EvidenceInv, AnswerSound, WaitingNodes, Done
<1>3. ~ms' => \A n \in Nodes : disk'[n] = "new"
  BY Zenon DEF EvidenceInv
<1> QED BY <1>1, <1>2, <1>3, Zenon DEF EvidenceInv, Done

\* What a query says of the drives is what they are.
LEMMA AnswersAreSound ==
    ASSUME EvidenceInv, NEW kind \in {"unformatted", "timeout", "error", "members"},
           kind = "unformatted" => ~ms \/ misread'
    PROVE  AnswerSound(Answer(kind)) \/ (misread' /\ kind = "unformatted")
<1>1. CASE kind = "members"
  <2>1. Answer(kind) = [kind |-> "members", blank |-> Blank,
                        member |-> {n \in Nodes : disk[n] # "new"},
                        await |-> {n \in Nodes : disk[n] = "replaced"}]
    BY <1>1, Zenon DEF Answer
  <2>2. WaitingNodes(Answer(kind)) \subseteq Answer(kind).blank
    BY <2>1 DEF WaitingNodes, Blank
  <2> QED BY <2>1, <2>2 DEF AnswerSound
<1>2. CASE kind = "unformatted"
  <2>1. ~ms => Blank = Nodes
    BY Zenon DEF EvidenceInv, Blank
  <2> QED BY <1>2, <2>1, Zenon DEF AnswerSound, Answer
<1>3. CASE kind \in {"timeout", "error"}
  BY <1>3, Zenon DEF AnswerSound, Answer
<1> QED BY <1>1, <1>2, <1>3, Zenon

\* The status built from a sound answer, or by removing members in awaitformat
\* from a sound status, is sound.
LEMMA CollectedIsSound ==
    ASSUME EvidenceInv, misread' = misread, Unformatted \/ TimedOut \/ QueryError \/ Members
    PROVE  wst' = wst \/ StatusSound(wst)'
<1>1. Done(query) => AnswerSound(query.out)
  BY Zenon DEF EvidenceInv
<1>2. CASE Unformatted
  BY <1>1, <1>2, Zenon DEF Unformatted, Collect, Answered, AnswerSound, StatusSound
<1>3. CASE TimedOut
  <2>1. PICK lost : wst' = [wst EXCEPT !.await = @ \ lost]
    BY <1>3, Zenon DEF TimedOut, Collect
  <2>2. /\ wst'.pending = wst.pending /\ wst'.formatted = wst.formatted /\ wst'.blank = wst.blank
        /\ wst'.member = wst.member /\ wst'.await = wst.await \ lost
    BY <2>1, Zenon DEF EvidenceInv, TypeOK, Statuses
  <2> QED BY <2>2, Zenon DEF EvidenceInv, StatusSound, WaitingNodes
<1>4. CASE QueryError
  BY <1>4, Zenon DEF QueryError, Collect
<1>5. CASE Members
  BY <1>1, <1>5, Zenon DEF Members, Collect, Answered, Membership, AnswerSound, StatusSound, WaitingNodes
<1> QED BY <1>2, <1>3, <1>4, <1>5, Zenon

\* EvidenceInv is kept by every step.
LEMMA EvidenceStep == EvidenceInv /\ [Next]_vars => EvidenceInv'
<1> SUFFICES ASSUME EvidenceInv, [Next]_vars PROVE EvidenceInv'
  BY Zenon
<1> USE DEF object, memory, servers, daos, history, bounds
<1>t. TypeOK /\ TypeOK'
  BY TypeStep, Zenon DEF EvidenceInv
<1>1. CASE BeginPass \/ NoServers \/ Continue \/ AwaitServers \/ Formatting \/ Held \/ ClearApproval
  BY <1>t, <1>1, EvidenceKept
     DEF BeginPass, NoServers, Continue, AwaitServers, Formatting, Held, ClearApproval
<1>2. CASE FormatDone
  <2>1. wst' = wst \/ ~wst'.pending
    BY <1>2, <1>t, Zenon DEF FormatDone, TypeOK, Statuses
  <2> QED BY <1>t, <1>2, <2>1, EvidenceKept, Zenon DEF FormatDone, StatusSound
<1>3. CASE Probing
  <2>1. ~Done(query')
    BY <1>3, Zenon DEF Probing, AfterRun, Running, Done
  <2> QED BY <1>t, <1>3, <2>1, EvidenceKept, Zenon DEF Probing
<1>4. CASE Unformatted \/ TimedOut \/ QueryError \/ Members
  <2>1. /\ UNCHANGED <<object, daos, history>> /\ query' = AfterRun(query, "query")
    <3>1. CASE TimedOut
      BY <3>1, Zenon DEF TimedOut, Collect
    <3> QED BY <1>4, <3>1, Zenon DEF Unformatted, QueryError, Members, Collect
  <2>2. ~Done(query')
    BY <2>1, Zenon DEF AfterRun, Running, Deleting, Done
  <2>3. wst' = wst \/ StatusSound(wst)'
    BY <1>4, <2>1, CollectedIsSound, Zenon
  <2> QED BY <1>t, <2>1, <2>2, <2>3, EvidenceKept, Zenon
<1>5. CASE UpdateStatus \/ PassEnds
  <2>1. UNCHANGED <<disk, ms, misread, query>> /\ wst' = NoStatus /\ (st' = st \/ st' = wst)
    <3>1. CASE UpdateStatus
      BY <3>1, Zenon DEF UpdateStatus, Return
    <3>2. CASE PassEnds
      BY <3>2, Zenon DEF PassEnds, Return
    <3> QED BY <1>5, <3>1, <3>2, Zenon
  <2>2. StatusSound(wst)'
    BY <2>1, Zenon DEF NoStatus, StatusSound
  <2> QED BY <1>t, <2>1, <2>2, EvidenceKept, Zenon
<1>6. CASE SystemFormat \/ Annotate \/ Withdraw
  BY <1>t, <1>6, EvidenceKept DEF SystemFormat, Annotate, Withdraw
<1>7. ASSUME NEW n \in Nodes, AddNode(n) \/ PodFlips(n) PROVE EvidenceInv'
  BY <1>t, <1>7, EvidenceKept DEF AddNode, PodFlips
<1>8. ASSUME NEW n \in Nodes, ReplaceDrives(n) PROVE EvidenceInv'
  BY <1>t, <1>8, Zenon DEF ReplaceDrives, EvidenceInv, StatusSound, AnswerSound, WaitingNodes, Done
<1>9. CASE FormatFinishes
  <2>1. PICK S : /\ disk' = [n \in Nodes |-> IF n \in S THEN "data" ELSE disk[n]]
                 /\ ms' = (ms \/ S # {})
                 /\ UNCHANGED <<st, wst, query, misread>>
    BY <1>9, Zenon DEF FormatFinishes, FormatEnds
  <2>2. ~ms' => \A n \in Nodes : disk'[n] = "new"
    BY <2>1, Zenon DEF EvidenceInv
  <2> QED BY <1>t, <2>1, <2>2, Zenon DEF EvidenceInv, StatusSound, AnswerSound, WaitingNodes, Done
<1>10. CASE QueryFinishes
  <2>1. PICK kind \in {"unformatted", "timeout", "error", "members"} :
           /\ query' = Finished(query, Answer(kind))
           /\ kind = "unformatted" => ~ms \/ misread'
    <3>1. CASE query' = Finished(query, Answer(IF ms THEN "members" ELSE "unformatted"))
      BY <3>1, Zenon
    <3>2. ASSUME NEW kind \in {"timeout", "error", "unformatted"},
                 query' = Finished(query, Answer(kind)),
                 misread' = (misread \/ (ms /\ kind = "unformatted"))
          PROVE  kind = "unformatted" => ~ms \/ misread'
      BY <3>2, Zenon
    <3> QED BY <1>10, <3>1, <3>2, Zenon DEF QueryFinishes
  <2>2. query'.out = Answer(kind)
    BY <1>10, <1>t, <2>1, AnswerType, FinishedType DEF QueryFinishes, TypeOK
  <2>3. UNCHANGED <<disk, ms, st, wst>>
    BY <1>10, Zenon DEF QueryFinishes
  <2>m. misread => misread'
    BY <1>10, Zenon DEF QueryFinishes
  <2>4. AnswerSound(Answer(kind)) \/ (misread' /\ kind = "unformatted")
    BY <2>1, AnswersAreSound, Zenon
  <2>5. AnswerSound(query.out)'
    BY <2>2, <2>m, <2>4 DEF AnswerSound, WaitingNodes, Answer
  <2>6. StatusSound(st)' /\ StatusSound(wst)'
    BY <2>3, <2>m, Zenon DEF EvidenceInv, StatusSound, WaitingNodes
  <2> QED BY <1>t, <2>3, <2>5, <2>6, Zenon DEF EvidenceInv
<1>11. CASE JobsRemoved
  BY <1>t, <1>11, EvidenceKept, Zenon DEF JobsRemoved, NoJob, Done
<1>12. CASE JobExpires \/ HoldExpires
  BY <1>t, <1>12, EvidenceKept DEF JobExpires, HoldExpires
<1>13. CASE UNCHANGED vars
  BY <1>t, <1>13, EvidenceKept, Zenon DEF vars
<1> QED
  BY <1>1, <1>2, <1>3, <1>4, <1>5, <1>6, <1>7, <1>8, <1>9, <1>10, <1>11, <1>12, <1>13, Zenon
     DEF Next, Operator, ReconcileFormat, Human, Cluster

\* Only a pass that waits for the format creates its Job.
LEMMA OnlyFormattingCreates ==
    ASSUME TypeOK, Next, FormatCreated PROVE Formatting
<1> USE DEF object, memory, servers, daos, history, bounds, FormatCreated
<1>1. ~FormatDone
  BY Zenon DEF FormatDone, AfterRun, Deleting, Done
<1>2. ~(Unformatted \/ QueryError \/ Members)
  BY Zenon DEF Unformatted, QueryError, Members, Collect
<1>3. ~TimedOut
  BY Zenon DEF TimedOut, Collect
<1>4. ~(BeginPass \/ NoServers \/ Continue \/ AwaitServers \/ Held \/ Probing \/ ClearApproval
        \/ UpdateStatus \/ PassEnds)
  BY Zenon DEF BeginPass, NoServers, Continue, AwaitServers, Held, Probing, ClearApproval,
         UpdateStatus, PassEnds
<1>5. ~Human
  BY Zenon DEF Human, SystemFormat, Annotate, Withdraw, AddNode, ReplaceDrives
<1>6. ~(FormatFinishes \/ JobsRemoved \/ JobExpires)
  BY Zenon DEF FormatFinishes, JobsRemoved, JobExpires, NoJob, Done
<1>7. ~QueryFinishes /\ ~HoldExpires /\ \A n \in Nodes : ~PodFlips(n)
  BY Zenon DEF QueryFinishes, HoldExpires, PodFlips
<1> QED BY <1>1, <1>2, <1>3, <1>4, <1>5, <1>6, <1>7, Zenon DEF Next, Operator, ReconcileFormat, Cluster

\* A host is formatted only if it carried no data when the query behind the status
\* was answered, unless a formatted system was misread as unformatted.
THEOREM FormatsRestOnEvidence == Spec => FormatOnEvidence
<1>1. Init => EvidenceInv
  <2> SUFFICES ASSUME Init PROVE EvidenceInv
    BY Zenon
  <2> QED BY InitType, Zenon DEF Init, NoStatus, NoJob, Done, EvidenceInv, StatusSound
<1>2. EvidenceInv /\ [Next]_vars => [FormatCreated /\ ~misread => format'.cmd \subseteq wst.blank]_vars
  <2> SUFFICES ASSUME EvidenceInv, Next, FormatCreated, ~misread
               PROVE  format'.cmd \subseteq wst.blank
    BY Zenon DEF FormatCreated, vars
  <2>1. Formatting /\ TypeOK
    BY OnlyFormattingCreates, Zenon DEF EvidenceInv
  <2>2. format'.cmd = Hosts
    BY <2>1, Zenon DEF Formatting, FormatCreated, AfterRun, Running
  <2>3. wst.pending /\ StatusSound(wst) /\ sys.rendered \subseteq Nodes /\ sys.ready \subseteq Nodes
    BY <2>1, Zenon DEF Formatting, NeedFormat, EvidenceInv, TypeOK
  <2> QED BY <2>2, <2>3, Zenon DEF StatusSound, WaitingNodes, Hosts, FormatHosts
<1> QED BY <1>1, <1>2, EvidenceStep, PTL DEF Spec, FormatOnEvidence
=============================================================================
