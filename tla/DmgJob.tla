------------------------------- MODULE DmgJob -------------------------------
(***************************************************************************)
(* internal/dmg/dmg.go: how the operator runs one dmg or daos command.     *)
(*                                                                         *)
(* A command is a Kubernetes Job with a fixed name per purpose             *)
(* ("<system>-dmg-rankop", "<system>-dmg-format", ...).  JobRunner.Run is  *)
(* called on every reconcile with the command wanted NOW; it creates the   *)
(* Job when there is none, reports "not done" while one exists, and once   *)
(* it finished returns its output and deletes it.  The name is all that    *)
(* ties a Job to a request: Run never compares the command of the Job it   *)
(* finds with the command it was asked for.                                *)
(*                                                                         *)
(* The operators below are constant-level; a component keeps one Job value *)
(* per Job name.                                                           *)
(***************************************************************************)
CONSTANT None   \* "no value": no command, no output, no annotation

\* A Job value: the command it was created with and, once finished, its output.
Job(Cmd, Out) ==
    [phase : {"absent", "deleting"}, cmd : {None}, out : {None}]
      \cup [phase : {"running"}, cmd : Cmd, out : {None}]
      \cup [phase : {"finished"}, cmd : Cmd, out : Out]

NoJob == [phase |-> "absent", cmd |-> None, out |-> None]

\* The Job object after Delete with background propagation: it may linger with
\* a deletion timestamp.
Deleting == [phase |-> "deleting", cmd |-> None, out |-> None]

Running(cmd) == [phase |-> "running", cmd |-> cmd, out |-> None]

\* jobFinished: Complete or Failed.
Done(job) == job.phase = "finished"

\* The Job after Run(cmd): created when absent, deleted when its output was
\* read, untouched while it runs or is being removed.
AfterRun(job, cmd) ==
    IF job.phase = "absent" THEN Running(cmd)
    ELSE IF Done(job) THEN Deleting
    ELSE job

\* Kubernetes: the pod ends with output out.
Finished(job, out) == [job EXCEPT !.phase = "finished", !.out = out]
=============================================================================
