----------------------------- MODULE PublicReview -----------------------------
(***************************************************************************)
(* One manuscript of the public first-gate review: the request that takes  *)
(* it in, the task that reviews it, the sweep of stuck jobs, and the       *)
(* administrators who decide on it or delete it.                           *)
(*                                                                         *)
(* Whoever fails the job and then the submission may die, or fail to save, *)
(* between the two: nothing takes the submission up again until the task   *)
(* is redelivered, and `abandoned` says so.                                *)
(*                                                                         *)
(* Bounds: Workers, Admins (requests of administrators at once),           *)
(* MaxDeliveries of the task.                                              *)
(***************************************************************************)
EXTENDS Naturals

CONSTANTS Workers, Admins, MaxDeliveries

VARIABLES
    row,        \* Submission: status, admin_decision, notification_status
    job,        \* status of its ReviewJob
    late,       \* the job is older than the sweep allows
    intake,     \* the request that takes the manuscript in
    task,       \* the deliveries of the task so far, one that waits, acknowledged or not
    worker,     \* per worker: where it is, and the row as it read it
    sweep,      \* where it is after it failed the job: "look" at the row, "save" it
    admin,      \* per request of an administrator: where it is
    abandoned   \* nobody is left to see to the row (a history variable)

vars == <<row, job, late, intake, task, worker, sweep, admin, abandoned>>

NoRow == [status |-> "none", decision |-> "none", notice |-> "none"]
Idle == [at |-> "idle"]
WorkerTo(w, where) == worker' = [worker EXCEPT ![w] = where]
AdminTo(a, where) == admin' = [admin EXCEPT ![a] = where]

\* save(update_fields) of a row that is gone fails.
Saved(r) == IF row = NoRow THEN NoRow ELSE r

Init ==
    /\ row = NoRow
    /\ job = "none"
    /\ late = FALSE
    /\ intake = "row"
    /\ task = [deliveries |-> 0, waits |-> FALSE, acked |-> FALSE]
    /\ worker = [w \in Workers |-> Idle]
    /\ sweep = "idle"
    /\ admin = [a \in Admins |-> Idle]
    /\ abandoned = FALSE

(***************************************************************************)
(* submit: the row, the job and the task, one after the other.             *)
(***************************************************************************)

TakeIn ==
    /\ intake = "row"
    /\ row' = [NoRow EXCEPT !.status = "processing"]
    /\ intake' = "job"
    /\ UNCHANGED <<job, late, task, worker, sweep, admin, abandoned>>

CreateJob ==
    /\ intake = "job"
    /\ job' = "queued"
    /\ intake' = "task"
    /\ UNCHANGED <<row, late, task, worker, sweep, admin, abandoned>>

\* The process dies before there is a job: no sweep will ever see the row.
IntakeDies ==
    /\ intake = "job"
    /\ intake' = "done"
    /\ abandoned' = TRUE
    /\ UNCHANGED <<row, job, late, task, worker, sweep, admin>>

\* The task is handed over, or the process dies before it is.
HandOver ==
    /\ intake = "task"
    /\ task' \in {task, [task EXCEPT !.waits = TRUE]}
    /\ intake' = "done"
    /\ UNCHANGED <<row, job, late, worker, sweep, admin, abandoned>>

(***************************************************************************)
(* run_public_review_task.                                                 *)
(***************************************************************************)

Start(w) ==
    /\ worker[w].at = "idle" /\ task.waits
    /\ task' = [task EXCEPT !.waits = FALSE, !.deliveries = @ + 1]
    /\ job' = "processing" /\ late' = FALSE
    /\ abandoned' = FALSE
    /\ WorkerTo(w, [at |-> "read"])
    /\ UNCHANGED <<row, intake, sweep, admin>>

\* The submission is read, or was deleted: the job fails.
Read(w) ==
    /\ worker[w].at = "read"
    /\ IF row = NoRow
       THEN job' = "failed" /\ WorkerTo(w, [at |-> "end"])
       ELSE UNCHANGED job /\ WorkerTo(w, [at |-> "review", row |-> row])
    /\ UNCHANGED <<row, late, intake, task, sweep, admin, abandoned>>

\* The review takes minutes.  submission.save() then writes every field, those of
\* the administrators too, as they were when it began; it brings a deleted row back.
Complete(w) ==
    /\ worker[w].at = "review"
    /\ row' = [worker[w].row EXCEPT !.status = "completed", !.notice = "pending"]
    /\ WorkerTo(w, [at |-> "mail"])
    /\ UNCHANGED <<job, late, intake, task, sweep, admin, abandoned>>

\* send_review_emails, the outcome of which is saved; on a row that is gone it
\* cannot be, which fails the job.
Mail(w) ==
    /\ worker[w].at = "mail"
    /\ \E outcome \in {"sent", "error"} : row' = Saved([row EXCEPT !.notice = outcome])
    /\ job' = IF row = NoRow THEN "failed" ELSE "completed"
    /\ WorkerTo(w, [at |-> "end"])
    /\ UNCHANGED <<late, intake, task, sweep, admin, abandoned>>

\* The review fails: the job first, then the submission.
Fail(w) ==
    /\ worker[w].at = "review"
    /\ job' = "failed"
    /\ WorkerTo(w, [at |-> "fail"])
    /\ UNCHANGED <<row, late, intake, task, sweep, admin, abandoned>>

\* An error of that save is reported and swallowed: the row stays as it is.
FailRow(w) ==
    /\ worker[w].at = "fail"
    /\ \/ row' = Saved([row EXCEPT !.status = "failed"]) /\ UNCHANGED abandoned
       \/ abandoned' = TRUE /\ UNCHANGED row
    /\ WorkerTo(w, [at |-> "end"])
    /\ UNCHANGED <<job, late, intake, task, sweep, admin>>

Acknowledge(w) ==
    /\ worker[w].at = "end"
    /\ task' = [task EXCEPT !.acked = TRUE]
    /\ WorkerTo(w, Idle)
    /\ UNCHANGED <<row, job, late, intake, sweep, admin, abandoned>>

\* The worker is killed, by the timeout of the queue or with the server, wherever
\* it is.
Dies(w) ==
    /\ worker[w].at # "idle"
    /\ abandoned' = (abandoned \/ worker[w].at = "fail")
    /\ WorkerTo(w, Idle)
    /\ UNCHANGED <<row, job, late, intake, task, sweep, admin>>

\* The lease of a task that is not acknowledged runs out.
Redeliver ==
    /\ 0 < task.deliveries /\ task.deliveries < MaxDeliveries
    /\ ~task.acked /\ ~task.waits
    /\ task' = [task EXCEPT !.waits = TRUE]
    /\ UNCHANGED <<row, job, late, intake, worker, sweep, admin, abandoned>>

(***************************************************************************)
(* sweep_stuck_jobs_task.                                                  *)
(***************************************************************************)

TimePasses ==
    /\ job \in {"queued", "processing"} /\ ~late
    /\ late' = TRUE
    /\ UNCHANGED <<row, job, intake, task, worker, sweep, admin, abandoned>>

\* Mutant: the sweep fails the job and leaves the submission.
NeverLooked == FALSE

SweepLooks == row.status = "processing"

\* The job is failed if it still has the status the sweep found ...
SweepJob ==
    /\ sweep = "idle"
    /\ job \in {"queued", "processing"} /\ late
    /\ job' = "failed" /\ late' = FALSE
    /\ sweep' = "look"
    /\ UNCHANGED <<row, intake, task, worker, admin, abandoned>>

\* ... then the submission is read ...
SweepReads ==
    /\ sweep = "look"
    /\ sweep' = IF SweepLooks THEN "save" ELSE "idle"
    /\ UNCHANGED <<row, job, late, intake, task, worker, admin, abandoned>>

\* ... and saved as failed, whatever it has become.
SweepRow ==
    /\ sweep = "save"
    /\ row' = Saved([row EXCEPT !.status = "failed"])
    /\ sweep' = "idle"
    /\ UNCHANGED <<job, late, intake, task, worker, admin, abandoned>>

\* The sweep is killed, or its save fails; the next one does not see the job.
SweepDies ==
    /\ sweep # "idle"
    /\ sweep' = "idle"
    /\ abandoned' = TRUE
    /\ UNCHANGED <<row, job, late, intake, task, worker, admin>>

(***************************************************************************)
(* admin_submission_accept, admin_submission_reject, admin_submission_delete. *)
(***************************************************************************)

LoadDecide(a) ==
    /\ admin[a].at = "idle" /\ row # NoRow /\ row.decision = "none"
    /\ \E d \in {"ACCEPTED", "REJECTED"} : AdminTo(a, [at |-> "save", decision |-> d])
    /\ UNCHANGED <<row, job, late, intake, task, worker, sweep, abandoned>>

Decide(a) ==
    /\ admin[a].at = "save"
    /\ row' = Saved([row EXCEPT !.decision = admin[a].decision])
    /\ AdminTo(a, IF row = NoRow THEN Idle ELSE [at |-> "mail"])
    /\ UNCHANGED <<job, late, intake, task, worker, sweep, abandoned>>

\* The letter with the decision, and by admin_submission_send_email any other.
Tell(a) ==
    /\ admin[a].at = "mail" \/ (admin[a].at = "idle" /\ row # NoRow)
    /\ \E outcome \in {"sent", "error"} : row' = Saved([row EXCEPT !.notice = outcome])
    /\ AdminTo(a, Idle)
    /\ UNCHANGED <<job, late, intake, task, worker, sweep, abandoned>>

Delete ==
    /\ row # NoRow
    /\ row' = NoRow
    /\ UNCHANGED <<job, late, intake, task, worker, sweep, admin, abandoned>>

Next ==
    \/ TakeIn \/ CreateJob \/ IntakeDies \/ HandOver \/ Redeliver \/ Delete
    \/ TimePasses \/ SweepJob \/ SweepReads \/ SweepRow \/ SweepDies
    \/ \E w \in Workers :
          \/ Start(w) \/ Read(w) \/ Complete(w) \/ Mail(w) \/ Fail(w) \/ FailRow(w)
          \/ Acknowledge(w) \/ Dies(w)
    \/ \E a \in Admins : LoadDecide(a) \/ Decide(a) \/ Tell(a)

\* The request, the sweep and a worker that has failed the job go on unless they
\* die, which they may at any step; time passes and the sweep is scheduled.  A
\* review need not end, and a task need not be delivered again.
Fairness ==
    /\ WF_vars(CreateJob) /\ WF_vars(HandOver)
    /\ WF_vars(TimePasses) /\ WF_vars(SweepJob) /\ WF_vars(SweepReads) /\ WF_vars(SweepRow)
    /\ \A w \in Workers : WF_vars(FailRow(w))

Spec == Init /\ [][Next]_vars /\ Fairness

(***************************************************************************)
(* Properties.                                                             *)
(***************************************************************************)

\* Every status is one the code writes, and a worker has one place.
TypeOK ==
    /\ row \in [status : {"none", "processing", "completed", "failed"},
                decision : {"none", "ACCEPTED", "REJECTED"}, notice : {"none", "pending", "sent", "error"}]
    /\ job \in {"none", "queued", "processing", "completed", "failed"}
    /\ late \in BOOLEAN /\ sweep \in {"idle", "look", "save"} /\ abandoned \in BOOLEAN
    /\ intake \in {"row", "job", "task", "done"}
    /\ task \in [deliveries : 0..MaxDeliveries, waits : BOOLEAN, acked : BOOLEAN]
    /\ \A w \in Workers : worker[w].at \in {"idle", "read", "review", "mail", "fail", "end"}
    /\ \A a \in Admins : admin[a].at \in {"idle", "save", "mail"}

\* The page of an author who sent a manuscript polls until the status is no longer
\* "processing".  That happens although the task is never handed over, workers die
\* in the review, and the task is delivered again beside a late worker or the sweep:
\* the only way to stay is that whoever failed the job, or was to create it, dies or
\* cannot save before the submission follows, and the task never starts again.
SubmissionEnds == row.status = "processing" ~> row.status # "processing" \/ abandoned

\* "Submission already has an admin decision": it is decided once.
DecisionStays ==
    [][row.decision # "none" => row' = NoRow \/ row'.decision = row.decision]_vars
=============================================================================
