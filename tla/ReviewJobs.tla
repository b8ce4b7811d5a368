----------------------------- MODULE ReviewJobs -----------------------------
(***************************************************************************)
(* The background jobs of one operation on one packet: how the web         *)
(* handlers queue them (_queue_unique_job), how the workers of the task    *)
(* queue run them (src/review/tasks.py), and how the hourly sweep gives up *)
(* on the ones that are stuck.                                             *)
(*                                                                         *)
(* A job is a row (status) and a task of the queue (task).  The queue      *)
(* delivers a task at least once: a delivered task that is not             *)
(* acknowledged in time is delivered again, also while its first run is    *)
(* still going (the lease starts when the cluster fetches the task, not    *)
(* when a worker gets to it).  A worker may be killed at any point of a    *)
(* run.  The sweep is itself a task and keeps a worker busy.               *)
(*                                                                         *)
(* Bounds: MaxJobs (jobs ever queued), MaxDeliveries (of one task),        *)
(* MaxTexts (edits of the text the runs read).                             *)
(***************************************************************************)
EXTENDS Naturals

CONSTANTS Workers, MaxJobs, MaxDeliveries, MaxTexts

ASSUME JobsAssumption ==
    MaxJobs \in Nat /\ MaxDeliveries \in Nat /\ MaxTexts \in Nat \ {0}

VARIABLES
    status,      \* status of each ReviewJob; "none" before it is queued
    overdue,     \* the jobs whose created_at or updated_at is past its cutoff
    task,        \* each job's task: "none", "waiting", "leased" or "gone"
    deliveries,  \* how often each task was leased
    worker,      \* what each worker is doing
    text,        \* the text the operation reads: the number of its last edit
    result       \* the text the stored result was made from; 0 when there is none

vars == <<status, overdue, task, deliveries, worker, text, result>>

Jobs == 1..MaxJobs
Active == {"queued", "processing"}
Finished == {"completed", "failed"}
JobStatuses == {"none"} \union Active \union Finished

Idle == [at |-> "idle"]
Running(j, t) == [at |-> "run", job |-> j, read |-> t]
Reporting(j) == [at |-> "report", job |-> j]
Sweeping(listed) == [at |-> "sweep", listed |-> listed]

RunsJob(w, j) == worker[w].at \in {"run", "report"} /\ worker[w].job = j
Goto(w, where) == worker' = [worker EXCEPT ![w] = where]
SomeActive == \E j \in Jobs : status[j] \in Active

Init ==
    /\ status = [j \in Jobs |-> "none"]
    /\ overdue = {}
    /\ task = [j \in Jobs |-> "none"]
    /\ deliveries = [j \in Jobs |-> 0]
    /\ worker = [w \in Workers |-> Idle]
    /\ text = 1
    /\ result = 0

(***************************************************************************)
(* The web handlers.                                                       *)
(***************************************************************************)

\* _queue_unique_job: the row is created unless one is active; the unique
\* constraint decides between simultaneous requests.
QueueJob(j) ==
    /\ status[j] = "none"
    /\ \A i \in Jobs : i < j => status[i] # "none"
    /\ ~SomeActive
    /\ status' = [status EXCEPT ![j] = "queued"]
    /\ UNCHANGED <<overdue, task, deliveries, worker, text, result>>

\* on_commit: the task is handed to the queue, unless the process dies first.
Enqueue(j) ==
    /\ status[j] # "none"
    /\ task[j] = "none"
    /\ task' = [task EXCEPT ![j] = "waiting"]
    /\ UNCHANGED <<status, overdue, deliveries, worker, text, result>>

\* author_update_manuscript: refused while a job is active; the result of the
\* old text is removed.
Edit ==
    /\ text < MaxTexts
    /\ ~SomeActive
    /\ text' = text + 1
    /\ result' = 0
    /\ UNCHANGED <<status, overdue, task, deliveries, worker>>

(***************************************************************************)
(* The task queue.                                                         *)
(***************************************************************************)

\* Mutant: the job is saved as processing beside another active one.
StartRunBeside(w, j) ==
    /\ worker[w] = Idle
    /\ task[j] = "waiting"
    /\ task' = [task EXCEPT ![j] = "leased"]
    /\ deliveries' = [deliveries EXCEPT ![j] = @ + 1]
    /\ status' = [status EXCEPT ![j] = "processing"]
    /\ overdue' = overdue \ {j}
    /\ Goto(w, Running(j, text))
    /\ UNCHANGED <<text, result>>

\* An idle worker gets a task and saves its job as processing, whatever the job
\* is by now.  The unique constraint refuses that while another job is active:
\* the task fails and stays leased.
StartRun(w, j) ==
    /\ worker[w] = Idle
    /\ task[j] = "waiting"
    /\ task' = [task EXCEPT ![j] = "leased"]
    /\ deliveries' = [deliveries EXCEPT ![j] = @ + 1]
    /\ IF \E i \in Jobs \ {j} : status[i] \in Active
       THEN UNCHANGED <<status, overdue, worker>>
       ELSE /\ status' = [status EXCEPT ![j] = "processing"]
            /\ overdue' = overdue \ {j}
            /\ Goto(w, Running(j, text))
    /\ UNCHANGED <<text, result>>

\* The lease of an unacknowledged task runs out (retry).
LeaseExpires(j) ==
    /\ task[j] = "leased"
    /\ deliveries[j] < MaxDeliveries
    /\ task' = [task EXCEPT ![j] = "waiting"]
    /\ UNCHANGED <<status, overdue, deliveries, worker, text, result>>

\* The run stores its result, made from the text it read.
StoreResult(w) ==
    /\ worker[w].at = "run"
    /\ result' = worker[w].read
    /\ Goto(w, Reporting(worker[w].job))
    /\ UNCHANGED <<status, overdue, task, deliveries, text>>

\* The end of a run: the job's status is saved unconditionally and the task
\* is acknowledged.
EndRun(w, outcome) ==
    /\ status' = [status EXCEPT ![worker[w].job] = outcome]
    /\ task' = [task EXCEPT ![worker[w].job] = "gone"]
    /\ Goto(w, Idle)
    /\ UNCHANGED <<overdue, deliveries, text, result>>

Complete(w) == worker[w].at = "report" /\ EndRun(w, "completed")
Fail(w) == worker[w].at = "run" /\ EndRun(w, "failed")

\* The worker reaches the timeout of the queue, crashes or is restarted.
Killed(w) ==
    /\ worker[w] # Idle
    /\ Goto(w, Idle)
    /\ UNCHANGED <<status, overdue, task, deliveries, text, result>>

(***************************************************************************)
(* Time and the sweep.                                                     *)
(***************************************************************************)

\* A queued job waits 10 minutes; a processing one 30 minutes, by which time
\* the queue has killed the run that saved it (timeout 1800 seconds).
TimePasses(j) ==
    /\ status[j] \in Active /\ j \notin overdue
    /\ status[j] = "processing" => \A w \in Workers : ~RunsJob(w, j)
    /\ overdue' = overdue \union {j}
    /\ UNCHANGED <<status, task, deliveries, worker, text, result>>

\* Mutant: only the jobs that never started are listed.
SweepListsQueued(w) ==
    /\ worker[w] = Idle
    /\ \E j \in overdue : status[j] = "queued"
    /\ Goto(w, Sweeping({<<j, status[j]>> : j \in {i \in overdue : status[i] = "queued"}}))
    /\ UNCHANGED <<status, overdue, task, deliveries, text, result>>

\* sweep_stuck_jobs_task lists its candidates with the status they have ...
SweepLists(w) ==
    /\ worker[w] = Idle
    /\ \E j \in overdue : status[j] \in Active
    /\ Goto(w, Sweeping({<<j, status[j]>> : j \in {i \in overdue : status[i] \in Active}}))
    /\ UNCHANGED <<status, overdue, task, deliveries, text, result>>

\* Mutant: the candidate is failed whatever it has become.
SweepFailsAny(w, j) ==
    /\ worker[w].at = "sweep"
    /\ \E s \in Active : <<j, s>> \in worker[w].listed
    /\ Goto(w, Sweeping({c \in worker[w].listed : c[1] # j}))
    /\ status' = [status EXCEPT ![j] = "failed"]
    /\ UNCHANGED <<overdue, task, deliveries, text, result>>

\* ... and fails each one that still has that status.
SweepFails(w, j) ==
    /\ worker[w].at = "sweep"
    /\ \E s \in Active : <<j, s>> \in worker[w].listed
    /\ Goto(w, Sweeping({c \in worker[w].listed : c[1] # j}))
    /\ status' = IF <<j, status[j]>> \in worker[w].listed
                 THEN [status EXCEPT ![j] = "failed"]
                 ELSE status
    /\ UNCHANGED <<overdue, task, deliveries, text, result>>

SweepEnds(w) ==
    /\ worker[w] = Sweeping({})
    /\ Goto(w, Idle)
    /\ UNCHANGED <<status, overdue, task, deliveries, text, result>>

(***************************************************************************)
(* The specification.                                                      *)
(***************************************************************************)

JobStep(j) == QueueJob(j) \/ Enqueue(j) \/ LeaseExpires(j) \/ TimePasses(j)

RunStep(w) == StoreResult(w) \/ Complete(w) \/ Fail(w) \/ Killed(w)

SweepStep(w) == SweepLists(w) \/ SweepEnds(w) \/ \E j \in Jobs : SweepFails(w, j)

Next ==
    \/ Edit
    \/ \E j \in Jobs : JobStep(j)
    \/ \E w \in Workers : RunStep(w) \/ SweepStep(w)
    \/ \E w \in Workers, j \in Jobs : StartRun(w, j)

Spec == Init /\ [][Next]_vars

\* Time passes; a run ends (it is killed at the timeout if need be); the hourly
\* schedule gives the sweep a worker again and again, and it is not killed
\* every time: it takes a few queries.
Fairness ==
    /\ \A j \in Jobs : WF_vars(TimePasses(j))
    /\ \A w \in Workers :
         /\ WF_vars(RunStep(w)) /\ WF_vars(SweepEnds(w))
         /\ SF_vars(SweepLists(w))
         /\ SF_vars(\E j \in Jobs : SweepFails(w, j))

FairSpec == Spec /\ Fairness

(***************************************************************************)
(* Properties.                                                             *)
(***************************************************************************)

\* Every field has a value the code can write.
TypeOK ==
    /\ status \in [Jobs -> JobStatuses]
    /\ overdue \subseteq Jobs
    /\ task \in [Jobs -> {"none", "waiting", "leased", "gone"}]
    /\ deliveries \in [Jobs -> Nat]
    /\ text \in 1..MaxTexts
    /\ result \in 0..MaxTexts
    /\ worker \in [Workers ->
           {Idle} \union {Running(j, t) : j \in Jobs, t \in 1..MaxTexts}
                  \union {Reporting(j) : j \in Jobs}
                  \union {Sweeping(listed) : listed \in SUBSET (Jobs \X Active)}]

\* An operation has at most one active job, although an old job's task may
\* be delivered, and save it as processing, at any time.
OneActiveJob ==
    \A i, j \in Jobs : status[i] \in Active /\ status[j] \in Active => i = j

\* A job that finished after the sweep listed it is not failed by the sweep.
SweepSparesFinished ==
    [][\A j \in Jobs :
          status[j] \in Finished /\ status'[j] # status[j] =>
              ~ \E w \in Workers : worker[w].at = "sweep" /\ worker'[w] # worker[w]]_vars

\* "An analysis for this manuscript is still running": the text does not change
\* under a run that has read it.
EditsWaitForRuns ==
    [][text' # text => \A w \in Workers : worker[w].at # "run"]_vars

\* The stored result is never one of a text that has been edited since.
ResultIsCurrent == result \in {0, text}

\* No job blocks its operation for ever: whatever happens to its task and its
\* workers, an active job ends.
ActiveJobEnds == \A j \in Jobs : status[j] \in Active ~> status[j] \notin Active
=============================================================================
