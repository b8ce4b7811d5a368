-------------------------- MODULE ReviewJobsProofs --------------------------
(***************************************************************************)
(* What holds of the jobs of ReviewJobs for any number of jobs, deliveries *)
(* and edits: one active job per operation with any workers, and, with the *)
(* one worker FLEXEE_Q_WORKERS defaults to, texts that wait for the runs   *)
(* that read them and results that are never stale.                        *)
(***************************************************************************)
EXTENDS ReviewJobs, TLAPS

\* The statuses are a function, which is all that OneActiveJob needs.
StatusType == status \in [Jobs -> JobStatuses]

OneActiveInv == StatusType /\ OneActiveJob

\* Every step of the jobs keeps at most one of them active: a row is created,
\* and saved as processing, only while no other one is active.
LEMMA OneActiveStep ==
    ASSUME OneActiveInv, [Next]_vars
    PROVE  OneActiveInv'
  <1> USE DEF OneActiveInv, StatusType, OneActiveJob, JobStatuses, Active, Finished
  <1>1. CASE Edit \/ UNCHANGED vars
    BY <1>1 DEF Edit, vars
  <1>2. ASSUME NEW j \in Jobs, JobStep(j)
        PROVE  OneActiveInv'
    BY <1>2 DEF JobStep, QueueJob, Enqueue, LeaseExpires, TimePasses, SomeActive
  <1>3. ASSUME NEW w \in Workers, NEW j \in Jobs, StartRun(w, j)
        PROVE  OneActiveInv'
    <2>1. CASE \E i \in Jobs \ {j} : status[i] \in Active
      BY <1>3, <2>1 DEF StartRun
    <2>2. CASE ~ \E i \in Jobs \ {j} : status[i] \in Active
      <3>1. status' = [status EXCEPT ![j] = "processing"]
        BY <1>3, <2>2 DEF StartRun
      <3> QED  BY <2>2, <3>1
    <2> QED  BY <2>1, <2>2
  <1>4. ASSUME NEW w \in Workers, SweepStep(w)
        PROVE  OneActiveInv'
    BY <1>4 DEF SweepStep, SweepLists, SweepFails, SweepEnds
  <1>5. ASSUME NEW w \in Workers, RunStep(w)
        PROVE  OneActiveInv'
    BY <1>5 DEF RunStep, StoreResult, Complete, Fail, EndRun, Killed
  <1> QED  BY <1>1, <1>2, <1>3, <1>4, <1>5 DEF Next

\* The places of a worker.
Places ==
    {Idle} \union {Running(j, t) : j \in Jobs, t \in 1..MaxTexts}
           \union {Reporting(j) : j \in Jobs}
           \union {Sweeping(listed) : listed \in SUBSET (Jobs \X Active)}

LEMMA PlaceFields ==
    /\ \A p \in Places : p.at = "run" => p.job \in Jobs /\ p.read \in 1..MaxTexts
    /\ \A p \in Places : p.at = "report" => p.job \in Jobs
    /\ \A p \in Places : p.at = "sweep" => p.listed \in SUBSET (Jobs \X Active)
  BY DEF Places, Idle, Running, Reporting, Sweeping

LEMMA TypeStep ==
    ASSUME TypeOK, [Next]_vars
    PROVE  TypeOK'
  <1> USE JobsAssumption
  <1>1. CASE Edit \/ UNCHANGED vars
    BY <1>1 DEF TypeOK, Edit, vars
  <1>2. ASSUME NEW j \in Jobs, JobStep(j)
        PROVE  TypeOK'
    BY <1>2 DEF TypeOK, JobStep, QueueJob, Enqueue, LeaseExpires, TimePasses, JobStatuses, Active
  <1>3. ASSUME NEW w \in Workers, NEW j \in Jobs, StartRun(w, j)
        PROVE  TypeOK'
    <2>1. deliveries' \in [Jobs -> Nat] /\ task' \in [Jobs -> {"none", "waiting", "leased", "gone"}]
      BY <1>3 DEF TypeOK, StartRun
    <2>2. CASE UNCHANGED <<status, overdue, worker>>
      BY <1>3, <2>1, <2>2 DEF TypeOK, StartRun
    <2>3. CASE ~ UNCHANGED <<status, overdue, worker>>
      <3>1. /\ status' = [status EXCEPT ![j] = "processing"]
            /\ overdue' = overdue \ {j}
            /\ worker' = [worker EXCEPT ![w] = Running(j, text)]
            /\ UNCHANGED <<text, result>>
        BY <1>3, <2>3 DEF StartRun, Goto
      <3>2. Running(j, text) \in Places
        BY DEF TypeOK, Places
      <3>3. worker' \in [Workers -> Places]
        BY <3>1, <3>2 DEF TypeOK, Places
      <3> QED  BY <2>1, <3>1, <3>3 DEF TypeOK, Places, JobStatuses, Active
    <2> QED  BY <2>2, <2>3
  <1>4. ASSUME NEW w \in Workers, SweepStep(w)
        PROVE  TypeOK'
    <2>1. worker \in [Workers -> Places]
      BY DEF TypeOK, Places
    <2>2. ASSUME NEW listed \in SUBSET (Jobs \X Active), Goto(w, Sweeping(listed))
          PROVE  worker' \in [Workers -> Places]
      <3>1. Sweeping(listed) \in Places
        BY DEF Places
      <3> QED  BY <2>1, <2>2, <3>1 DEF Goto
    <2>3. CASE SweepLists(w)
      <3> DEFINE listed == {<<j, status[j]>> : j \in {i \in overdue : status[i] \in Active}}
      <3>1. listed \in SUBSET (Jobs \X Active)
        BY DEF TypeOK
      <3> HIDE DEF listed
      <3>2. Goto(w, Sweeping(listed)) /\ UNCHANGED <<status, overdue, task, deliveries, text, result>>
        BY <2>3 DEF SweepLists, listed
      <3>3. worker' \in [Workers -> Places]
        BY <2>2, <3>1, <3>2
      <3> QED  BY <3>2, <3>3 DEF TypeOK, Places
    <2>4. ASSUME NEW j \in Jobs, SweepFails(w, j)
          PROVE  TypeOK'
      <3> DEFINE rest == {c \in worker[w].listed : c[1] # j}
      <3>1. rest \in SUBSET (Jobs \X Active)
        BY <2>1, <2>4, PlaceFields DEF SweepFails
      <3> HIDE DEF rest
      <3>2. /\ Goto(w, Sweeping(rest)) /\ UNCHANGED <<overdue, task, deliveries, text, result>>
            /\ status' = [status EXCEPT ![j] = "failed"] \/ status' = status
        BY <2>4 DEF SweepFails, rest
      <3>3. worker' \in [Workers -> Places]
        BY <2>2, <3>1, <3>2
      <3> QED  BY <3>2, <3>3 DEF TypeOK, Places, JobStatuses, Finished
    <2>5. CASE SweepEnds(w)
      BY <2>5 DEF TypeOK, SweepEnds, Goto
    <2> QED  BY <1>4, <2>3, <2>4, <2>5 DEF SweepStep
  <1>5. ASSUME NEW w \in Workers, RunStep(w)
        PROVE  TypeOK'
    <2>1. worker \in [Workers -> Places]
      BY DEF TypeOK, Places
    <2>2. CASE StoreResult(w)
      <3>1. worker[w].read \in 1..MaxTexts /\ Reporting(worker[w].job) \in Places
        BY <2>1, <2>2, PlaceFields DEF StoreResult, Places
      <3>2. worker' \in [Workers -> Places]
        BY <2>1, <2>2, <3>1 DEF StoreResult, Goto
      <3> QED  BY <2>2, <3>1, <3>2 DEF StoreResult, TypeOK, Places
    <2>3. CASE Complete(w) \/ Fail(w)
      BY <2>1, <2>3, PlaceFields DEF Complete, Fail, EndRun, Goto, TypeOK, JobStatuses, Finished
    <2>4. CASE Killed(w)
      BY <2>4 DEF Killed, Goto, TypeOK
    <2> QED  BY <1>5, <2>2, <2>3, <2>4 DEF RunStep
  <1> QED  BY <1>1, <1>2, <1>3, <1>4, <1>5 DEF Next

\* Every reachable state of the jobs is well typed: what _queue_unique_job, the
\* task wrappers and the sweep write are statuses the API knows.
THEOREM TypeCorrect == Spec => []TypeOK
  <1>1. Init => TypeOK
    BY JobsAssumption DEF Init, TypeOK, JobStatuses
  <1> QED  BY <1>1, TypeStep, PTL DEF Spec

\* An operation has at most one active job, however tasks are delivered again,
\* workers die and the sweep interferes (queue_unique_job and the constraint
\* review_unique_active_job).
THEOREM OneActive == Spec => []OneActiveJob
  <1>1. Init => OneActiveInv
    BY DEF Init, OneActiveInv, StatusType, OneActiveJob, JobStatuses, Active
  <1>2. OneActiveInv /\ [Next]_vars => OneActiveInv'
    BY OneActiveStep
  <1>3. OneActiveInv => OneActiveJob
    BY DEF OneActiveInv
  <1> QED  BY <1>1, <1>2, <1>3, PTL DEF Spec

\* A step that changes the status of a finished job moves no sweeping worker: a
\* run ends as itself, a delivery finds an idle worker, and a sweep touches only
\* what it listed, with the active status it listed it with.
LEMMA SparesStep ==
    ASSUME TypeOK, [Next]_vars, NEW j \in Jobs,
           status[j] \in Finished, status'[j] # status[j],
           NEW w \in Workers, worker[w].at = "sweep"
    PROVE  worker'[w] = worker[w]
  <1>0. worker \in [Workers -> Places] /\ status \in [Jobs -> JobStatuses]
    BY DEF TypeOK, Places
  <1>1. CASE Edit \/ UNCHANGED vars
    BY <1>1 DEF Edit, vars
  <1>2. ASSUME NEW i \in Jobs, JobStep(i)
        PROVE  worker'[w] = worker[w]
    BY <1>2 DEF JobStep, QueueJob, Enqueue, LeaseExpires, TimePasses
  <1>3. ASSUME NEW v \in Workers, NEW i \in Jobs, StartRun(v, i)
        PROVE  worker'[w] = worker[w]
    <2>1. v # w
      BY <1>3 DEF StartRun, Idle
    <2> QED  BY <1>0, <1>3, <2>1 DEF StartRun, Goto
  <1>4. ASSUME NEW v \in Workers, RunStep(v)
        PROVE  worker'[w] = worker[w]
    <2>1. v # w
      BY <1>4 DEF RunStep, StoreResult, Complete, Fail, Killed
    <2> QED  BY <1>0, <1>4, <2>1 DEF RunStep, StoreResult, Complete, Fail, EndRun, Killed, Goto
  <1>5. ASSUME NEW v \in Workers, NEW i \in Jobs, SweepFails(v, i)
        PROVE  FALSE
    <2>1. worker[v].listed \in SUBSET (Jobs \X Active)
      BY <1>0, <1>5, PlaceFields DEF SweepFails
    <2>2. i = j /\ <<j, status[j]>> \in worker[v].listed
      BY <1>0, <1>5 DEF SweepFails
    <2>3. status[j] \in Active
      BY <2>1, <2>2
    <2> QED  BY <2>3 DEF Active, Finished
  <1>6. ASSUME NEW v \in Workers, SweepLists(v) \/ SweepEnds(v)
        PROVE  FALSE
    BY <1>6 DEF SweepLists, SweepEnds
  <1> QED  BY <1>1, <1>2, <1>3, <1>4, <1>5, <1>6 DEF Next, SweepStep

\* The sweep never fails a job that finished after it was listed, however many
\* workers sweep and run at once (sweep_stuck_jobs_task fails a candidate by an
\* update that names the status it read).
THEOREM FinishedAreSpared == Spec => SweepSparesFinished
  <1>1. TypeOK /\ [Next]_vars =>
          [\A j \in Jobs :
              status[j] \in Finished /\ status'[j] # status[j] =>
                  ~ \E w \in Workers : worker[w].at = "sweep" /\ worker'[w] # worker[w]]_vars
    BY SparesStep
  <1> QED  BY <1>1, TypeCorrect, PTL DEF Spec, SweepSparesFinished

(***************************************************************************)
(* One worker.  Nothing but its own run touches the job it runs: the sweep *)
(* and a second delivery need a worker too.  So the job stays processing,  *)
(* and the text stays as the run read it.                                  *)
(***************************************************************************)

\* What a worker is doing, for every job and text.
WorkerType ==
    \A w \in Workers :
        \/ worker[w] = Idle
        \/ \E j \in Jobs : \E t \in Nat : worker[w] = Running(j, t)
        \/ \E j \in Jobs : worker[w] = Reporting(j)
        \/ \E listed : worker[w] = Sweeping(listed)

\* A run's job is processing, and its text the current one.
RunIsGuarded ==
    \A w \in Workers, j \in Jobs :
        /\ \A t \in Nat : worker[w] = Running(j, t) => status[j] = "processing" /\ t = text
        /\ worker[w] = Reporting(j) => status[j] = "processing"

OneWorkerInv ==
    /\ StatusType
    /\ worker = [w \in Workers |-> worker[w]]
    /\ text \in Nat
    /\ WorkerType
    /\ RunIsGuarded
    /\ ResultIsCurrent

\* The shapes of a worker's record do not overlap.
LEMMA Shapes ==
    /\ \A j, t : Running(j, t).at = "run" /\ Running(j, t).job = j /\ Running(j, t).read = t
    /\ \A j : Reporting(j).at = "report" /\ Reporting(j).job = j
    /\ \A l : Sweeping(l).at = "sweep" /\ Sweeping(l).listed = l
    /\ Idle.at = "idle"
    /\ \A i, j, t, l : /\ Running(i, t) # Reporting(j) /\ Running(i, t) # Idle
                       /\ Running(i, t) # Sweeping(l) /\ Reporting(j) # Idle
                       /\ Reporting(j) # Sweeping(l) /\ Sweeping(l) # Idle
  BY DEF Running, Reporting, Sweeping, Idle

\* Every step of the only worker, and of the web handlers beside it, keeps its
\* run guarded.
LEMMA OneWorkerStep ==
    ASSUME NEW w0, Workers = {w0}, OneWorkerInv, [Next]_vars
    PROVE  OneWorkerInv'
  <1> USE Shapes DEF OneWorkerInv, StatusType, JobStatuses, Active, Finished, ResultIsCurrent
  <1>1. CASE UNCHANGED vars
    BY <1>1 DEF vars, WorkerType, RunIsGuarded
  <1>2. CASE Edit
    <2>1. worker' = worker /\ status' = status /\ text' = text + 1 /\ result' = 0 /\ ~SomeActive
      BY <1>2 DEF Edit
    <2>2. \A w \in Workers, j \in Jobs :
             (\A t \in Nat : worker[w] # Running(j, t)) /\ worker[w] # Reporting(j)
      BY <2>1 DEF SomeActive, RunIsGuarded
    <2> QED  BY <2>1, <2>2 DEF WorkerType, RunIsGuarded
  <1>3. ASSUME NEW j \in Jobs, JobStep(j)
        PROVE  OneWorkerInv'
    <2>1. worker' = worker /\ text' = text /\ result' = result
      BY <1>3 DEF JobStep, QueueJob, Enqueue, LeaseExpires, TimePasses
    <2>2. status' \in [Jobs -> JobStatuses]
      BY <1>3 DEF JobStep, QueueJob, Enqueue, LeaseExpires, TimePasses
    <2>3. \A i \in Jobs : status[i] = "processing" => status'[i] = "processing"
      BY <1>3 DEF JobStep, QueueJob, Enqueue, LeaseExpires, TimePasses
    <2> QED  BY <2>1, <2>2, <2>3 DEF WorkerType, RunIsGuarded
  <1>4. ASSUME NEW j \in Jobs, StartRun(w0, j)
        PROVE  OneWorkerInv'
    <2>1. CASE \E i \in Jobs \ {j} : status[i] \in Active
      BY <1>4, <2>1 DEF StartRun, WorkerType, RunIsGuarded
    <2>2. CASE ~ \E i \in Jobs \ {j} : status[i] \in Active
      <3>1. /\ status' = [status EXCEPT ![j] = "processing"]
            /\ worker' = [worker EXCEPT ![w0] = Running(j, text)]
            /\ text' = text /\ result' = result
        BY <1>4, <2>2 DEF StartRun, Goto
      <3>2. worker'[w0] = Running(j, text) /\ status'[j] = "processing"
        BY <3>1
      <3>3. WorkerType' /\ RunIsGuarded'
        BY <3>1, <3>2 DEF WorkerType, RunIsGuarded
      <3> QED  BY <3>1, <3>3
    <2> QED  BY <2>1, <2>2
  <1>5. ASSUME StoreResult(w0)
        PROVE  OneWorkerInv'
    <2>1. PICK j \in Jobs, t \in Nat : worker[w0] = Running(j, t)
      BY <1>5 DEF StoreResult, WorkerType
    <2>2. worker[w0].job = j /\ worker[w0].read = t
      BY <2>1
    <2>3. /\ worker' = [worker EXCEPT ![w0] = Reporting(j)]
          /\ result' = t /\ status' = status /\ text' = text
      BY <1>5, <2>2 DEF StoreResult, Goto
    <2>4. t = text /\ status[j] = "processing"
      BY <2>1 DEF RunIsGuarded
    <2>5. worker'[w0] = Reporting(j)
      BY <2>3
    <2>6. \A i \in Jobs : Reporting(i) = Reporting(j) => i = j
      BY Shapes
    <2>7. WorkerType' /\ RunIsGuarded'
      BY <2>3, <2>4, <2>5, <2>6 DEF WorkerType, RunIsGuarded
    <2> QED  BY <2>3, <2>4, <2>7
  <1>6. ASSUME Complete(w0) \/ Fail(w0) \/ Killed(w0)
        PROVE  OneWorkerInv'
    <2>1. worker' = [worker EXCEPT ![w0] = Idle] /\ text' = text /\ result' = result
      BY <1>6 DEF Complete, Fail, Killed, EndRun, Goto
    <2>2. status' \in [Jobs -> JobStatuses]
      BY <1>6 DEF Complete, Fail, Killed, EndRun
    <2>3. worker'[w0] = Idle
      BY <2>1
    <2>4. worker' = [w \in Workers |-> worker'[w]]
      BY <2>1
    <2>5. WorkerType' /\ RunIsGuarded'
      BY <2>3 DEF WorkerType, RunIsGuarded
    <2> QED  BY <2>1, <2>2, <2>4, <2>5
  <1>7. ASSUME SweepStep(w0)
        PROVE  OneWorkerInv'
    <2>1. text' = text /\ result' = result /\ status' \in [Jobs -> JobStatuses]
      BY <1>7 DEF SweepStep, SweepLists, SweepFails, SweepEnds
    <2>2. \E listed : worker' = [worker EXCEPT ![w0] = Sweeping(listed)]
                      \/ worker' = [worker EXCEPT ![w0] = Idle]
      BY <1>7 DEF SweepStep, SweepLists, SweepFails, SweepEnds, Goto
    <2>3. \E listed : worker'[w0] = Sweeping(listed) \/ worker'[w0] = Idle
      BY <2>2
    <2>4. worker' = [w \in Workers |-> worker'[w]]
      BY <2>2
    <2> QED  BY <2>1, <2>3, <2>4 DEF WorkerType, RunIsGuarded
  <1> QED
    BY <1>1, <1>2, <1>3, <1>4, <1>5, <1>6, <1>7 DEF Next, RunStep

\* The invariant holds at the start, whatever the constants.
LEMMA OneWorkerInit ==
    ASSUME Init
    PROVE  OneWorkerInv
  BY Shapes DEF Init, OneWorkerInv, StatusType, JobStatuses, WorkerType, RunIsGuarded,
     ResultIsCurrent

\* With one worker, a stored result was made from the text as it is now.
THEOREM ResultsAreCurrent ==
    ASSUME NEW CONSTANT w0, Workers = {w0}
    PROVE  Spec => []ResultIsCurrent
  <1>1. Init => OneWorkerInv
    BY OneWorkerInit
  <1>2. OneWorkerInv /\ [Next]_vars => OneWorkerInv'
    BY OneWorkerStep
  <1>3. OneWorkerInv => ResultIsCurrent
    BY DEF OneWorkerInv
  <1> QED  BY <1>1, <1>2, <1>3, PTL DEF Spec

\* With one worker, an edit never changes the text a run has read.
THEOREM EditsWait ==
    ASSUME NEW CONSTANT w0, Workers = {w0}
    PROVE  Spec => EditsWaitForRuns
  <1>1. Init => OneWorkerInv
    BY OneWorkerInit
  <1>2. OneWorkerInv /\ [Next]_vars => OneWorkerInv'
    BY OneWorkerStep
  <1>3. OneWorkerInv /\ [Next]_vars =>
          [text' # text => \A w \in Workers : worker[w].at # "run"]_vars
    <2> SUFFICES ASSUME OneWorkerInv, Next, text' # text
                 PROVE  worker[w0].at # "run"
      BY DEF vars
    <2>1. Edit
      BY DEF Next, JobStep, QueueJob, Enqueue, LeaseExpires, TimePasses, RunStep, StoreResult,
         Complete, Fail, EndRun, Killed, SweepStep, SweepLists, SweepFails, SweepEnds, StartRun
    <2>2. \A j \in Jobs : status[j] # "processing"
      BY <2>1 DEF Edit, SomeActive, Active
    <2>3. \A j \in Jobs, t \in Nat : worker[w0] # Running(j, t)
      BY <2>2 DEF OneWorkerInv, RunIsGuarded
    <2> QED  BY <2>3, Shapes DEF OneWorkerInv, WorkerType
  <1> QED  BY <1>1, <1>2, <1>3, PTL DEF Spec, EditsWaitForRuns
=============================================================================
