---------------------------- MODULE CatalogueRuns ----------------------------
(***************************************************************************)
(* The life of a venue discovery run and of a venue index run: how one is  *)
(* requested (start_run, start_index_run), delivered to a worker           *)
(* (run_venue_discovery_task, run_venue_index_task), works and ends        *)
(* (run_discovery, run_index), is stopped by an administrator, or is left  *)
(* behind by a worker that dies and closed later (close_stale_runs).       *)
(*                                                                         *)
(* A request looks for an active run and creates one later, without a      *)
(* lock.  A task is killed after 30 minutes and delivered again after 31,  *)
(* so it has one worker at a time.  Time goes in hours: a task that works  *)
(* does not see the hour pass.                                             *)
(*                                                                         *)
(* Bounds: Runs, the runs ever created; later requests create none.        *)
(***************************************************************************)
EXTENDS Naturals

CONSTANTS Runs, Workers, None

VARIABLES
    kind,      \* which of the two it is: "discovery" or "index"
    run,       \* each run: its status, the hours since it was created and started
    message,   \* the runs whose task is in the broker
    starter,   \* what the schedule and the administrator are doing
    worker,    \* the run that each worker works on
    begun      \* how often the work of a run was begun

vars == <<kind, run, message, starter, worker, begun>>

Starters == {"schedule", "admin"}
Active == {"queued", "processing"}
NoRun == [status |-> "none", created |-> 0, started |-> 0]
Unused == {r \in Runs : run[r] = NoRun}

Init ==
    /\ kind \in {"discovery", "index"}
    /\ run = [r \in Runs |-> NoRun]
    /\ message = {}
    /\ starter = [s \in Starters |-> "idle"]
    /\ worker = [w \in Workers |-> None]
    /\ begun = [r \in Runs |-> 0]

(***************************************************************************)
(* Requesting a run.                                                       *)
(***************************************************************************)

\* Mutant: only what never started is closed.
StaleQueued(r) == run[r].status = "queued" /\ run[r].created >= 1

\* close_stale_runs: a discovery by the time since it started to work, an index
\* run by the time since it was created.
Stale(r) ==
    IF kind = "discovery" THEN run[r].status = "processing" /\ run[r].started >= 1
    ELSE run[r].status \in Active /\ run[r].created >= 1

Closed == [r \in Runs |-> IF Stale(r) THEN [run[r] EXCEPT !.status = "failed"] ELSE run[r]]

\* A discovery that was created three hours ago no longer counts.
Blocks(r) == run[r].status \in Active /\ (kind = "discovery" => run[r].created < 3)

\* start_run closes what is stale and looks for an active run ...
RequestChecks(s) ==
    /\ starter[s] = "idle"
    /\ run' = Closed
    /\ starter' = [starter EXCEPT ![s] = IF \E r \in Runs : Blocks(r) /\ ~Stale(r) THEN "idle" ELSE "create"]
    /\ UNCHANGED <<kind, message, worker, begun>>

\* ... and creates one.  That of the administrator becomes a task, the schedule is
\* a task already and goes on with the run.
AdminCreates ==
    /\ starter["admin"] = "create"
    /\ \E r \in Unused : /\ run' = [run EXCEPT ![r].status = "queued"]
                         /\ message' = message \union {r}
    /\ starter' = [starter EXCEPT !["admin"] = "idle"]
    /\ UNCHANGED <<kind, worker, begun>>

\* The work of the run r begins.
Begin(w, r) ==
    /\ run' = [run EXCEPT ![r].status = "processing", ![r].started = 0]
    /\ worker' = [worker EXCEPT ![w] = r]
    /\ begun' = [begun EXCEPT ![r] = @ + 1]

ScheduleCreates(w) ==
    /\ starter["schedule"] = "create" /\ worker[w] = None
    /\ IF Unused = {} THEN UNCHANGED <<run, worker, begun>> ELSE \E r \in Unused : Begin(w, r)
    /\ starter' = [starter EXCEPT !["schedule"] = "idle"]
    /\ UNCHANGED <<kind, message>>

(***************************************************************************)
(* Working.                                                                *)
(***************************************************************************)

\* Mutant: a run whose worker was lost is taken up again.
MayBeginLost(r) == run[r].status \in Active

\* Only a queued run may start.
MayBegin(r) == run[r].status = "queued"

\* The task of a run is delivered, the first time or again.
Deliver(w, r) ==
    /\ r \in message /\ worker[w] = None
    /\ \A x \in Workers : worker[x] # r
    /\ IF MayBegin(r)
       THEN Begin(w, r) /\ UNCHANGED message
       ELSE /\ run' = IF run[r].status = "processing" THEN [run EXCEPT ![r].status = "failed"] ELSE run
            /\ message' = message \ {r}
            /\ UNCHANGED <<worker, begun>>
    /\ UNCHANGED <<kind, starter>>

\* _should_stop, before each venue: a discovery that is not processing any more
\* ends.  The index asks nothing, and saves the whole run page by page.
Works(w) ==
    /\ worker[w] # None
    /\ kind = "index"
    /\ run' = [run EXCEPT ![worker[w]].status = "processing"]
    /\ UNCHANGED <<kind, message, starter, worker, begun>>

\* All venues are checked, the time is over, an error, or it was stopped: the
\* whole run is saved.
Ends(w) ==
    /\ worker[w] # None
    /\ \E status \in {"completed", "failed"} : run' = [run EXCEPT ![worker[w]].status = status]
    /\ message' = message \ {worker[w]}
    /\ worker' = [worker EXCEPT ![w] = None]
    /\ UNCHANGED <<kind, starter, begun>>

\* The worker is restarted or times out, and its task will be delivered again.
Dies(w) ==
    /\ worker[w] # None
    /\ worker' = [worker EXCEPT ![w] = None]
    /\ UNCHANGED <<kind, run, message, starter, begun>>

(***************************************************************************)
(* The administrator and the clock.                                        *)
(***************************************************************************)

\* discovery_stop_run closes what is stale and stops the newest active run.
Stop ==
    /\ kind = "discovery"
    /\ \E r \in Runs : /\ run[r].status \in Active /\ ~Stale(r)
                       /\ \A x \in Runs : run[x].status \in Active => run[x].created >= run[r].created
                       /\ run' = [Closed EXCEPT ![r].status = "failed"]
    /\ UNCHANGED <<kind, message, starter, worker, begun>>

Older(hours) == IF hours < 3 THEN hours + 1 ELSE hours

HourPasses ==
    /\ \A w \in Workers : worker[w] = None
    /\ run' = [r \in Runs |-> IF run[r].status \in Active
                              THEN [run[r] EXCEPT !.created = Older(@), !.started = Older(@)] ELSE run[r]]
    /\ UNCHANGED <<kind, message, starter, worker, begun>>

Next ==
    \/ AdminCreates \/ Stop \/ HourPasses
    \/ \E s \in Starters : RequestChecks(s)
    \/ \E w \in Workers : Works(w) \/ Ends(w) \/ Dies(w) \/ ScheduleCreates(w)
    \/ \E w \in Workers, r \in Runs : Deliver(w, r)

Spec == Init /\ [][Next]_vars

\* The hours pass, the schedule comes again, and a task ends or is killed.
\* Nothing is assumed of the broker: a task may be lost.
Ended(w) == Ends(w) \/ Dies(w)
Fairness ==
    /\ WF_vars(HourPasses) /\ WF_vars(RequestChecks("schedule"))
    /\ \A w \in Workers : WF_vars(Ended(w)) /\ WF_vars(ScheduleCreates(w))

FairSpec == Spec /\ Fairness

(***************************************************************************)
(* Properties.                                                             *)
(***************************************************************************)

\* The statuses are those of the models, and a worker has a run of the table.
TypeOK ==
    /\ kind \in {"discovery", "index"}
    /\ run \in [Runs -> [status : {"none", "queued", "processing", "completed", "failed"}, created : 0..3, started : 0..3]]
    /\ message \subseteq Runs \ Unused
    /\ starter \in [Starters -> {"idle", "create"}]
    /\ worker \in [Workers -> Runs \union {None}]

\* "Resuming it would make the run loop forever": the work of a run begins once,
\* whatever worker dies and however often its task is delivered.
BegunOnce == \A r \in Runs : begun[r] <= 1

\* "Runs left processing after a worker restart or job timeout are marked failed":
\* no run stays processing, so none blocks the schedule for good.
RunsEnd == \A r \in Runs : run[r].status = "processing" ~> run[r].status \notin Active
=============================================================================
