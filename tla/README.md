# Flexee backend: TLA+ specifications

Flexee takes a manuscript from an author, checks its readiness, matches it with
venues, plans the order in which to try them, sends a packet to each venue and
follows the decision. The backend is a Django application (`src/review`,
`src/config`): web workers that autocommit against PostgreSQL, and a django-q
cluster that runs the long work. This directory holds the specifications of its
protocol: the state machines, the locks, the background work and the sweeps.

Contents: the inventory of the system, how the modules correspond to the code,
the runs, the proofs, the disagreements found between code and documents, what is
not modelled, and the plan.

## 1. Inventory

All state is in database rows (`src/review/models.py`) except the stored files, the
backups, and the sessions and links, which carry their own contents.

| Component | State | Operations | Interacts with |
|---|---|---|---|
| Submission plan (`submission_plan.py`, `plan_api.py`) | `SubmissionPlan.status`, `built_on_version`; `PlanPosition.state`, `order`, `submitted_version`, `revision_answer`, `revision_version` | build, start, mark submitted, mark under review, report outcome, resubmit, answer a decline, skip, stop, sync from a packet | readiness and matches (read), packets (`sync_from_submission`), manuscript versions |
| Editorial flow (`author_api.py`, `editor_api.py`, `manuscript_versions.py`) | `VenueSubmission` (status, version, brief), `Manuscript`, `ManuscriptVersion` | create, assess, submit, start review, decide, transfer, edit the text, upload a version | the plan after every change of status; jobs for assessments |
| Background jobs (`tasks.py`, `_queue_unique_job`) | `ReviewJob.status`; the task queue | queue, enqueue after commit, run, end, sweep of stuck jobs | packets (results), the edit guard (`_manuscript_edit_block`) |
| AI cost ceiling (`ai_usage.py`, `services/ai_provider.py`) | `AIUsageEvent`, `AIBudgetState` (the lock) | reserve, complete, fail, expire | every AI call |
| Venue claims (`claims_api.py`) | `VenueClaim`, `Venue`, `IndexedVenue`, organizations | claim, verify the address, approve, reject; publish, exclude; confirm the rules | the venue index, the editors' pages |
| Retention and files (`tasks.py`, `manuscript_versions.py`) | the files; `content_purged_at`, `retention_purged_at`, `retention_expires_at` | edit, upload, submit, hourly sweep | edits and uploads of the author, downloads of the venue |
| Discovery and index runs (`discovery_api.py`, `index_api.py`, `services/venue_discovery.py`, `services/venue_index.py`) | `VenueDiscoveryRun`, `VenueIndexRun`, the records of the index | request, schedule, deliver, run, stop, close stale runs; full and worklist pass | the queue, the catalogue of journals, people who link and exclude |
| Rules reading and escalation (`services/venue_discovery.py`, `index_rules.py`, `rules_escalation.py`) | `DiscoveredVenue`, the rules of a record, the live venue | fetch, extract, stage, reconfirm; add, apply, ignore, restore | runs, the configurations |
| Index screening (`services/index_screening.py`) | flags, `screening_status`, `excluded`, `BlockedPublisher`, `IndexReviewDecision` | enrich, screen, read pages; keep, exclude, restore, unblock | index runs, claims |
| Freshness of calls (`services/freshness.py`) | `open_calls`, `calls_checked_at`, `last_verified_at` | check, show, stage, publish, edit | rules reading, configurations |
| Venue configurations (`editor_api.py`, `author_api.py`) | `VenueAgentConfig` versions, `EditorFeedback` | post, draft from feedback, apply changes, activate | submissions and matches take the active one |
| Storage quota (`storage_quota.py`) | bytes of the rows; `StorageQuotaState` (the lock) | guard of the four uploads | edit, upload, requirements, retention |
| Sign-in (`auth.py`, `author_api.py`, `views.py`) | `Author`, `EditorUser`; sessions and mailed links | register, sign in, verify, change and reset the password, set up the authenticator | mail |
| Public review (`views.py`, `tasks.py`) | `Submission`, its `ReviewJob` | take in, review, mail, decide, delete | the queue and the sweep |
| Readiness and matching (`author_agents.py`, `author_api.py`, `venue_shortlist.py`) | `ReadinessAssessment`, `VenueMatch`, `parsed_profile`, `shortlisted_at` | both readiness checks, shortlist, semantic matches, refresh | edits, venues, the plan |
| Backup and restore (`backup_utils.py`, two commands) | bundles, `MEDIA_ROOT`, `.pre-restore-` directories | back up, purge old bundles, restore | every upload and deletion |
| Gap ranking, queue health, rate limits, email, audit, summaries | scores, audit events, counters | | section 6 |

What is hard here, and what the properties are for (`PROJECT.json` lists each
hazard at its line):

* The web handlers autocommit. A handler that loads a row, checks it and saves it
  is several transactions, and another request may run between any two of them.
  Some handlers lock, some do not, and the locks are of different rows. Some save the
  fields they changed, some the whole row as they loaded it.
* The plan follows the packets by a call made after the packet was saved, in
  another transaction, whose errors are logged and dropped.
* The queue delivers a task at least once, late, and also while an earlier
  delivery still runs. Workers are killed at a timeout. A sweep gives up on jobs
  that may in fact be alive.
* A pass over an external catalogue, a page or a model takes minutes, may be cut
  short anywhere, and writes what it computed from rows it loaded at its start.
* Files are deleted on the disk while the rows that name them are only committed
  later; a version and the working copy may share a file. A restore replaces the rows
  and the files one after the other.
* Callers compute the time, a price, a record, a size or a file name before they wait
  for the lock under which they use it.
* A legal sequence of calls may be in any order: stop a plan in the middle, upload
  while a venue reads, decline answers before or after a version, exclude what was claimed.

What makes each component correct, in one line: a plan is at one venue at a time
and always knows the next; a new text takes the unsent packets with it and leaves what
was planned alone; an operation has one active job, which ends; the recorded spend stays
under the ceilings; a journal has one editor and a confirmed one keeps it; what a
venue retains stays and what has expired goes; a run is begun once and ends, and takes
nothing from the index that it did not see leave; what differs from the live rules waits
for a person, and only a person excludes; authors see fresh calls and one
configuration; storage is bounded; what a request completed is not undone by an older
one; readiness and matches are of the newest text; a backup or restore that is broken
off destroys nothing.

## 2. Modules

    OneAtATime             what one plan promises (abstract)
      ^ implemented by each plan of
    SubmissionPlan         plans and positions          <- SubmissionPlanProofs
      ^ instantiated, and refined, by
    EditorialFlow          packets, texts, assessments, and the plan <- EditorialFlowProofs
                           that follows them
    ReviewJobs             jobs, deliveries, the sweep  <- ReviewJobsProofs
    VenueClaims            the ownership of a journal   <- VenueClaimsProofs
    Retention              stored files and the purge   <- RetentionProofs
    RulesReading           readings of a journal's pages, <- RulesReadingProofs
                           and what people do with them

    Services      composes  IndexScreening, CatalogueRuns, PublicReview <- ServicesProofs
    Records       composes  CatalogueIndex, FreshCalls, VenueConfigs, StorageQuota,
                            Accounts, AIBudget, Matching, Backup        <- RecordsProofs

The modules of a composition share no state in the code either, apart from facts that
each takes as an input. A behaviour of `Services` or `Records` is therefore one of one of its
parts, chosen by `part`, and a run checks the parts one after the other. The
other `MC` modules only add symmetry sets and functions that a `.cfg` cannot write.

A convention of all modules: an action is a transaction of the code. A handler that has several
keeps what it read in a record of its own (`request`, `at`, `worker`, `reader`, ...),
whose `at` says where it is.

**SubmissionPlan.** `status`, `builtOn`, `state`, `order`, `submitted`, `answer`
and `revision` are the columns of the plan and its positions; `current`, `ready`
and `matched` are what the operations read of the manuscript (`ready`: the latest check of
the current version allows matching). Every operation of
`submission_plan.py` is one transaction that first locks the plan row, so each is
one action: `BuildPlan`, `Start`, `MarkSubmitted`, `MarkUnderReview`,
`ReportOutcome`, `Resubmit`, `AnswerUnchanged`, `AnswerRevised`, `Skip`, `Stop`. A
match is unique per manuscript, venue and version, so a position is a plan and a
venue. `rank` is any ranking of the venues, since its text heuristics decide
nothing about the protocol. One limit: `build_plan` reads the readiness and the
ranking before it inserts, and `BuildPlan` is one step at these reads; that two builds at once
do not both insert is the database's unique constraint.

**EditorialFlow** instantiates SubmissionPlan and adds the packets, the text of each
version (the number of its upload), the assessment jobs and the handlers. `request` is
what each handler of several transactions keeps between them: drafting and transfer
(`CreateRead`, `TransferRead`, `CreateInsert`), edit and upload (`EditChecks`,
`UploadChecks`, `ChangeLists`, `ChangeCommits`), submission, start of the review and decision
(`SubmitLoads`, `StartReviewLoads`, `DecisionLoads`, then `Save`, `SyncReads`,
`SyncApplies`). The service runs several web workers (`flexee-api.service:12`), so `Requests` has two in
every run, and the handlers of one transaction (`QueueAssessment`, the author's steps on the
plan) and the task worker run beside them at any time.
The edit and the upload hold the manuscript row `FOR UPDATE`; an insert that refers to
the manuscript (a packet, a plan, a check, matches) waits for that row by its foreign
key (`RowUnlocked`), a change of a packet's status and a new job do not. A transfer
holds the row of its packet (`PacketUnlocked`). A transfer of a packet that an edit has listed
and an edit wait for each other; PostgreSQL aborts one, which leaves no trace, so that transfer is not a step.
`sync_from_submission` is read (`SyncReads`) and applied (`SyncApplies`) in two steps,
since it looks up the plan and the position before it locks them; an operation that is
not possible any more is dropped, as the code does. An assessment goes on only for an unsent packet,
and may stop for any reason, no semantic profile among them; when it finishes, a draft becomes `packet_ready`,
and any other packet keeps its status.

**ReviewJobs** is the life of the jobs of one operation. `status` is the row,
`task` and `deliveries` the queue, `worker` the cluster. A lease starts when the
cluster fetches the task, so it may end before or while the run works
(`LeaseExpires`). `Killed` is the timeout of a run or a dead worker. `SweepLists`
and `SweepFails` are the two halves of `sweep_stuck_jobs_task`: the candidates are
listed, then failed one by one if they still have the status they were listed with.

**VenueClaims** splits an approval where it waits for a row: `ApproveLoads` (the claim),
`ApproveLocksRecord`, `ApproveChecks` or `ApproveRefuses`, `ApproveCommits` (the venue).
Rejecting, verifying, publishing and confirming load and save without a lock in
between. A refusal returns inside `atomic()`, hence commits what `_venue_for`
created.

**Retention** has the file of the working copy and of every version, and the disk.
A sweep handles one packet in a transaction that holds the manuscript row; its
files go at `SweepDeletes` and its rows at `SweepCommits`, and it may die between
(`SweepDies`). An edit reads the name it will replace before the lock
(`EditLoads`), replaces it under the lock (`EditCommits`) and deletes the old file
after the commit if nothing points at it (`EditCleans`). A packet is created in one
step here (EditorialFlow splits it), and its assessment is the condition of `Submit`
that the file of its version can be read.

**RulesReading.** A `reader` is a discovery run or a rules run of the index. It fetches
the pages (`FetchDiscovery`, `FetchRecheck`, `FetchIndex`), finds them unchanged
(`SamePages`, `Reconfirm`) or extracts any reading of them that `validate_extraction` lets
pass (`Extract`; `Readings` says what evidence a reading of a page has), and stores it (`Create`,
`Replace`, which keep the better of two readings, then `SaveRecord`). The
administrator's handlers are `AddToVenueAgent`, `IndexPublish`, `ApplyChanges`,
`IndexApply`, `DiscoveryIgnore`, `DiscoveryRestore`, `DecideExclusion`.

**IndexScreening.** A run goes over the records in passes; a pass loads copies and saves
them later: the enrichment the whole row (`SaveEnriched`), the screening and the pages
only the fields they compute (`Screen`, `SavePages`). A person's decision checks, then
locks and saves (`DecisionLoads`, `DecisionSaves`), and blocks or unblocks the
publisher, after which the others of that publisher are screened in the request.

**CatalogueRuns** is both kinds of run: a request or the schedule looks for an active run
(`RequestChecks`) and creates one later (`AdminCreates`, `ScheduleCreates`); `Deliver` is a
delivery to a worker, which begins only a queued run; `Works`, `Ends`, `Dies`, `Stop`
are what may become of it; `Closed` is `close_stale_runs`, by the hours a run
has been there.

**CatalogueIndex.** A full pass (`StartFull`, `Keep`, `OutOfScope`, `Complete`,
`FinishFull`) walks through the source, largest journal first, up to a cap; a
worklist pass adds journals by name; both may be interrupted anywhere. People hold
records (`LinkToVenues`, `Hold`).

**PublicReview** has the row, its job, the queue and the sweep; `Complete` writes the whole
row as the review loaded it. A process may die, or its save fail, at any step: between the row and its
job (`IntakeDies`), between failing the job and failing the submission, in the
worker (`Dies`, and `FailRow`, whose error the code swallows) and in the sweep (`SweepDies`). After
these three no code looks at the submission again until its task is redelivered; `abandoned`
says so and is not part of the code.

**FreshCalls.** A call is its deadline. It comes to a venue staged (`Stage`, `Publish`,
`ApplyChanges`), by hand or from a configuration, is checked weekly (`CheckStarts`,
`CheckSucceeds`, `CheckFails`), and an edit of the venue saves the row it loaded
(`EditLoads`, `EditSaves`). `Visible` is what an author sees.

**VenueConfigs.** Every handler locks the venue first; `Post`, `ApplyChanges`, `Draft`, `Activate` are
the transactions behind that lock. The content of a version is, for each field, the
feedback that wrote it last.

**StorageQuota.** Each of four uploads is three steps: it loads what it will replace,
passes the guard, which locks one row for all authors, and writes. The sweep frees
bytes without asking. A manuscript is not empty, an attachment may be, so a limit is passed
by at most one file, not by less: an attachment that was replaced by an empty one frees
what the next one counts as replaced.

**Accounts.** One account: an author, an editor, or a viewer, who needs no authenticator.
A request reads the row (`Load...`) and saves some fields of it later. A session is the
second in which it was issued.

**AIBudget** keeps `now` of a caller from before it waits for the lock (`Ask`), so
the day and the age of reservations it works with may be those of a moment ago
(`Reserve`). `Bill`, `Complete`, `Fail` and `Crash` are the ends of a call.

**Matching.** A text is the number of the edit that wrote it. The mechanical check, the semantic check
(a job), the shortlist with its gate, the refresh for new venues and the semantic
matching (a job) each load the manuscript and write later; only an edit locks it.

**Backup.** `Dump` to `Report` are the steps of `create_backup`, with two attempts that may
overlap, `Fail` and `Dies` between any of them. A restore verifies and unpacks a
bundle (`Stage`), replaces the database, then renames the directory of the files away
and the unpacked one in (`PutAside`, `PutInPlace`, `PutBack`), while authors upload.

External code: django-q (redelivery, timeout, from `Q_CLUSTER` in
`src/config/settings.py`), the provider's bill, the catalogue and the publisher's
pages, the clock, process crashes. They are marked `external` in the map.

## 3. Runs

Eight runs must find no error; four check a statement of the repository that the code
does not keep (section 5). Every passing property has a mutant, a change of one
definition like a plausible bug, that breaks it under the same configuration.

| Run | Instance | Shows |
|---|---|---|
| `plans` | 2 venues, 2 plans, 2 versions, 2 positions; 1.6 million states | one live position, one active plan, distinct places with tried venues ahead, an answer to every decline, growing versions, and every plan implements `OneAtATime` |
| `flow` | 2 venues, 2 packets, 1 plan, 2 versions, 2 texts, 2 handlers of several transactions at a time; 1.8 million states | a new text empties every unsent packet, a planned text is never overwritten, only a declined packet is transferred, the plans take only steps of SubmissionPlan |
| `jobs` | 2 workers, 2 jobs, 3 deliveries, 3 texts, fairness; 105 thousand states | one active job, the sweep spares what finished, every active job ends |
| `claims` | 3 claims, 1 index record, 3 venues, 2 requests; 1 million states | one editor per journal, an approved claim owns its venue, a confirmed venue never changes hands |
| `retention` | 2 packets, 2 versions, 3 files, 2 requests and the sweep, fairness; 49 thousand states | a retained copy and an unsent new version stay on the disk, every expired packet is purged from rows and disk alike |
| `rules` | 1 journal, pages of 2 contents, a discovery run and a rules run that come back any number of times | a difference from the live rules waits for a person, no reading decides anything |
| `services` | screening: 1 record, 1 run, 1 request; runs: 2 runs, 1 worker, schedule and administrator; public review: 2 workers, 2 deliveries, 1 administrator; fairness; 305 thousand states | only a person excludes and what is excluded shows as excluded, a run is begun once and ends, a submission is processed for ever only if whoever was to fail it died |
| `records` | eight components, one after the other (below); 3.4 million states | section 2 by part: `NothingLostOfTheCatalogue`, `CheckedCallsAreFresh`, `OneActiveConfig`, `PassedByAtMostAFile`, `ChangesLast`, `UnderCeilings`, `SemanticNotOlder`, `NothingDestroyed` |
| `one_venue_at_a_time` | as `plans` | disagreement 1 |
| `new_venues_are_matched` | 2 venues, 1 request | disagreement 2 |
| `decision_reaches_plan` | 1 venue, 1 packet, 2 handlers at a time | disagreement 3 |
| `sent_text_stays` | 1 venue, 1 packet, 2 handlers at a time | disagreement 4 |

Instances of the parts of `records`: 2 journals of 2 sizes and a cap of 1 record; 1 call, 3
days and a window of 1; 3 versions, 2 feedbacks and 2 fields; 2 manuscripts of 2 authors, 1
attachment, 2 sizes; 3 passwords and 2 seconds; 2 callers, 3 AI calls, 3 days in 2 months; 2
venues, 2 texts; 2 files, 2 overlapping backups and a restore; with two requests at once where a
part has requests of people.

Why the bounds are enough. The properties relate two of a thing: two positions,
two plans, two jobs, two claims, two packets, two readings, two requests. So there are
two of each, and a third where a third one matters: a third claim after an overwritten
approval, a third text after an edit under a redelivered run, a third file so that a version
is uploaded after an edit, a third version of a configuration while a draft is made.
Two versions are a version that a venue saw and a newer one; `MaxVenues` of `claims`
is never used up, since each of two requests makes at most one venue more than the one
the record publishes. Two sizes with limits of 3 and 4 let a limit be reached
exactly and be passed. Numbers that only count (places, versions, costs) appear with every
order that two or three values can have, and the proofs remove these bounds for the
modules that have one.

`flow` leaves out some products of independent parts (the constraint `PlanOrTransfer`): plans name one of the
two venues, the packet to the other exists only while there is no plan and no second text (a
transfer needs no more), and a plan is stopped only before the second text. `SubmissionPlan` itself is
checked with two venues and two plans, and the proofs of the flow know no such constraint.

Names are interchangeable where a symmetry set is given: venues in `plans`,
handlers in `flow`, requests, claims, rows and pages in `rules`, and in `records` callers, requests and files,
which are the same two values in parts that do not meet. No liveness run uses symmetry.

Deadlock is checked except in `jobs`, `retention`, `services` and `records`,
where a bounded history simply ends: all jobs, calls, versions or files are used.

**Fairness.** ReviewJobs: time passes; a run ends, since django-q kills it at
`timeout`; the sweep's listing, its failing of a job and its end are fair since an
hourly schedule starts it again, and a sweep is a few short queries. Listing and
failing need strong fairness: a worker that is busy, or a sweep that is killed,
makes them unavailable for a while, not for ever. Delivery, enqueueing and
successful runs are not fair: `ActiveJobEnds` holds when the queue loses
everything. Retention: strong fairness of the sweep's steps for the same reason: the
hourly schedule reruns it and it does not die at the same packet each time.
CatalogueRuns: hours pass, the schedule comes by, a task ends or is killed at its
timeout; messages may be lost. IndexScreening: the schedule starts runs again and a run goes
through its passes, which have a time limit. PublicReview: the request that takes a manuscript
in, the sweep, and a worker that has failed the job go on unless they die, which they may at every
step (the death disables the step, so the fairness of the step does not exclude it); the sweep is scheduled; a review
need not end and a task need not be delivered again. No author or administrator is assumed to do anything.

## 4. Proofs

TLAPS checks all of these for any values of the constants that satisfy the named
assumptions (bounds are numbers, `None` is not an element); nothing else is assumed.

**SubmissionPlanProofs.** `Invariance` proves the inductive invariant `IInv`: the
types, `OneLivePosition`, `OneActivePlan`, `QueueKeepsItsOrder`,
`CompletedMeansAccepted`, `DeclineIsAnswered`, and `Bookkeeping`. The last is needed
because a revised answer must name a version newer than the one the venue saw:
`submitted` is set exactly for positions that were sent, and nothing of an unbuilt
plan exists. From it follow, as theorems on `Spec`, each of these invariants, and
`NextVenueIsDefinite` (a nonempty queue has a first place by well-founded induction
on numbers, and just one since places are distinct), `SeenVersionOnlyGrows`, and
`KeepsPromise`: every step maps to a step of `OneAtATime` or a stutter.

**ReviewJobsProofs.** `OneActive`: an operation has at most one active job, for any
number of workers and deliveries; inductive with the type of `status` alone, for every
step that makes a job active looks at the others first (the code's unique constraint).
`FinishedAreSpared` (`SweepSparesFinished`): what a sweep may fail it listed with an
active status, and fails only while the row still has that status. `ResultsAreCurrent`
and `EditsWait` hold for one worker, and that is their hypothesis: the job of the only
running worker is processing, so an edit is refused; no sweep can fail it meanwhile,
as the sweep needs that worker.

**VenueClaimsProofs.** `OneEditor`, `ApprovedOwns`, `ConfirmedKept`, `TypeCorrect`.
The argument is that of the locks. `ClaimHeld`, `RecordHeld`, `VenueHeld` say that
two approvals never hold one claim, record or venue. `StillFree` says that what
an approval checked under its locks (the journal is not managed) is still true at its
commit; it is kept because whatever could make it false (another approval of this
venue or record, the confirmation of the rules) needs a lock it holds.
`KnownVenues` ties owners and requests to venues that exist, so that a new venue is
nobody's. `OneEditorPerJournal` and `ApprovedClaimOwns` are then preserved by
every step, rejections that overwrite an approval included.

**EditorialFlowProofs**, for any number of handlers that overlap. `FlowInv` has the types
and what a handler keeps between its transactions (the position it looked up exists, the version
it stages is not yet there, one edit holds the row of the manuscript). From it and `Unplanned` follows
`PlanIsLegal`, the refinement of SubmissionPlan: whatever the sync read and however old it is,
what it applies is a step of the plan or none. So `PlansKeepInvariant` carries the
invariant proved in SubmissionPlanProofs over to the plans of the flow, by instantiating that
module, and `TypeCorrect` needs both. `HeldInv` says what stays as the holder of a row lock
read it, which is what the action properties rest on. `Emptied`: the packets an edit has listed are still all that
are unsent, as no draft can be inserted while it holds the manuscript, and nothing turns a sent packet back into
one (`DraftsAreEmptied`). `Unplanned`: no active plan is built on the text under edit, as a plan is
inserted by the same foreign key (`PlannedTextIsKept`). `Sources`: the packet being transferred is still
declined and no edit has listed it, since whoever would decide it waits for its row
(`TransfersAreOfDeclined`).

**RulesReadingProofs**, for any number of readers, rows and pages. `NoDifferenceIsLost`: staged
rules that differ from those of the live venue wait for the administrator, also when two readers
store what they read of one page. It is inductive with the types and with what a reader
keeps between its transactions (`ReadersOK`). `OnlyTheAdminDecides` is the action property.

**RetentionProofs**, for any number of packets, versions, files and web workers.
`RetainedCopiesStay` needs to know why the sweep may delete: `Worklist` (the packets it holds are
due), `OwnFiles` (each version has a file of its own, so that the file of one is never that
of another) and `Deleted` (between the deletion of the files and the commit the disk is ahead of
the rows, by exactly the files of the packet in hand; a crash there changes neither).
`PurgedIsDeleted` is the safety half of `PurgeCompletes`: what is marked as purged is off the disk.

**ServicesProofs**: one invariant for each part, which the other parts leave alone.
`OnlyPeopleExclude` holds because `OnlyDecided` covers the copies that the run has loaded as well as
the table: the enrichment saves a copy whole, with the `excluded` it had when it was
loaded. `RunsBeginOnce` follows from `Begun` (a run that waits was not begun): the first transaction
of the task takes it out of the states it can begin from. The public review contributes its types, with
`Deliveries` (a task is delivered only after it was handed over).

**RecordsProofs**, one invariant for each of the eight parts, and `Invariance` for their
conjunction, from `BoundsAssumption` alone: for any number of requests, callers, venues, journals,
days, files and costs.

* Sums. `UnderCeilings` and `PassedByAtMostAFile` speak of the sum of a column over a set of rows,
  which the modules write as a fold (`MapThenSumSet`). `Total` is that fold for a function, and the lemmas
  `TotalBegins` to `TotalUpdated` say what a sum is without it: one element is added to the
  sum of the others, whichever it is; a sum of fewer and smaller numbers is no larger; one
  number of it may be replaced. The induction theorems of the library are out of reach, so each
  lemma takes a smallest set for which it would fail (`SmallestSet`, from the well-foundedness of `<`).
* `CeilingsHold`: `CallersOK` says that what a request asks with was so when it read it (its day
  is not later than today, its expired reservations are still expired) and that a call under way holds
  a reservation, of its own, that no other call has and no clock expires, and is billed at most that.
  So the sum a reservation is checked against, since the day or the month of a
  `now` from before midnight (`MonthBegins`), bounds what is counted for the day of the
  reservation; every other step lowers the sum or leaves it.
* `LimitsHold`: the request that holds the guard was found to fit, and still does (`OneHolds`), since
  everything that others do meanwhile frees bytes. It then adds at most what it counted,
  but for what it thought it replaces and is gone (one file), or for a text of a purged
  manuscript that a late version makes an earlier version of it (one file).
* `OneActive` and `AppliedOnce`: `LockHeld` is the lock of the venue's row. The handler between its
  lock and its commit is alone, the versions it read are still the versions, and the feedback it read
  a prefix of the feedback. So what a handler deactivates is all that is active, and a
  draft takes only feedback that no draft has taken. (`AppliedOnce` is only proved; no run lists it.)
* `CallsStayFresh`: a row that a check wrote, also the copy of it that an editor holds
  (`CheckedRow`), has calls that were read on the day of their confirmation or later.
* `AccountChangesLast`: a request that saves later changes only its own fields, and sessions follow
  the password (`SessionsFollow`). `SemanticFollows`: the job that reads a text holds the
  row it will replace (`Assessed`).
* `BackupKeeps`: an attempt has its bundle where its step says (`AtWork`), so that the purge runs
  when its own bundle is final. `CatalogueKeeps`: a walk has seen what it has passed by (`Walk`), so what
  a complete pass did not see is not listed, not in scope, or below the cap.

Every invariant and every action property of a passing run is a theorem, without a hypothesis on
the number of web workers. (`ResultsAreCurrent` and `EditsWait`, which no run lists, have the hypothesis of one task
worker, `FLEEXE_Q_WORKERS=1`.) Only model-checked are the liveness properties
`ActiveJobEnds`, `PurgeCompletes`, `RunsEnd`, `ExclusionShows` and `SubmissionEnds`, since
fairness and ENABLED are out of the prover's reach.

## 5. Where the code and its documents disagree

With a run:

1. *One venue at a time.* `stop()` does not look at the live position. A plan
   stopped while its venue reads the manuscript leaves it there, and a new plan
   submits it elsewhere. `submission_plan.py:6`: "one live position at a time
   (simultaneous submission is not allowed)".
2. *New venues are matched.* `shortlisted_at` is the time at which the matching ends, not at
   which it read the venues. A venue that changes in between is neither matched nor
   looked at by a later refresh. `models.py:353`: "venues changed after this are checked
   against the shortlist when the author next opens their matches".
3. *A decision reaches the plan.* A packet is saved, then the plan is synced. A decision that comes in
   between finds the position `preparing` and is dropped; the late sync then marks it submitted, for good.
   `docs/SUBMISSION_PLAN.md:37`: "Flexee venues update the plan themselves (author submit, editor start
   review, editor decision)".
4. *A sent text stays.* A submission is saved without the manuscript row, so it may fall between the locked
   re-check of an edit and its commit. The text just sent is overwritten, and when the edit had listed the packet
   it is an empty draft again. `author_api.py:879`: "Re-check inside the lock so a submission made
   meanwhile still wins".

Without a run, each a property of the named module that TLC refutes in a small instance:

* `VenueClaims.ExcludedStaysHidden`. An approval looks at the exclusion of the venue, not at
  that of the record. A record excluded after it was claimed has no venue, and the approval
  creates one that authors see. `services/index_screening.py:430`: "a live venue follows the
  index decision, so authors never see it".
* `AIBudget.BillUnderCeiling`. `fail_ai_call` releases the reservation also of a call the
  provider answered and billed, so the bill passes the ceiling. `README.md:518`: "blocks the
  provider call if that reservation would cross a configured ceiling".
* `EditorialFlow.DecisionsAreFinal`. A decision, and the start of a review, load the packet, check its status and
  save later without a lock. Two editors may each decide a packet, and the later save stands, also over
  an acceptance.
* `EditorialFlow.DraftsAreCurrent`. `_default_version` reads the current version before the insert of the draft waits for
  an upload, which has moved only the drafts it found: the draft stays with the outgoing version.
* `PublicReview.DecisionStays`. The review saves the whole submission as it was minutes before,
  with the decision it then had; a decision made meanwhile is lost, and a submission deleted meanwhile
  comes back. `views.py:643`: "Submission already has an admin decision".
* `IndexScreening.RunsDecideNothing`. The enrichment saves the whole record as it loaded it, so it
  takes back an exclusion or restores one. `services/index_screening.py:388`:
  "Decisions (a person, never the screening)".
* `RulesReading.ConfirmedRulesAreOnThePages`. A reading whose pages went back to an earlier content
  dates rules that are not on them. `services/venue_discovery.py` (`reconfirm_live_venue`).
* `FreshCalls.ShownCallsAreFresh`. Until its first weekly check a venue shows the calls it was
  published with, whatever their age. `services/freshness.py:1`: "never show a stale call".
* `Matching.ProfileIsOfThisText`. The semantic readiness stores the profile of the text it loaded, after
  an edit that cleared it. `author_api.py:811`: "Every successful edit makes earlier analysis
  stale, so ... the parsed profile is cleared".
* `StorageQuota.SentAttachmentsStay`. The status of the packet is checked before the file is
  stored. `author_api.py:2174`: "Submission requirement files can only be changed before formal
  submission".
* `Retention.SentCopyOpens`. An upload checks `content_purged_at` before the row is locked and not
  under the lock, so a version can be added to a purged manuscript and sent, and the
  venue's download answers 410.
* `Backup.ABundleCanBeRestored`. The manifest of the new bundle is rewritten in place after the old
  bundles were removed; a crash there leaves no bundle that can be verified. `README.md:143`: "removed only
  after a new successful backup".
* `Backup.RestoredRowsHaveFiles`. The database is dumped before the files are archived, so a file deleted in
  between is named by a restored row and is not restored.

Smaller ones, met while modelling:

* The brief of a packet is made from `parsed_profile` of the manuscript (`author_agents.py:1371`), which may be that of an
  older text (`Matching.ProfileIsOfThisText`), and is written whatever the packet has become meanwhile.
  `docs/SUBMISSION_PLAN.md:13`: "submission work (brief, editor download and payload) uses the submission's own
  version". What a brief says is not modelled.
* A public submission stays "processing" when whoever failed its job, or was to create it, dies or cannot save before the
  submission follows (`PublicReview.SubmissionEnds` names these windows): no sweep looks at it again.
* `EditsWaitForRuns` (ReviewJobs) fails with two workers: a sweep on one fails the job another is
  running, or a second delivery ends it, and the edit guard sees no active job. A sweep that listed
  a processing job also fails it when it was redelivered and runs again.
* The venue after a decline need not get the revision the author named:
  `mark_submitted` takes any packet of the manuscript to that venue.
* A rejection overwrites an approval that committed after it loaded the claim. The editor
  keeps the venue until its rules are confirmed, but a later claim can be approved meanwhile.
* The refusals of an approval return inside `atomic()`, so a venue made for a refused claim stays.
* Two overlapping edits read the same old file name, and two uploads of a requirement the same old
  file: the file of the first stays on the disk and no row names it.
* A linked journal that is outside the fields is flagged as missing from a catalogue that lists it
  (`_catalogue_pass` adds only journals in scope to `seen_ids`).
* `read_issn_worklist` promises that "Rows sharing an ISSN are merged"; a row that shares one with
  each of two earlier rows is merged into the first only.
* Backup directories that end in `.partial` are removed by no one if the process dies.

## 6. Not modelled

* In the modelled components: what a brief says and the semantic profile it is made from, in the flow (an
  unsent packet has a brief just when it is `packet_ready`); the anonymity override, answers to submission requirements,
  emails apart from those of the public review; the password link of a claim, the limit on resent
  confirmations and other members of an organization; embeddings; the batch sizes of
  the sweeps; the crawling of pages and the cursors from which a run resumes; the extraction
  of a profile from text; throttling, token formats and hashing of the sign-in.
* Gap ranking and match scores: pure functions over findings and texts. The plan takes any
  ranking, so nothing modelled depends on them.
* Queue health: a snapshot of counters and an alert that looks at its own audit events. Rate limits:
  one counter per window. Field agent, local model: calls of a model without state. Email,
  audit trail, summaries: output that no other component reads back.
* The review engine and the prompts: text heuristics. Their outcome is any outcome.
* Management commands for seeding, imports and end-to-end checks, migrations, deployment.

## 7. Plan

What is left, in order:

1. **PlanReadiness**: `build_plan` split at its reads, over Matching.
2. **GapRanking**: the ordering key as a function, against a reference definition.
3. **More of what only TLC says**: the safety half of the liveness properties, as `PurgedIsDeleted`
   is of `PurgeCompletes`.
