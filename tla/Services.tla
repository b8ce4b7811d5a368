------------------------------- MODULE Services -------------------------------
(***************************************************************************)
(* The work that must come to an end: the screening of the venue index,    *)
(* the discovery and index runs, and the public review.  They share no     *)
(* state with each other, so a behaviour is one of one of them, chosen at  *)
(* the start, and the others stay as they are.                             *)
(***************************************************************************)
EXTENDS Naturals, FiniteSets

CONSTANTS Records, Runs, Workers, Reviewers, Admins, Nothing, MaxDeliveries

ASSUME DeliveriesAssumption == MaxDeliveries \in Nat \ {0}

VARIABLES
    part,
    row, blocked, decided, indexRun, decision,
    kind, run, message, starter, worker, begun,
    submission, job, late, intake, task, reviewer, sweep, admin, abandoned

Screening == INSTANCE IndexScreening WITH run <- indexRun, request <- decision, Requests <- Admins
Catalogue == INSTANCE CatalogueRuns WITH None <- Nothing
Review == INSTANCE PublicReview WITH row <- submission, worker <- reviewer, Workers <- Reviewers

screeningVars == <<row, blocked, decided, indexRun, decision>>
catalogueVars == <<kind, run, message, starter, worker, begun>>
reviewVars == <<submission, job, late, intake, task, reviewer, sweep, admin, abandoned>>
vars == <<part, screeningVars, catalogueVars, reviewVars>>

Init ==
    /\ part \in {"screening", "catalogue", "review"}
    /\ Screening!Init /\ Catalogue!Init /\ Review!Init
    /\ part # "catalogue" => kind = "index"

InScreening(A) == part = "screening" /\ A /\ UNCHANGED <<part, catalogueVars, reviewVars>>
InCatalogue(A) == part = "catalogue" /\ A /\ UNCHANGED <<part, screeningVars, reviewVars>>
InReview(A) == part = "review" /\ A /\ UNCHANGED <<part, screeningVars, catalogueVars>>

Next == InScreening(Screening!Next) \/ InCatalogue(Catalogue!Next) \/ InReview(Review!Next)

\* What the three modules assume, of the behaviours that are theirs.
Fairness ==
    /\ WF_vars(InScreening(\E first \in {"catalogue", "enrich", "screen"} : Screening!StartRun(first)))
    /\ WF_vars(InScreening(Screening!Passes))
    /\ \A r \in Records :
          WF_vars(InScreening(Screening!Screen(r))) /\ WF_vars(InScreening(Screening!SavePages(r)))
    /\ WF_vars(InCatalogue(Catalogue!HourPasses))
    /\ WF_vars(InCatalogue(Catalogue!RequestChecks("schedule")))
    /\ \A w \in Workers :
          WF_vars(InCatalogue(Catalogue!Ended(w))) /\ WF_vars(InCatalogue(Catalogue!ScheduleCreates(w)))
    /\ \A w \in Reviewers : WF_vars(InReview(Review!FailRow(w)))
    /\ WF_vars(InReview(Review!CreateJob)) /\ WF_vars(InReview(Review!HandOver))
    /\ WF_vars(InReview(Review!TimePasses))
    /\ WF_vars(InReview(Review!SweepJob))
    /\ WF_vars(InReview(Review!SweepReads)) /\ WF_vars(InReview(Review!SweepRow))

Spec == Init /\ [][Next]_vars /\ Fairness

\* The states of the three modules.
TypeOK == Screening!TypeOK /\ Catalogue!TypeOK /\ Review!TypeOK

\* A journal is excluded only if a person decided it (screen_record, decide).
OnlyDecidedIsExcluded == Screening!OnlyDecidedIsExcluded

\* A journal that stays excluded is shown as excluded again (screen_record).
ExclusionShows == Screening!ExclusionShows

\* Each run is begun by one delivery of its task (run_venue_discovery_task).
BegunOnce == Catalogue!BegunOnce

\* No run stays active for ever (close_stale_runs).
RunsEnd == Catalogue!RunsEnd

\* No submission of the public review stays "processing", unless whoever was to fail
\* it died between the job and the row (sweep_stuck_jobs_task).
SubmissionEnds == Review!SubmissionEnds
=============================================================================
