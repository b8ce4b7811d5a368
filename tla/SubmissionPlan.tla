--------------------------- MODULE SubmissionPlan ---------------------------
(***************************************************************************)
(* The ordered submission plans of one manuscript: the state machine of    *)
(* src/review/submission_plan.py as it is driven by src/review/plan_api.py *)
(* and by sync_from_submission.                                            *)
(*                                                                         *)
(* Every operation of the code is one database transaction that first      *)
(* locks the plan row (_lock), so it is one action here.  A plan names a   *)
(* venue at most once (one match per manuscript, venue and version), so a  *)
(* position is identified by its plan and its venue.                       *)
(*                                                                         *)
(* Bounds: MaxPlans (plans ever built), MaxVersion (manuscript versions),  *)
(* MaxPositions (PLAN_MAX_POSITIONS, the venues in one plan).              *)
(***************************************************************************)
EXTENDS Naturals

CONSTANTS Venues, MaxPlans, MaxVersion, MaxPositions

ASSUME BoundsAssumption ==
    /\ MaxPlans \in Nat \ {0}
    /\ MaxVersion \in Nat \ {0}
    /\ MaxPositions \in Nat \ {0}

VARIABLES
    current,     \* number of manuscript.current_version
    ready,       \* whether the latest readiness check of that version allows matching
    matched,     \* versions that have venue matches
    status,      \* status of each plan; "none" before it is built
    builtOn,     \* built_on_version of each plan; 0 before it is built
    state,       \* state of each position; "absent" when the plan does not name the venue
    order,       \* place of each position in its plan; 0 when absent
    submitted,   \* submitted_version of each position; 0 when unset
    answer,      \* revision_answer of each position
    revision     \* revision_version of each position; 0 when unset

manuscriptVars == <<current, ready, matched>>
answerVars == <<answer, revision>>
planVars == <<status, builtOn, state, order, submitted, answer, revision>>
vars == <<current, ready, matched, status, builtOn, state, order, submitted,
          answer, revision>>

Plans == 1..MaxPlans
Versions == 1..MaxVersion
Orders == 0..MaxPositions

LiveStates == {"preparing", "submitted", "under_review", "revise_resubmit",
               "awaiting_author"}
DoneStates == {"accepted", "closed", "skipped", "withdrawn"}
\* The states in which the manuscript is at the venue.
WithVenue == {"submitted", "under_review", "revise_resubmit"}
PositionStates == {"absent", "queued"} \union LiveStates \union DoneStates
PlanStatuses == {"none", "active", "completed", "stopped"}
Answers == {"none", "revised", "unchanged"}

\* What rank() may return: distinct venues at places 1, 2, ... of the plan,
\* at most MaxPositions of them; 0 marks a venue left out.
Rankings ==
    {r \in [Venues -> Orders] :
        /\ \A u, v \in Venues : r[u] = r[v] /\ r[u] > 0 => u = v
        /\ \A v \in Venues : \A k \in 1..r[v] : \E u \in Venues : r[u] = k}

HasState(p, S) == \E v \in Venues : state[p][v] \in S

\* Leaves every position of the plan but the venue's own state as it was.
Move(p, v, to) == state' = [state EXCEPT ![p][v] = to]

Init ==
    /\ current = 1
    /\ ready = FALSE
    /\ matched = {}
    /\ status = [p \in Plans |-> "none"]
    /\ builtOn = [p \in Plans |-> 0]
    /\ state = [p \in Plans |-> [v \in Venues |-> "absent"]]
    /\ order = [p \in Plans |-> [v \in Venues |-> 0]]
    /\ submitted = [p \in Plans |-> [v \in Venues |-> 0]]
    /\ answer = [p \in Plans |-> [v \in Venues |-> "none"]]
    /\ revision = [p \in Plans |-> [v \in Venues |-> 0]]

(***************************************************************************)
(* The manuscript, as far as the plans read it.                            *)
(***************************************************************************)

\* author_manuscript_versions: the author uploads version N+1.
AddVersion ==
    /\ current < MaxVersion
    /\ current' = current + 1
    /\ ready' = FALSE
    /\ UNCHANGED <<matched, planVars>>

\* author_update_manuscript: the matches of the edited version are removed.
\* Refused while an active plan is built on that version; a new plan's foreign
\* key waits for the manuscript row the edit holds, so none appears meanwhile.
EditText ==
    /\ \A p \in Plans : status[p] = "active" => builtOn[p] # current
    /\ matched' = matched \ {current}
    /\ UNCHANGED <<current, ready, planVars>>

\* author_run_readiness on the current version; the newest completed check counts.
CheckReadiness ==
    /\ ready' \in BOOLEAN
    /\ UNCHANGED <<current, matched, planVars>>

\* author_generate_matches: refused until the readiness check allows it; a
\* re-run may leave no venue at all.
GenerateMatches ==
    /\ ready
    /\ \E any \in BOOLEAN :
         matched' = IF any THEN matched \union {current} ELSE matched \ {current}
    /\ UNCHANGED <<current, ready, planVars>>

(***************************************************************************)
(* Building a plan.                                                        *)
(***************************************************************************)

ReadyToPlan == ready /\ current \in matched

\* The row the new plan gets: the first one not used yet.
NextPlan(p) == status[p] = "none" /\ \A q \in Plans : q < p => status[q] # "none"

\* The active plan a new one replaces must not be in progress at a venue.
MayReplace(q, replace) == replace /\ ~HasState(q, LiveStates \ {"preparing"})

\* Mutant: the plan that is replaced stays active.
BesideTheOld(p) == [status EXCEPT ![p] = "active"]

\* The active plan is stopped, and the new one takes its place.
InPlaceOfActive(p) ==
    [q \in Plans |-> IF q = p THEN "active"
                     ELSE IF status[q] = "active" THEN "stopped"
                     ELSE status[q]]

\* build_plan: the ranked venues are queued in order; an active plan is
\* stopped first, in the same transaction.  An empty ranking is refused.
BuildPlan(p, ranking, replace) ==
    /\ ReadyToPlan
    /\ NextPlan(p)
    /\ \A q \in Plans : status[q] = "active" => MayReplace(q, replace)
    /\ \E v \in Venues : ranking[v] > 0
    /\ status' = InPlaceOfActive(p)
    /\ builtOn' = [builtOn EXCEPT ![p] = current]
    /\ state' = [state EXCEPT ![p] =
                    [v \in Venues |-> IF ranking[v] > 0 THEN "queued" ELSE "absent"]]
    /\ order' = [order EXCEPT ![p] = ranking]
    /\ UNCHANGED <<manuscriptVars, submitted, answerVars>>

(***************************************************************************)
(* The position state machine.                                             *)
(***************************************************************************)

\* Mutant: any queued position will do.
AnyQueued(p, v) == state[p][v] = "queued"

\* The queued position every other queued one comes after.
FirstQueued(p, v) ==
    /\ state[p][v] = "queued"
    /\ \A u \in Venues : state[p][u] = "queued" => order[p][v] <= order[p][u]

\* Mutant: a venue is started while the plan is still at another.
StartAlongside(p, v) ==
    /\ status[p] = "active"
    /\ FirstQueued(p, v)
    /\ Move(p, v, "preparing")
    /\ UNCHANGED <<manuscriptVars, status, builtOn, order, submitted, answerVars>>

\* start
Start(p, v) ==
    /\ status[p] = "active"
    /\ ~HasState(p, LiveStates)
    /\ FirstQueued(p, v)
    /\ Move(p, v, "preparing")
    /\ UNCHANGED <<manuscriptVars, status, builtOn, order, submitted, answerVars>>

\* mark_submitted: the venue saw the linked submission's version, or the
\* current one when no submission is linked.  Any earlier submission of the
\* manuscript to the venue may be linked, so version is any one up to current.
MarkSubmitted(p, v, version) ==
    /\ status[p] = "active"
    /\ state[p][v] = "preparing"
    /\ version <= current
    /\ Move(p, v, "submitted")
    /\ submitted' = [submitted EXCEPT ![p][v] = version]
    /\ UNCHANGED <<manuscriptVars, status, builtOn, order, answerVars>>

\* mark_under_review
MarkUnderReview(p, v) ==
    /\ status[p] = "active"
    /\ state[p][v] = "submitted"
    /\ Move(p, v, "under_review")
    /\ UNCHANGED <<manuscriptVars, status, builtOn, order, submitted, answerVars>>

\* Mutant: the position is accepted and the plan goes on.
AcceptPositionOnly(p, v) ==
    /\ status[p] = "active"
    /\ state[p][v] \in WithVenue
    /\ Move(p, v, "accepted")
    /\ UNCHANGED <<manuscriptVars, status, builtOn, order, submitted, answerVars>>

\* report_outcome, "accepted": the plan is completed with its position.
ReportAccepted(p, v) ==
    /\ status[p] = "active"
    /\ state[p][v] \in WithVenue
    /\ Move(p, v, "accepted")
    /\ status' = [status EXCEPT ![p] = "completed"]
    /\ UNCHANGED <<manuscriptVars, builtOn, order, submitted, answerVars>>

\* Mutant: a withdrawn venue is queued again.
WithdrawnIsQueued ==
    [revise_resubmit |-> "revise_resubmit", declined |-> "awaiting_author",
     withdrawn |-> "queued"]

\* report_outcome, the other outcomes: where each one leaves the position.  A
\* decline waits for the author.
OutcomeState ==
    [revise_resubmit |-> "revise_resubmit", declined |-> "awaiting_author",
     withdrawn |-> "withdrawn"]

ReportOutcome(p, v, outcome) ==
    /\ status[p] = "active"
    /\ state[p][v] \in WithVenue
    /\ Move(p, v, OutcomeState[outcome])
    /\ UNCHANGED <<manuscriptVars, status, builtOn, order, submitted, answerVars>>

\* Mutant: any version will do.
AnyVersion(p, v, version) == version <= current

\* _newer_version: an existing version after the one the venue saw.
Baseline(p, v) == IF submitted[p][v] > 0 THEN submitted[p][v] ELSE builtOn[p]
NewerVersion(p, v, version) == version <= current /\ version > Baseline(p, v)

\* resubmit
Resubmit(p, v, version) ==
    /\ status[p] = "active"
    /\ state[p][v] = "revise_resubmit"
    /\ NewerVersion(p, v, version)
    /\ Move(p, v, "submitted")
    /\ submitted' = [submitted EXCEPT ![p][v] = version]
    /\ UNCHANGED <<manuscriptVars, status, builtOn, order, answerVars>>

\* Mutant: the decline is closed without recording what the author said.
CloseSilently(p, v) ==
    /\ status[p] = "active"
    /\ state[p][v] = "awaiting_author"
    /\ Move(p, v, "closed")
    /\ UNCHANGED <<manuscriptVars, status, builtOn, order, submitted, answerVars>>

\* answer_decline with "unchanged" (a written reason and a confirmation).
AnswerUnchanged(p, v) ==
    /\ status[p] = "active"
    /\ state[p][v] = "awaiting_author"
    /\ Move(p, v, "closed")
    /\ answer' = [answer EXCEPT ![p][v] = "unchanged"]
    /\ UNCHANGED <<manuscriptVars, status, builtOn, order, submitted, revision>>

\* Mutant: the kept venues are numbered afresh, from the front of the plan.
NumberedAfresh(places, kept, ranking) ==
    {[v \in Venues |-> IF v \in kept THEN ranking[v] ELSE places[v]]}

\* The places of a plan after the kept venues take their own slots in the
\* order of the new ranking; everything else keeps its place.
Reordered(places, kept, ranking) ==
    {new \in [Venues -> Orders] :
        /\ \A v \in Venues \ kept : new[v] = places[v]
        /\ \A v \in kept : \E u \in kept : new[v] = places[u]
        /\ \A u, v \in kept : ranking[u] < ranking[v] => new[u] < new[v]}

\* answer_decline with "revised": the queued venues are measured again against
\* the revised version (_recheck_remaining); those it no longer ranks are skipped.
AnswerRevised(p, v, version, ranking) ==
    LET queued == {u \in Venues : state[p][u] = "queued"}
        kept == {u \in queued : ranking[u] > 0}
    IN  /\ status[p] = "active"
        /\ state[p][v] = "awaiting_author"
        /\ NewerVersion(p, v, version)
        /\ queued # {} => version \in matched
        /\ state' = [state EXCEPT ![p] =
              [u \in Venues |-> IF u = v THEN "closed"
                                ELSE IF u \in queued \ kept THEN "skipped"
                                ELSE state[p][u]]]
        /\ \E new \in Reordered(order[p], kept, ranking) :
              order' = [order EXCEPT ![p] = new]
        /\ answer' = [answer EXCEPT ![p][v] = "revised"]
        /\ revision' = [revision EXCEPT ![p][v] = version]
        /\ UNCHANGED <<manuscriptVars, status, builtOn, submitted>>

\* skip
Skip(p, v) ==
    /\ status[p] = "active"
    /\ state[p][v] = "queued"
    /\ Move(p, v, "skipped")
    /\ UNCHANGED <<manuscriptVars, status, builtOn, order, submitted, answerVars>>

\* stop: whatever its positions are doing.
Stop(p) ==
    /\ status[p] = "active"
    /\ status' = [status EXCEPT ![p] = "stopped"]
    /\ UNCHANGED <<manuscriptVars, builtOn, state, order, submitted, answerVars>>

(***************************************************************************)
(* The specification.                                                      *)
(***************************************************************************)

ManuscriptStep == AddVersion \/ EditText \/ CheckReadiness \/ GenerateMatches

PositionStep(p, v) ==
    \/ Start(p, v)
    \/ \E version \in Versions : MarkSubmitted(p, v, version)
    \/ MarkUnderReview(p, v)
    \/ ReportAccepted(p, v)
    \/ \E outcome \in DOMAIN OutcomeState : ReportOutcome(p, v, outcome)
    \/ \E version \in Versions : Resubmit(p, v, version)
    \/ AnswerUnchanged(p, v)
    \/ \E version \in Versions, ranking \in Rankings :
          AnswerRevised(p, v, version, ranking)
    \/ Skip(p, v)

Next ==
    \/ ManuscriptStep
    \/ \E p \in Plans, ranking \in Rankings, replace \in BOOLEAN :
          BuildPlan(p, ranking, replace)
    \/ \E p \in Plans, v \in Venues : PositionStep(p, v)
    \/ \E p \in Plans : Stop(p)

Spec == Init /\ [][Next]_vars

(***************************************************************************)
(* Properties.                                                             *)
(***************************************************************************)

\* Every field has a value the models allow.
TypeOK ==
    /\ current \in Versions
    /\ ready \in BOOLEAN
    /\ matched \subseteq Versions
    /\ status \in [Plans -> PlanStatuses]
    /\ builtOn \in [Plans -> 0..MaxVersion]
    /\ state \in [Plans -> [Venues -> PositionStates]]
    /\ order \in [Plans -> [Venues -> Orders]]
    /\ submitted \in [Plans -> [Venues -> 0..MaxVersion]]
    /\ answer \in [Plans -> [Venues -> Answers]]
    /\ revision \in [Plans -> [Venues -> 0..MaxVersion]]

\* No simultaneous submission within a plan: whatever the interleaving of the
\* author, the venue and the re-check, at most one position is live.
OneLivePosition ==
    \A p \in Plans : \A u, v \in Venues :
        state[p][u] \in LiveStates /\ state[p][v] \in LiveStates => u = v

\* A manuscript has at most one plan that still accepts steps.
OneActivePlan ==
    \A p, q \in Plans : status[p] = "active" /\ status[q] = "active" => p = q

\* The places of a plan stay distinct, and what has left the queue for a venue
\* stays ahead of everything still queued, whatever is skipped or re-ranked.
Tried == (LiveStates \union DoneStates) \ {"skipped"}
QueueKeepsItsOrder ==
    \A p \in Plans : \A u, v \in Venues :
        /\ state[p][u] # "absent" /\ state[p][v] # "absent" /\ order[p][u] = order[p][v]
             => u = v
        /\ state[p][u] \in Tried /\ state[p][v] = "queued" => order[p][u] < order[p][v]

\* The plan is never stuck and never ambiguous: an active plan with venues left
\* and nothing in progress has exactly one venue that may be started.
MayStart(p, v) == status[p] = "active" /\ ~HasState(p, LiveStates) /\ FirstQueued(p, v)
NextVenueIsDefinite ==
    \A p \in Plans :
        status[p] = "active" /\ ~HasState(p, LiveStates) /\ HasState(p, {"queued"}) =>
            \E v \in Venues : MayStart(p, v) /\ \A u \in Venues : MayStart(p, u) => u = v

\* A plan is completed exactly when one of its venues accepted the manuscript,
\* and nothing of a completed plan is left at a venue or with the author.
CompletedMeansAccepted ==
    \A p \in Plans :
        /\ status[p] = "completed" <=> HasState(p, {"accepted"})
        /\ status[p] = "completed" => ~HasState(p, LiveStates)

\* A closed position carries the author's answer to its decline, and a revised
\* answer names a version newer than every version that venue saw.
DeclineIsAnswered ==
    \A p \in Plans : \A v \in Venues :
        /\ state[p][v] = "closed" <=> answer[p][v] # "none"
        /\ answer[p][v] = "revised" => revision[p][v] > submitted[p][v] /\ submitted[p][v] > 0

\* A venue that asked for a revision is never shown the same text again, and
\* the record of what a venue saw never goes back to an earlier version.
SeenVersionOnlyGrows ==
    [][\A p \in Plans : \A v \in Venues :
          /\ submitted'[p][v] >= submitted[p][v]
          /\ state[p][v] = "revise_resubmit" /\ state'[p][v] = "submitted"
               => submitted'[p][v] > submitted[p][v]]_vars

\* "one live position at a time (simultaneous submission is not allowed)": of
\* all the plans of the manuscript, not only of the one that is active.
OneVenueAtATime ==
    \A p, q \in Plans : \A u, v \in Venues :
        state[p][u] \in WithVenue /\ state[q][v] \in WithVenue => p = q /\ u = v

(***************************************************************************)
(* The plan seen as OneAtATime.                                            *)
(***************************************************************************)

VenuesIn(p, S) == {v \in Venues : state[p][v] \in S}
Phase(p) == CASE status[p] = "none" -> "none"
              [] status[p] = "active" -> "open"
              [] status[p] = "completed" -> "won"
              [] OTHER -> "stopped"

Promise(p) == INSTANCE OneAtATime WITH
    phase <- Phase(p),
    waiting <- VenuesIn(p, {"queued"}),
    at <- VenuesIn(p, LiveStates),
    owed <- VenuesIn(p, {"awaiting_author"})

\* Every plan keeps the promise of a plan: one venue at a time, none twice, no
\* venue after a decline before the author's answer, the end at an acceptance.
PromiseStep(p) == [Promise(p)!Next]_(Promise(p)!vars)
KeepsPromise ==
    /\ \A p \in Plans : Promise(p)!Init
    /\ [][\A p \in Plans : PromiseStep(p)]_vars
=============================================================================
