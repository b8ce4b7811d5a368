---------------------------- MODULE EditorialFlow ----------------------------
(***************************************************************************)
(* The packets an author sends to Flexee venues, from draft to decision,   *)
(* and the author's submission plan that follows them: the handlers of     *)
(* src/review/author_api.py and src/review/editor_api.py over one          *)
(* manuscript, composed with SubmissionPlan.                               *)
(*                                                                         *)
(* The handlers run in several web workers, and the database (PostgreSQL)  *)
(* autocommits: a handler that loads a row, checks it and saves it later   *)
(* takes one step per transaction, and others run in between.  Requests    *)
(* are the handlers of that kind under way at a time; those of a single    *)
(* transaction run beside them.  The edit and the upload of a version hold *)
(* the manuscript row (select_for_update).  Whatever inserts a row that    *)
(* refers to the manuscript waits for it (the foreign-key check): a        *)
(* packet, a plan, a readiness check, matches.  A packet's change of       *)
(* status, and a new job, do not.                                          *)
(*                                                                         *)
(* What a brief says is not modelled, nor the manuscript's semantic        *)
(* profile it is made from: an assessment may find none, and refuse.  An   *)
(* unsent packet has a brief just when it is packet_ready.                 *)
(*                                                                         *)
(* Bounds: MaxUploads, the texts given to the manuscript.                  *)
(***************************************************************************)
EXTENDS Naturals

CONSTANTS Venues, MaxPlans, MaxVersion, MaxPositions, Subs, VenueOf, Requests, MaxUploads

ASSUME FlowAssumption ==
    /\ MaxPlans \in Nat \ {0} /\ MaxVersion \in Nat \ {0} /\ MaxPositions \in Nat \ {0}
    /\ VenueOf \in [Subs -> Venues] /\ "none" \notin Subs
    /\ MaxUploads \in Nat \ {0}

VARIABLES
    current, ready, matched,                                       \* SubmissionPlan
    status, builtOn, state, order, submitted, answer, revision,    \* SubmissionPlan
    link,        \* venue_submission of each position the sync marked submitted;
                 \* "none" when no packet did, or the author marked it by hand
    subStatus,   \* status of each packet; "none" before it is created
    subVersion,  \* its version
    text,        \* the text of each version: the number of its upload
    uploads,     \* number of texts so far
    job,         \* the assessment job of each packet: "none", "queued", "running"
    request      \* what each handler of several transactions is doing

Plan == INSTANCE SubmissionPlan

packetVars == <<subStatus, subVersion>>
textVars == <<text, uploads>>
positionVars == <<status, builtOn, state, order, submitted, answer, revision>>
planVars == <<current, ready, matched, positionVars>>
vars == <<planVars, link, packetVars, textVars, job, request>>

Plans == 1..MaxPlans
EditableStatuses == {"draft", "packet_ready"}
DecisionStatuses == {"accepted", "rejected", "revision_requested"}
SubStatuses == EditableStatuses \union DecisionStatuses \union
               {"none", "submitted", "under_review", "transferred"}

\* What a handler keeps between two of its transactions.  The version of the row
\* that it loaded matters for a submission only; it is 0 otherwise.
Idle == [at |-> "idle"]
AtSave(s, version, goal) == [at |-> "save", sub |-> s, version |-> version, goal |-> goal]
AtSync(w) == [at |-> "sync", sub |-> w.sub, version |-> w.version, goal |-> w.goal]
AtApply(w, p, op) ==
    [at |-> "apply", sub |-> w.sub, version |-> w.version, plan |-> p, op |-> op]
AtCreate(s, v, from) == [at |-> "create", sub |-> s, version |-> v, from |-> from]
AtChange(kind) == [at |-> "change", kind |-> kind]
AtReset(kind, listed) == [at |-> "reset", kind |-> kind, listed |-> listed]

Editable(s) == subStatus[s] \in EditableStatuses
Free(r) == request[r] = Idle
Goto(r, where) == request' = [request EXCEPT ![r] = where]

\* Mutant: the edit and the upload lock nothing.
NeverLocked == TRUE

\* Who holds the manuscript row, and the row of a packet being transferred.
RowUnlocked == \A r \in Requests : request[r].at \notin {"change", "reset"}
Creating == {r \in Requests : request[r].at = "create"}
NotCreated(s) == subStatus[s] = "none" /\ \A r \in Creating : request[r].sub # s

\* Mutant: the transfer reads its packet without locking it.
TransferLocksNothing(s) == TRUE

PacketUnlocked(s) == \A r \in Creating : request[r].from # s
Listed(s) == \E r \in Requests : request[r].at = "reset" /\ s \in request[r].listed

Init ==
    /\ Plan!Init
    /\ link = [p \in Plans |-> [v \in Venues |-> "none"]]
    /\ subStatus = [s \in Subs |-> "none"]
    /\ subVersion = [s \in Subs |-> 0]
    /\ text = [v \in 1..MaxVersion |-> IF v = 1 THEN 1 ELSE 0]
    /\ uploads = 1
    /\ job = [s \in Subs |-> "none"]
    /\ request = [r \in Requests |-> Idle]

(***************************************************************************)
(* Author: draft packets and their assessment.                             *)
(***************************************************************************)

\* author_create_submission: the current version is read ...
CreateRead(r, s) ==
    /\ Free(r)
    /\ NotCreated(s)
    /\ Goto(r, AtCreate(s, current, "none"))
    /\ UNCHANGED <<planVars, link, packetVars, textVars, job>>

\* ... likewise by author_transfer_submission, which drafts a packet for another
\* venue and meanwhile holds the row of the packet it transfers.  When an edit
\* has listed that packet, each waits for the other and PostgreSQL aborts one,
\* which leaves nothing behind: that transfer is left out ...
TransferRead(r, s, t) ==
    /\ Free(r)
    /\ subStatus[s] \in {"rejected", "revision_requested"}
    /\ PacketUnlocked(s) /\ ~Listed(s)
    /\ NotCreated(t) /\ VenueOf[t] # VenueOf[s]
    /\ Goto(r, AtCreate(t, current, s))
    /\ UNCHANGED <<planVars, link, packetVars, textVars, job>>

\* ... and the draft is inserted once the manuscript row is free.
CreateInsert(r) ==
    /\ request[r].at = "create"
    /\ RowUnlocked
    /\ subStatus' = [s \in Subs |-> IF s = request[r].sub THEN "draft"
                                    ELSE IF s = request[r].from THEN "transferred"
                                    ELSE subStatus[s]]
    /\ subVersion' = [subVersion EXCEPT ![request[r].sub] = request[r].version]
    /\ Goto(r, Idle)
    /\ UNCHANGED <<planVars, link, textVars, job>>

\* author_run_venue_assessment: at most one active job for a packet, whatever
\* the packet's status.
QueueAssessment(s) ==
    /\ subStatus[s] # "none"
    /\ job[s] = "none"
    /\ job' = [job EXCEPT ![s] = "queued"]
    /\ UNCHANGED <<planVars, link, packetVars, textVars, request>>

\* run_venue_assessment, first half: it goes on for a packet that was not sent.
AssessmentStarts(s) ==
    /\ job[s] = "queued" /\ Editable(s)
    /\ job' = [job EXCEPT ![s] = "running"]
    /\ UNCHANGED <<planVars, link, packetVars, textVars, request>>

\* run_venue_assessment, second half, after the AI calls: the brief is written
\* whatever the packet has become; a draft becomes packet_ready.
AssessmentFinishes(s) ==
    /\ job[s] = "running"
    /\ PacketUnlocked(s)
    /\ subStatus' = [subStatus EXCEPT ![s] = IF @ = "draft" THEN "packet_ready" ELSE @]
    /\ job' = [job EXCEPT ![s] = "none"]
    /\ UNCHANGED <<planVars, link, subVersion, textVars, request>>

\* It ends without a brief: the packet was sent, there is no semantic profile
\* or no configuration, the agent fails, or the anonymity check blocks it.
AssessmentStops(s) ==
    /\ job[s] # "none"
    /\ job' = [job EXCEPT ![s] = "none"]
    /\ UNCHANGED <<planVars, link, packetVars, textVars, request>>

(***************************************************************************)
(* Author: the text of the manuscript.                                     *)
(***************************************************************************)

Busy == \E s \in Subs : job[s] # "none"

\* Mutant: a plan does not lock the text it was built on.
SentLocked ==
    \E s \in Subs : subStatus[s] # "none" /\ ~Editable(s) /\ subVersion[s] = current

\* version_locked: a packet of it was sent, or an active plan was built on it.
VersionLocked ==
    \/ \E s \in Subs : subStatus[s] # "none" /\ ~Editable(s) /\ subVersion[s] = current
    \/ \E p \in Plans : status[p] = "active" /\ builtOn[p] = current

\* author_update_manuscript: _manuscript_edit_block inside the row lock.
EditChecks(r) ==
    /\ Free(r) /\ RowUnlocked
    /\ uploads < MaxUploads
    /\ ~VersionLocked /\ ~Busy
    /\ Goto(r, AtChange("edit"))
    /\ UNCHANGED <<planVars, link, packetVars, textVars, job>>

\* author_manuscript_versions: only the running jobs stand in the way.
UploadChecks(r) ==
    /\ Free(r) /\ RowUnlocked
    /\ uploads < MaxUploads /\ current < MaxVersion
    /\ ~Busy
    /\ Goto(r, AtChange("version"))
    /\ UNCHANGED <<planVars, link, packetVars, textVars, job>>

\* Mutant: a packet that is ready is not listed.
ChangeListsDrafts(r) ==
    /\ request[r].at = "change"
    /\ Goto(r, AtReset(request[r].kind, {s \in Subs : subStatus[s] = "draft"}))
    /\ UNCHANGED <<planVars, link, packetVars, textVars, job>>

\* Both then list the packets to reset ...
ChangeLists(r) ==
    /\ request[r].at = "change"
    /\ Goto(r, AtReset(request[r].kind, {s \in Subs : Editable(s)}))
    /\ UNCHANGED <<planVars, link, packetVars, textVars, job>>

\* The version that gets the new text: the next one, or the current one edited.
ChangedVersion(kind) == IF kind = "version" THEN current + 1 ELSE current

\* ... and commit the new text with every listed packet an empty draft, which an
\* upload moves to the new version; an edit also removes the version's matches.
ChangeCommits(r) ==
    /\ request[r].at = "reset"
    /\ LET listed == request[r].listed
           version == ChangedVersion(request[r].kind)
       IN  /\ text' = [text EXCEPT ![version] = uploads + 1]
           /\ uploads' = uploads + 1
           /\ subStatus' = [s \in Subs |-> IF s \in listed THEN "draft" ELSE subStatus[s]]
           /\ subVersion' = [s \in Subs |-> IF s \in listed /\ request[r].kind = "version"
                                            THEN version ELSE subVersion[s]]
    /\ IF request[r].kind = "version"
       THEN Plan!AddVersion
       ELSE /\ matched' = matched \ {current}
            /\ UNCHANGED <<current, ready, positionVars>>
    /\ Goto(r, Idle)
    /\ UNCHANGED <<link, job>>

(***************************************************************************)
(* Sending and deciding: load and check, save, then sync the plan.         *)
(***************************************************************************)

\* author_submit_packet
SubmitLoads(r, s) ==
    /\ Free(r)
    /\ subStatus[s] = "packet_ready"
    /\ Goto(r, AtSave(s, subVersion[s], "submitted"))
    /\ UNCHANGED <<planVars, link, packetVars, textVars, job>>

\* admin_start_venue_review; a packet already under review is left alone.
StartReviewLoads(r, s) ==
    /\ Free(r)
    /\ subStatus[s] \in {"submitted", "revision_requested"}
    /\ Goto(r, AtSave(s, 0, "under_review"))
    /\ UNCHANGED <<planVars, link, packetVars, textVars, job>>

\* admin_venue_submission_decision
DecisionLoads(r, s, decision) ==
    /\ Free(r)
    /\ subStatus[s] \in {"submitted", "under_review", "revision_requested"}
    /\ Goto(r, AtSave(s, 0, decision))
    /\ UNCHANGED <<planVars, link, packetVars, textVars, job>>

\* The outcome a plan records for each decision.
OutcomeOf == [accepted |-> "accepted", rejected |-> "declined",
              revision_requested |-> "revise_resubmit"]

\* Mutant: the packet gets the plan's word for the decision.
SaveOutcome(r) ==
    /\ request[r].at = "save"
    /\ LET goal == request[r].goal
       IN  subStatus' = [subStatus EXCEPT ![request[r].sub] =
                            IF goal \in DecisionStatuses THEN OutcomeOf[goal] ELSE goal]
    /\ Goto(r, AtSync(request[r]))
    /\ UNCHANGED <<planVars, link, subVersion, textVars, job>>

\* item.save(update_fields=['status', ...]): unconditional, but for the row lock.
Save(r) ==
    /\ request[r].at = "save"
    /\ PacketUnlocked(request[r].sub)
    /\ subStatus' = [subStatus EXCEPT ![request[r].sub] = request[r].goal]
    /\ Goto(r, AtSync(request[r]))
    /\ UNCHANGED <<planVars, link, subVersion, textVars, job>>

\* The plan step sync_from_submission asks for, by the status just saved and
\* the position it finds; "none" when nothing is to be done.
SyncOperation(goal, found) ==
    CASE goal = "submitted" /\ found = "preparing" -> "submitted"
      [] goal = "under_review" /\ found = "submitted" -> "under_review"
      [] goal \in DecisionStatuses /\ found \in Plan!WithVenue -> OutcomeOf[goal]
      [] OTHER -> "none"

\* sync_from_submission reads the position without a lock ...
SyncReads(r) ==
    /\ request[r].at = "sync"
    /\ LET op(p) == SyncOperation(request[r].goal, state[p][VenueOf[request[r].sub]])
       IN  \/ \E p \in Plans :
                 /\ status[p] = "active" /\ op(p) # "none"
                 /\ Goto(r, AtApply(request[r], p, op(p)))
           \/ /\ \A p \in Plans : status[p] = "active" => op(p) = "none"
              /\ Goto(r, Idle)
    /\ UNCHANGED <<planVars, link, packetVars, textVars, job>>

\* ... and the plan operation checks it again under the plan's lock.
PlanOperation(p, s, version, op) ==
    LET v == VenueOf[s]
    IN  \/ /\ op = "submitted"
           /\ Plan!MarkSubmitted(p, v, version)
           /\ link' = [link EXCEPT ![p][v] = s]
        \/ op = "under_review" /\ Plan!MarkUnderReview(p, v) /\ UNCHANGED link
        \/ op = "accepted" /\ Plan!ReportAccepted(p, v) /\ UNCHANGED link
        \/ op \in DOMAIN Plan!OutcomeState /\ Plan!ReportOutcome(p, v, op) /\ UNCHANGED link

\* What the operation requires of the position; when it no longer holds the
\* PlanError is swallowed and the plan stays as it is.
StillPossible(p, v, op) ==
    /\ status[p] = "active"
    /\ CASE op = "submitted" -> state[p][v] = "preparing"
         [] op = "under_review" -> state[p][v] = "submitted"
         [] OTHER -> state[p][v] \in Plan!WithVenue

\* Mutant: the start of the review is written without a second look.
SyncAppliesUnchecked(r) ==
    /\ request[r].at = "apply"
    /\ LET p == request[r].plan
           s == request[r].sub
           op == request[r].op
       IN  IF op = "under_review"
           THEN /\ Plan!Move(p, VenueOf[s], op)
                /\ UNCHANGED <<current, ready, matched, status, builtOn, order, submitted,
                               answer, revision, link>>
           ELSE IF StillPossible(p, VenueOf[s], op)
           THEN PlanOperation(p, s, request[r].version, op)
           ELSE UNCHANGED <<planVars, link>>
    /\ Goto(r, Idle)
    /\ UNCHANGED <<packetVars, textVars, job>>

SyncApplies(r) ==
    /\ request[r].at = "apply"
    /\ LET p == request[r].plan
           s == request[r].sub
           op == request[r].op
       IN  IF StillPossible(p, VenueOf[s], op)
           THEN PlanOperation(p, s, request[r].version, op)
           ELSE UNCHANGED <<planVars, link>>
    /\ Goto(r, Idle)
    /\ UNCHANGED <<packetVars, textVars, job>>

(***************************************************************************)
(* The author's own steps on the plan, reports by hand included.           *)
(***************************************************************************)

PlanStep ==
    \/ RowUnlocked /\ Plan!CheckReadiness
    \/ RowUnlocked /\ Plan!GenerateMatches
    \/ /\ RowUnlocked
       /\ \E p \in Plans, ranking \in Plan!Rankings, replace \in BOOLEAN :
             Plan!BuildPlan(p, ranking, replace)
    \/ \E p \in Plans, v \in Venues : Plan!PositionStep(p, v)
    \/ \E p \in Plans : Plan!Stop(p)

AuthorPlans ==
    /\ PlanStep
    /\ UNCHANGED <<link, packetVars, textVars, job, request>>

(***************************************************************************)
(* The specification.                                                      *)
(***************************************************************************)

RequestStep(r) ==
    \/ EditChecks(r) \/ UploadChecks(r) \/ ChangeLists(r) \/ ChangeCommits(r)
    \/ CreateInsert(r) \/ Save(r) \/ SyncReads(r) \/ SyncApplies(r)
    \/ \E s \in Subs :
          \/ CreateRead(r, s)
          \/ \E t \in Subs : TransferRead(r, s, t)
          \/ SubmitLoads(r, s) \/ StartReviewLoads(r, s)
          \/ \E decision \in DecisionStatuses : DecisionLoads(r, s, decision)

WorkerStep(s) == AssessmentStarts(s) \/ AssessmentFinishes(s) \/ AssessmentStops(s)

Next ==
    \/ \E r \in Requests : RequestStep(r)
    \/ \E s \in Subs : QueueAssessment(s) \/ WorkerStep(s)
    \/ AuthorPlans

Spec == Init /\ [][Next]_vars

(***************************************************************************)
(* Properties.                                                             *)
(***************************************************************************)

\* Every field has a value the code can write.
TypeOK ==
    /\ Plan!TypeOK
    /\ link \in [Plans -> [Venues -> Subs \union {"none"}]]
    /\ subStatus \in [Subs -> SubStatuses]
    /\ subVersion \in [Subs -> 0..MaxVersion]
    /\ text \in [1..MaxVersion -> 0..MaxUploads]
    /\ uploads \in 1..MaxUploads
    /\ job \in [Subs -> {"none", "queued", "running"}]
    /\ \A r \in Requests :
         request[r].at \in {"idle", "save", "sync", "apply", "create", "change", "reset"}

\* However the handlers interleave, and however old what sync_from_submission
\* read is by the time it acts, the plans only take steps of SubmissionPlan.
PlanStaysLegal == Plan!Spec

\* A new text takes every unsent packet with it, however the drafting, the
\* assessment and the sending of packets run beside the edit or the upload: each
\* is an empty draft again, and after an upload one for the new version.
ChangeEmptiesDrafts ==
    [][uploads' # uploads =>
          \A s \in Subs :
             subStatus'[s] \in EditableStatuses =>
                /\ subStatus'[s] = "draft"
                /\ current' # current => subVersion'[s] = current']_vars

\* The text an active plan was built on is never overwritten, whatever is planned
\* while an edit is under way.
PlannedTextStays ==
    [][\A v \in 1..MaxVersion :
          text'[v] # text[v] =>
             \A p \in Plans : ~(status[p] = "active" /\ builtOn[p] = v)]_vars

\* A packet becomes transferred only from a rejection or a request to revise: no
\* decision of another editor gets in between the check and the transfer.
OnlyDeclinedTransfers ==
    [][\A s \in Subs :
          subStatus[s] # "transferred" /\ subStatus'[s] = "transferred" =>
             subStatus[s] \in {"rejected", "revision_requested"}]_vars

\* What manuscript_versions.py and the second check in author_update_manuscript
\* are for: the text of a version that went to a venue is never overwritten.
SentTextStays ==
    [][\A v \in 1..MaxVersion :
          text'[v] # text[v] =>
             \A s \in Subs :
                subVersion[s] = v => subStatus[s] \in EditableStatuses \union {"none"}]_vars

\* What the move of the drafts in author_manuscript_versions is for: every unsent
\* packet is of the current version.
DraftsAreCurrent == \A s \in Subs : Editable(s) => subVersion[s] = current

\* What the check of the status in admin_venue_submission_decision is for: an acceptance
\* is final, and a rejection but for a transfer.
DecisionsAreFinal ==
    [][\A s \in Subs :
          /\ subStatus[s] = "accepted" => subStatus'[s] = "accepted"
          /\ subStatus[s] = "rejected" => subStatus'[s] \in {"rejected", "transferred"}]_vars

\* What docs/SUBMISSION_PLAN.md says of Flexee venues: a venue's final decision
\* reaches the plan.  When no handler is running, no position of an active plan
\* still waits for a packet that was decided.
DecisionReachesPlan ==
    (\A r \in Requests : Free(r)) =>
        \A p \in Plans : \A v \in Venues :
            /\ status[p] = "active" /\ link[p][v] # "none"
            /\ subStatus[link[p][v]] \in {"accepted", "rejected"}
            => state[p][v] \notin Plan!WithVenue
=============================================================================
