------------------------------- MODULE Matching -------------------------------
(***************************************************************************)
(* From a manuscript to its venue matches: the two readiness checks        *)
(* (author_run_readiness, run_semantic_readiness), the policy gate over    *)
(* the topical shortlist (author_generate_matches), the venues that were   *)
(* added since (refresh_matches_for_new_venues) and the semantic matching  *)
(* of the worker (run_semantic_matching), while the author edits the text. *)
(*                                                                         *)
(* Requests and jobs load the manuscript, read a file or embed texts for a *)
(* while, and write what they computed; only an edit locks the row.  The   *)
(* manuscript has one version: matches of another version are other rows.  *)
(*                                                                         *)
(* Bounds: MaxText edits, MaxTime changes of venues and shortlists.        *)
(***************************************************************************)
EXTENDS Naturals, FiniteSets

CONSTANTS Venues, Requests, ShortlistSize, MaxText, MaxTime

VARIABLES
    text,      \* the edit the working copy holds
    profile,   \* the edit that the semantic profile was read from, 0 if it is cleared
    mech,      \* the newest mechanical assessment, and the request that made it
    gate,      \* whether the newest completed assessment allows matching
    sem,       \* the newest semantic assessment, and whether a mechanical one is newer
    match,     \* of each venue, the edit and the configuration it was gated with, or NoMatch
    venue,     \* of each venue: matchable, updated_at, the active configuration
    now, shortlistedAt,
    request,   \* what each request of the author is doing
    job        \* the semantic readiness and the semantic matching job

vars == <<text, profile, mech, gate, sem, match, venue, now, shortlistedAt, request, job>>

manuscript == <<text, profile, mech, gate, sem>>
matches == <<match, shortlistedAt>>

None == 0
NoMatch == [text |-> 0, config |-> 0]
Jobs == {"readiness", "matching"}
Statuses == {"none", "pending", "completed", "failed"}

Matched == {v \in Venues : match[v] # NoMatch}
Matchable == {v \in Venues : venue[v].matchable}

Idle == [at |-> "idle"]
AtMechanical(old) == [at |-> "mechanical", profile |-> old]
AtShortlist(task, old, since) ==
    [at |-> "shortlist", task |-> task, text |-> text, venues |-> Matchable, matched |-> old, since |-> since]
AtGate(task, loaded, kept, all) == [at |-> "gate", task |-> task, text |-> loaded, kept |-> kept, all |-> all]
AtStamp(kept, all) == [at |-> "stamp", kept |-> kept, all |-> all]
AtMatch(rows) == [at |-> "match", rows |-> rows, lost |-> {}]
Goto(q, where) == request' = [request EXCEPT ![q] = where]

Init ==
    /\ text = 1 /\ profile = None
    /\ mech = [text |-> None, status |-> "none", by |-> None]
    /\ gate = FALSE
    /\ sem = [text |-> None, status |-> "none", older |-> FALSE]
    /\ match = [v \in Venues |-> NoMatch]
    /\ venue \in [Venues -> [matchable : BOOLEAN, updated : {0}, config : {1}]]
    /\ now = 1 /\ shortlistedAt = 0
    /\ request = [q \in Requests |-> Idle]
    /\ job = [j \in Jobs |-> Idle]

(***************************************************************************)
(* The author edits, and checks readiness.                                 *)
(***************************************************************************)

\* author_update_manuscript, under the lock of the row and while no job of the
\* manuscript is queued or running: the profile is cleared, the matches removed.
Edit ==
    /\ text < MaxText
    /\ \A j \in Jobs : job[j] = Idle
    /\ text' = text + 1
    /\ profile' = None
    /\ match' = [v \in Venues |-> NoMatch]
    /\ UNCHANGED <<mech, gate, sem, venue, now, shortlistedAt, request, job>>

\* author_run_readiness loads the manuscript and creates the assessment ...
MechanicalStarts(q) ==
    /\ request[q] = Idle
    /\ mech' = [text |-> text, status |-> "pending", by |-> q]
    /\ sem' = [sem EXCEPT !.older = sem.status # "none"]
    /\ Goto(q, AtMechanical(profile))
    /\ UNCHANGED <<text, profile, gate, match, venue, now, shortlistedAt, job>>

\* ... reads the text, and writes the profile it loaded with its own keys, and the
\* result, which counts unless a newer one is completed.  If the file cannot be
\* read, the assessment has failed.
MechanicalEnds(q) ==
    /\ request[q].at = "mechanical"
    /\ \E status \in {"completed", "failed"} :
          /\ mech' = IF mech.by = q THEN [mech EXCEPT !.status = status] ELSE mech
          /\ profile' = IF status = "completed" THEN request[q].profile ELSE profile
          /\ IF status = "completed" /\ (mech.by = q \/ mech.status # "completed")
             THEN gate' \in BOOLEAN ELSE gate' = gate
    /\ Goto(q, Idle)
    /\ UNCHANGED <<text, sem, match, venue, now, shortlistedAt, job>>

\* author_run_semantic_readiness and author_run_semantic_matches: a queued job.
Queue(j) ==
    /\ job[j] = Idle
    /\ job' = [job EXCEPT ![j] = [at |-> "queued"]]
    /\ UNCHANGED <<manuscript, matches, venue, now, request>>

\* run_semantic_readiness loads the manuscript, asks that a mechanical check is
\* completed and allows matching, and creates its assessment ...
SemanticStarts ==
    /\ job["readiness"].at = "queued"
    /\ IF gate
       THEN /\ sem' = [text |-> text, status |-> "pending", older |-> FALSE]
            /\ job' = [job EXCEPT !["readiness"] = [at |-> "reading", text |-> text]]
       ELSE /\ job' = [job EXCEPT !["readiness"] = Idle]
            /\ UNCHANGED sem
    /\ UNCHANGED <<text, profile, mech, gate, matches, venue, now, request>>

\* ... reads the chunks, with a model or without, and saves profile and result.
\* No text, or an error: the assessment and the job have failed.
SemanticEnds ==
    /\ job["readiness"].at = "reading"
    /\ \/ /\ profile' = job["readiness"].text
          /\ sem' = [sem EXCEPT !.status = "completed"]
       \/ /\ sem' = [sem EXCEPT !.status = "failed"]
          /\ UNCHANGED profile
    /\ job' = [job EXCEPT !["readiness"] = Idle]
    /\ UNCHANGED <<text, mech, gate, matches, venue, now, request>>

(***************************************************************************)
(* Matching.                                                               *)
(***************************************************************************)

\* build_shortlist: the venues closest in topic, all of them if they are few; on
\* equal similarity the matched ones stay ahead.
Shortlists(venues) ==
    IF Cardinality(venues) <= ShortlistSize THEN {venues}
    ELSE {kept \in SUBSET venues : Cardinality(kept) = ShortlistSize}

\* author_generate_matches lists the matchable venues ...
GenerateStarts(q) ==
    /\ request[q] = Idle
    /\ gate
    /\ Goto(q, AtShortlist("generate", {}, 0))
    /\ UNCHANGED <<manuscript, matches, venue, now, job>>

\* Changed venues that the matches do not have yet.
Unmatched(old, since) == {v \in Matchable \ old : venue[v].updated >= since}

\* refresh_matches_for_new_venues, when the author opens the matches: the same, if
\* there are matches, and venues without one that changed since the shortlist.
RefreshStarts(q) ==
    /\ request[q] = Idle
    /\ gate /\ Matched # {}
    /\ Unmatched(Matched, shortlistedAt) # {}
    /\ Goto(q, AtShortlist("refresh", Matched, shortlistedAt))
    /\ UNCHANGED <<manuscript, matches, venue, now, job>>

\* ... and ranks them, which embeds what was never embedded.  A refresh reads the
\* changed venues once more, stamps the shortlist and keeps only what is new.
Shortlist(q) ==
    /\ request[q].at = "shortlist"
    /\ \E kept \in Shortlists(request[q].venues) :
          IF request[q].task = "generate"
          THEN /\ Goto(q, AtGate("generate", request[q].text, kept, request[q].venues))
               /\ UNCHANGED <<now, shortlistedAt>>
          ELSE /\ now < MaxTime
               /\ now' = now + 1 /\ shortlistedAt' = now'
               /\ LET new == kept \intersect Unmatched(request[q].matched, request[q].since)
                  IN  Goto(q, IF new = {} THEN Idle ELSE AtGate("refresh", request[q].text, new, new))
    /\ UNCHANGED <<manuscript, match, venue, job>>

\* _generate_deterministic_matches creates or updates the row of each venue, and
\* _apply_shortlist ranks them.
Gate(q) ==
    /\ request[q].at = "gate"
    /\ match' = [v \in Venues |-> IF v \in request[q].kept
                                  THEN [text |-> request[q].text, config |-> venue[v].config] ELSE match[v]]
    /\ Goto(q, IF request[q].task = "generate" THEN AtStamp(request[q].kept, request[q].all) ELSE Idle)
    /\ UNCHANGED <<manuscript, venue, now, shortlistedAt, job>>

\* The text cannot be read for the rules that need it.  A refresh is given up
\* silently, the author goes on with the matches that are there.
GateFails(q) ==
    /\ request[q].at = "gate"
    /\ Goto(q, Idle)
    /\ UNCHANGED <<manuscript, matches, venue, now, job>>

\* ... then the shortlist is stamped, and if venues were left out, the matches that
\* are no longer on it are removed.
Stamp(q) ==
    /\ request[q].at = "stamp"
    /\ now < MaxTime
    /\ now' = now + 1 /\ shortlistedAt' = now'
    /\ LET removed == IF request[q].kept = request[q].all THEN {} ELSE Matched \ request[q].kept
       IN  /\ match' = [v \in Venues |-> IF v \in removed THEN NoMatch ELSE match[v]]
           /\ job' = IF job["matching"].at = "match"
                     THEN [job EXCEPT !["matching"].lost = @ \union removed] ELSE job
    /\ Goto(q, Idle)
    /\ UNCHANGED <<manuscript, venue>>

\* run_semantic_matching needs a profile and matches of venues that are visible ...
MatchingStarts ==
    /\ job["matching"].at = "queued"
    /\ job' = [job EXCEPT !["matching"] =
                  IF profile = None \/ Matched = {} THEN Idle ELSE AtMatch(match)]
    /\ UNCHANGED <<manuscript, matches, venue, now, request>>

\* ... and asks a model about one after the other.  It saves its reasons with the
\* configuration of the row as it was listed; a row that is gone fails the job.
MatchOne(v) ==
    /\ job["matching"].at = "match" /\ job["matching"].rows[v] # NoMatch
    /\ IF v \in job["matching"].lost
       THEN job' = [job EXCEPT !["matching"] = Idle] /\ UNCHANGED match
       ELSE /\ match' = [match EXCEPT ![v].config = job["matching"].rows[v].config]
            /\ job' = [job EXCEPT !["matching"].rows[v] = NoMatch]
    /\ UNCHANGED <<manuscript, shortlistedAt, venue, now, request>>

MatchingEnds ==
    /\ job["matching"].at = "match"
    /\ \A v \in Venues : job["matching"].rows[v] = NoMatch
    /\ job' = [job EXCEPT !["matching"] = Idle]
    /\ UNCHANGED <<manuscript, matches, venue, now, request>>

(***************************************************************************)
(* A venue is added, excluded, restored, or gets other rules.              *)
(***************************************************************************)

VenueChanges(v) ==
    /\ now < MaxTime
    /\ now' = now + 1
    /\ \E shown \in BOOLEAN : venue' = [venue EXCEPT ![v] = [matchable |-> shown, updated |-> now', config |-> @.config + 1]]
    /\ UNCHANGED <<manuscript, matches, request, job>>

RequestStep(q) ==
    \/ MechanicalStarts(q) \/ MechanicalEnds(q)
    \/ GenerateStarts(q) \/ RefreshStarts(q) \/ Shortlist(q) \/ Gate(q) \/ GateFails(q) \/ Stamp(q)

Next ==
    \/ Edit \/ SemanticStarts \/ SemanticEnds \/ MatchingStarts \/ MatchingEnds
    \/ \E j \in Jobs : Queue(j)
    \/ \E q \in Requests : RequestStep(q)
    \/ \E v \in Venues : MatchOne(v) \/ VenueChanges(v)

Spec == Init /\ [][Next]_vars

(***************************************************************************)
(* Properties.                                                             *)
(***************************************************************************)

\* Mutant: the newest semantic result is shown whatever came after it.
SemanticShownAlways == sem.status = "completed"

\* author_readiness: the newest semantic assessment, unless the mechanical one is
\* newer.
SemanticShown == sem.status # "none" /\ ~sem.older

\* Assessments and matches are about texts that existed.
TypeOK ==
    /\ text \in 1..MaxText /\ profile \in 0..text
    /\ mech.text \in 0..text /\ mech.status \in Statuses
    /\ sem.text \in 0..text /\ sem.status \in Statuses
    /\ \A v \in Matched : match[v].text \in 1..text /\ match[v].config \in 1..venue[v].config
    /\ shortlistedAt \in 0..now /\ now \in 1..MaxTime

\* "The semantic result describes an older version" is never shown: a semantic
\* result next to a mechanical one is not about an earlier text.
SemanticNotOlder == SemanticShown => sem.text >= mech.text

\* "Venues changed after this are checked against the shortlist when the author
\* next opens their matches": a venue that could be matched and is not will be
\* looked at.  (For an instance whose shortlist has place for every venue.)
NewVenuesAreMatched ==
    (\A q \in Requests : request[q] = Idle) /\ Matched # {} =>
        \A v \in Matchable \ Matched : venue[v].updated >= shortlistedAt

\* "The parsed profile is cleared": after an edit the profile of another text does
\* not come back.
ProfileIsOfThisText == profile # None => profile = text
=============================================================================
