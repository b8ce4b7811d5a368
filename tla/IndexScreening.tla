---------------------------- MODULE IndexScreening ----------------------------
(***************************************************************************)
(* The review of the journals of the venue index: the passes of an index   *)
(* run (services/venue_index.py, services/index_screening.py), which       *)
(* refresh, enrich and flag the records, and the decisions of a person,    *)
(* who keeps, excludes or restores a journal (index_api.py).               *)
(*                                                                         *)
(* A pass loads records, works on the network for a while and saves them   *)
(* later: the enrichment the whole row, the screening and the reading of   *)
(* pages the fields they compute.  A decision locks the row it saves, but  *)
(* is checked before.  All journals have one publisher.                    *)
(*                                                                         *)
(* A record is [excluded, status, flags, kept, own]: whether it is excluded*)
(* its screening_status, the negative codes of the last screening, those a *)
(* reviewer has accepted, and whether its data or pages give cause for one.*)
(***************************************************************************)
EXTENDS Naturals

CONSTANTS Records, Requests

VARIABLES
    row,       \* IndexedVenue
    blocked,   \* the publisher is in BlockedPublisher
    decided,   \* the records somebody decided to exclude (IndexReviewDecision)
    run,       \* the index run: its pass, the records it has loaded, the blocked names it read
    request    \* what each request of an administrator is doing

vars == <<row, blocked, decided, run, request>>

Codes == {"own", "publisher"}
Rows == [excluded : BOOLEAN, status : {"clear", "flagged", "kept", "excluded"},
         flags : SUBSET Codes, kept : SUBSET Codes, own : BOOLEAN]

\* Copies of records that a process has loaded, and which of them are left to do.
NoCopies == [todo |-> {}, of |-> <<>>]
CopyOf(these) == [todo |-> these, of |-> [r \in these |-> row[r]]]
Without(copies, r) == LET rest == copies.todo \ {r} IN [todo |-> rest, of |-> [x \in rest |-> copies.of[x]]]

Idle == [at |-> "idle"]
AtDecide(r, decision, block) == [at |-> "decide", record |-> r, decision |-> decision, block |-> block]
AtOthers(copies, names) == [at |-> "others", copies |-> copies, names |-> names]
Goto(q, where) == request' = [request EXCEPT ![q] = where]

Pass(name, copies, names) == [pass |-> name, copies |-> copies, names |-> names]

Init ==
    /\ row = [r \in Records |-> [excluded |-> FALSE, status |-> "clear", flags |-> {}, kept |-> {}, own |-> FALSE]]
    /\ blocked = FALSE
    /\ decided = {}
    /\ run = Pass("none", NoCopies, FALSE)
    /\ request = [q \in Requests |-> Idle]

(***************************************************************************)
(* Screening one record.                                                   *)
(***************************************************************************)

\* catalogue_flags and the flags of the pages: the negative codes of a record.
Flagged(r, names) == (IF r.own THEN {"own"} ELSE {}) \union (IF names THEN {"publisher"} ELSE {})

\* Mutant: what a reviewer kept stays kept before anything else is looked at.
StatusKeptFirst(r, codes) ==
    IF r.status = "kept" /\ codes \subseteq r.kept THEN "kept"
    ELSE IF r.excluded THEN "excluded"
    ELSE IF codes = {} THEN "clear" ELSE "flagged"

\* The place in the review queue: nothing new since a reviewer kept it, or a flag.
StatusOf(r, codes) ==
    IF r.excluded THEN "excluded"
    ELSE IF r.status = "kept" /\ codes \subseteq r.kept THEN "kept"
    ELSE IF codes = {} THEN "clear" ELSE "flagged"

\* Mutant: a journal that is flagged is excluded.
ScreenedExcludes(r, copy, names) ==
    LET codes == Flagged(copy, names)
    IN  [row EXCEPT ![r].flags = codes, ![r].status = StatusOf(copy, codes), ![r].excluded = @ \/ (codes # {})]

\* screen_record saves the flags and the status it computed from its copy.
Screened(r, copy, names) ==
    LET codes == Flagged(copy, names)
    IN  [row EXCEPT ![r].flags = codes, ![r].status = StatusOf(copy, codes)]

(***************************************************************************)
(* An index run.                                                           *)
(***************************************************************************)

\* run_index: a full run begins with the catalogue, the others later.
StartRun(first) ==
    /\ run.pass = "none"
    /\ run' = IF first = "catalogue" THEN Pass("catalogue", NoCopies, FALSE)
              ELSE IF first = "enrich" THEN Pass("enrich", CopyOf(Records), FALSE)
              ELSE Pass("screen", CopyOf(Records), blocked)
    /\ UNCHANGED <<row, blocked, decided, request>>

\* _upsert, under the lock of the row: what the catalogue knows of the journal.
Upsert(r) ==
    /\ run.pass = "catalogue"
    /\ \E own \in BOOLEAN : row' = [row EXCEPT ![r].own = own]
    /\ UNCHANGED <<blocked, decided, run, request>>

\* The catalogue pass ends, and the enrichment loads its batch.
CatalogueDone ==
    /\ run.pass = "catalogue"
    /\ run' = Pass("enrich", CopyOf(Records), FALSE)
    /\ UNCHANGED <<row, blocked, decided, request>>

\* _enrichment_pass: the journal was looked up, and the whole row is saved.
SaveEnriched(r) ==
    /\ run.pass = "enrich" /\ r \in run.copies.todo
    /\ \E own \in BOOLEAN : row' = [row EXCEPT ![r] = [run.copies.of[r] EXCEPT !.own = own]]
    /\ run' = [run EXCEPT !.copies = Without(@, r)]
    /\ UNCHANGED <<blocked, decided, request>>

\* The lookups fail, or the time is over: the next run continues.  screen_all
\* then loads the records, and has read the blocked names.
EnrichmentDone ==
    /\ run.pass = "enrich"
    /\ run' = Pass("screen", CopyOf(Records), blocked)
    /\ UNCHANGED <<row, blocked, decided, request>>

Screen(r) ==
    /\ run.pass = "screen" /\ r \in run.copies.todo
    /\ row' = Screened(r, run.copies.of[r], run.names)
    /\ run' = [run EXCEPT !.copies = Without(@, r)]
    /\ UNCHANGED <<blocked, decided, request>>

\* gather_page_evidence loads the records whose pages are due.
ScreeningDone ==
    /\ run.pass = "screen" /\ run.copies.todo = {}
    /\ \E due \in SUBSET Records : run' = Pass("pages", CopyOf(due), blocked)
    /\ UNCHANGED <<row, blocked, decided, request>>

\* The pages were read: the evidence is saved, and the record screened.
SavePages(r) ==
    /\ run.pass = "pages" /\ r \in run.copies.todo
    /\ \E own \in BOOLEAN :
          LET copy == [run.copies.of[r] EXCEPT !.own = own]
          IN  row' = [Screened(r, copy, run.names) EXCEPT ![r].own = own]
    /\ run' = [run EXCEPT !.copies = Without(@, r)]
    /\ UNCHANGED <<blocked, decided, request>>

RunDone ==
    /\ run.pass = "pages" /\ run.copies.todo = {}
    /\ run' = Pass("none", NoCopies, FALSE)
    /\ UNCHANGED <<row, blocked, decided, request>>

(***************************************************************************)
(* A person decides.                                                       *)
(***************************************************************************)

\* index_decision: the record is loaded and the decision checked against it ...
DecisionLoads(q, r, decision, block) ==
    /\ request[q] = Idle
    /\ \/ decision = "exclude"
       \/ decision = "restore" /\ row[r].excluded
       \/ decision = "keep" /\ ~row[r].excluded
    /\ block => decision = "exclude"
    /\ Goto(q, AtDecide(r, decision, block))
    /\ UNCHANGED <<row, blocked, decided, run>>

\* Mutant: the decision itself is stored as the status.
DecidedVerb(r, decision, block) ==
    [row EXCEPT ![r] = [row[r] EXCEPT !.excluded = IF decision = "keep" THEN @ ELSE decision = "exclude",
                                      !.status = decision]]

\* The row after the decision: to keep or restore a journal accepts its flags.
Decided(r, decision, block) ==
    IF decision = "exclude"
    THEN [row EXCEPT ![r].excluded = TRUE, ![r].status = "excluded"]
    ELSE [row EXCEPT ![r] = [row[r] EXCEPT !.excluded = IF decision = "restore" THEN FALSE ELSE @,
                                           !.status = "kept", !.kept = row[r].flags]]

\* ... then decide locks and saves the record as it is now.  If the publisher is
\* blocked too, its other titles that are not excluded are loaded.
DecisionSaves(q) ==
    /\ request[q].at = "decide"
    /\ LET r == request[q].record
           others == {x \in Records \ {r} : ~row[x].excluded}
       IN  /\ row' = Decided(r, request[q].decision, request[q].block)
           /\ decided' = IF request[q].decision = "exclude" THEN decided \union {r} ELSE decided
           /\ blocked' = (blocked \/ request[q].block)
           /\ Goto(q, IF request[q].block THEN AtOthers(CopyOf(others), TRUE) ELSE Idle)
    /\ UNCHANGED run

\* index_unblock_publisher: the titles of the publisher are loaded ...
Unblock(q) ==
    /\ request[q] = Idle
    /\ blocked
    /\ blocked' = FALSE
    /\ Goto(q, AtOthers(CopyOf(Records), FALSE))
    /\ UNCHANGED <<row, decided, run>>

\* ... and screened one after the other.
ScreenOther(q, r) ==
    /\ request[q].at = "others" /\ r \in request[q].copies.todo
    /\ row' = Screened(r, request[q].copies.of[r], request[q].names)
    /\ LET rest == Without(request[q].copies, r)
       IN  Goto(q, IF rest.todo = {} THEN Idle ELSE AtOthers(rest, request[q].names))
    /\ UNCHANGED <<blocked, decided, run>>

OthersDone(q) ==
    /\ request[q].at = "others" /\ request[q].copies.todo = {}
    /\ Goto(q, Idle)
    /\ UNCHANGED <<row, blocked, decided, run>>

RunStep ==
    \/ \E first \in {"catalogue", "enrich", "screen"} : StartRun(first)
    \/ CatalogueDone \/ EnrichmentDone \/ ScreeningDone \/ RunDone
    \/ \E r \in Records : Upsert(r) \/ SaveEnriched(r) \/ Screen(r) \/ SavePages(r)

RequestStep(q) ==
    \/ \E r \in Records, decision \in {"exclude", "keep", "restore"}, block \in BOOLEAN :
          DecisionLoads(q, r, decision, block)
    \/ DecisionSaves(q) \/ Unblock(q) \/ OthersDone(q)
    \/ \E r \in Records : ScreenOther(q, r)

Next == RunStep \/ \E q \in Requests : RequestStep(q)

Spec == Init /\ [][Next]_vars

\* The weekly schedule starts a run again, and the passes of a run end: each has
\* a time limit.  Nobody has to decide anything.
Passes == CatalogueDone \/ EnrichmentDone \/ ScreeningDone \/ RunDone
Fairness ==
    /\ WF_vars(\E first \in {"catalogue", "enrich", "screen"} : StartRun(first))
    /\ WF_vars(Passes)
    /\ \A r \in Records : WF_vars(Screen(r)) /\ WF_vars(SavePages(r))

FairSpec == Spec /\ Fairness

(***************************************************************************)
(* Properties.                                                             *)
(***************************************************************************)

\* The records and the copies of them are rows.
TypeOK ==
    /\ row \in [Records -> Rows]
    /\ blocked \in BOOLEAN
    /\ decided \subseteq Records
    /\ run.pass \in {"none", "catalogue", "enrich", "screen", "pages"}
    /\ \A r \in run.copies.todo : run.copies.of[r] \in Rows

\* "Never excludes anything": a journal is excluded only if a person once decided
\* that, whatever was flagged, blocked, read and saved late.
OnlyDecidedIsExcluded == \A r \in Records : row[r].excluded => r \in decided

\* The review queue recovers from a stale save: a journal that stays excluded is
\* shown as excluded again.
ExclusionShows == \A r \in Records : []<>(row[r].excluded => row[r].status = "excluded")

\* "Decisions (a person, never the screening)": a run does not change whether a
\* journal is excluded.
RunsDecideNothing == [][run' # run => \A r \in Records : row'[r].excluded = row[r].excluded]_vars
=============================================================================
