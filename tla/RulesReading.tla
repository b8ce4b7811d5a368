----------------------------- MODULE RulesReading -----------------------------
(***************************************************************************)
(* How the rules of one journal are read from its official pages, staged   *)
(* and brought to the authors: services/venue_discovery.py (a discovered   *)
(* venue), services/index_rules.py (a journal of the index) and the        *)
(* administrator's decisions of discovery_api.py and index_api.py.         *)
(*                                                                         *)
(* A reader is a discovery run or a rules run of the index that comes to   *)
(* the journal: it fetches the pages, looks for a row with their           *)
(* fingerprint, asks a model, and stores the result, with nothing held in  *)
(* between.  A model reads one page differently from time to time, so a    *)
(* reading is any validated answer.                                        *)
(* Rows for one journal are more than one when two readers both find none. *)
(*                                                                         *)
(* Bounds: Items, the rows ever staged; Pages, the contents the site has.  *)
(***************************************************************************)
EXTENDS Naturals

CONSTANTS Items, Pages, Discoverers, Indexers, None

VARIABLES
    page,      \* what the official pages say now
    item,      \* DiscoveredVenue rows: fingerprint, staged reading, status
    venue,     \* the live venue of each row: applied reading, tier, pages of the last verification
    record,    \* IndexedVenue: discovered, whether rules_status is 'ready', excluded
    reader     \* what each reader is doing

Readers == Discoverers \union Indexers
vars == <<page, item, venue, record, reader>>

(***************************************************************************)
(* A validated reading.                                                    *)
(***************************************************************************)

\* compute_confidence of official pages, in units of 15 points: quotes of the
\* status count for the reading, an unclear status counts against it.
Confidence(quoted, accept) ==
    1 + (IF quoted THEN 1 ELSE 0) + (IF accept = "unclear" THEN 0 ELSE 1)

\* apply_page_signals: an exact phrase on the pages decides, and is its own quote.
WithSignal(answer, signal) ==
    IF signal = "closed" \/ (signal = "accepting" /\ answer.claim # "closed")
    THEN [claim |-> signal, quoted |-> TRUE] ELSE answer

\* verify_evidence: a status whose quote is not found on the pages is unclear.
Supported(answer) == IF answer.quoted THEN answer.claim ELSE "unclear"

\* validate_extraction
Validated(p, answer) ==
    [page |-> p, accept |-> Supported(answer), confidence |-> Confidence(answer.quoted, Supported(answer))]

\* apply_calls_for_papers: an open call on the pages proves that the venue is
\* accepting, whatever the model said.
WithOpenCall(r) ==
    IF r.accept = "unclear" THEN [r EXCEPT !.accept = "accepting", !.confidence = @ + 1] ELSE r

\* candidate_from_raw: every reading of the pages p that is worth staging.
Readings(p) ==
    LET said == [claim : {"accepting", "unclear", "closed"}, quoted : BOOLEAN]
        valid == {Validated(p, WithSignal(a, s)) : a \in said, s \in {"none", "accepting", "closed"}}
    IN  valid \union {WithOpenCall(r) : r \in valid}

\* rules_found: the pages are clear enough.  Less than that has no quote either.
RulesFound(r) == r.confidence > 1

\* The part of a reading that becomes the configuration of a live venue.
Rules(r) == [page |-> r.page, accept |-> r.accept]

\* _is_weaker_reading
WeakerReading(old, new) ==
    /\ ~(new.accept = "closed" /\ old.accept # "closed")
    /\ \/ old.accept \in {"accepting", "closed"} /\ new.accept = "unclear"
       \/ new.confidence < old.confidence

\* The fields that _describe_changes compares: the rules and the status.
Differs(old, new) == Rules(old) # Rules(new)

(***************************************************************************)
(* Rows and readers.                                                       *)
(***************************************************************************)

Statuses == {"new", "ignored", "added", "changed"}
AnyReading == UNION {Readings(p) : p \in Pages}
Rows == [print : Pages, reading : AnyReading, status : Statuses]
LiveVenues == [applied : {Rules(r) : r \in AnyReading}, tier : {"verified_index", "claimed"}, verified : Pages]

ASSUME NoneAssumption == None \notin Items /\ None \notin Rows /\ None \notin LiveVenues

Staged == {i \in Items : item[i] # None}
Live == {i \in Items : venue[i] # None}
\* process_candidate looks for a row that was read from the same pages.
ReadFrom(p) == {i \in Staged : item[i].print = p}

Idle == [at |-> "idle"]
AtFetched(p) == [at |-> "fetched", page |-> p]
AtConfirm(i, p, status) == [at |-> "confirm", item |-> i, page |-> p, status |-> status]
AtFind(r) == [at |-> "find", reading |-> r]
AtStore(r, i) == [at |-> "store", reading |-> r, item |-> i]
AtRecord(i) == [at |-> "record", item |-> i]

Goto(w, where) == reader' = [reader EXCEPT ![w] = where]
\* A journal of the index still has its own row to save, a discovered one is done.
Done(w, i) == IF w \in Indexers THEN AtRecord(i) ELSE Idle

Init ==
    /\ page \in Pages
    /\ item = [i \in Items |-> None]
    /\ venue = [i \in Items |-> None]
    /\ record = [discovered |-> None, ready |-> FALSE, excluded |-> FALSE]
    /\ reader = [w \in Readers |-> Idle]

\* The publisher changes the pages.
PagesChange ==
    /\ page' \in Pages \ {page}
    /\ UNCHANGED <<item, venue, record, reader>>

(***************************************************************************)
(* Reading.                                                                *)
(***************************************************************************)

\* gather_pages, for a candidate of a discovery run ...
FetchDiscovery(w) ==
    /\ w \in Discoverers /\ reader[w] = Idle
    /\ Goto(w, AtFetched(page))
    /\ UNCHANGED <<page, item, venue, record>>

\* ... or for a row that is due for a re-check (_recheck_existing) ...
FetchRecheck(w) ==
    /\ w \in Discoverers /\ reader[w] = Idle
    /\ \E i \in Staged : item[i].status # "ignored"
    /\ Goto(w, AtFetched(page))
    /\ UNCHANGED <<page, item, venue, record>>

\* ... or for a journal of the index that rules_candidates finds due.
FetchIndex(w) ==
    /\ w \in Indexers /\ reader[w] = Idle
    /\ ~record.excluded
    /\ Goto(w, AtFetched(page))
    /\ UNCHANGED <<page, item, venue, record>>

\* The site refuses to be read, or the pages have no text: the index notes it, a
\* discovery leaves the row as it was.
FetchFails(w) ==
    /\ w \in Indexers /\ reader[w] = Idle
    /\ ~record.excluded
    /\ record' = [record EXCEPT !.ready = FALSE]
    /\ UNCHANGED <<page, item, venue, reader>>

\* process_candidate: the pages are those of an earlier reading.  The index asks
\* in addition that rules were found in it.
SamePages(w) ==
    /\ reader[w].at = "fetched"
    /\ \E i \in ReadFrom(reader[w].page) :
          /\ w \in Indexers => RulesFound(item[i].reading)
          /\ Goto(w, AtConfirm(i, reader[w].page, item[i].status))
    /\ UNCHANGED <<page, item, venue, record>>

\* reconfirm_live_venue: the row, as it was loaded, is added, and its venue is
\* one that Flexee verifies.
Reconfirm(w) ==
    /\ reader[w].at = "confirm"
    /\ LET i == reader[w].item
       IN  /\ venue' = IF reader[w].status = "added" /\ venue[i] # None /\ venue[i].tier = "verified_index"
                       THEN [venue EXCEPT ![i].verified = reader[w].page] ELSE venue
           /\ Goto(w, Done(w, i))
    /\ UNCHANGED <<page, item, record>>

\* Nobody read these pages before: a model reads them, in the index locally,
\* then locally again, then in the cloud (extract_with_escalation).
Extract(w) ==
    /\ reader[w].at = "fetched"
    /\ \A i \in ReadFrom(reader[w].page) :
          w \in Indexers /\ ~RulesFound(item[i].reading)
    /\ \E r \in Readings(reader[w].page) : Goto(w, AtFind(r))
    /\ UNCHANGED <<page, item, venue, record>>

\* No model gives an answer that can be used.
ExtractFails(w) ==
    /\ reader[w].at = "fetched"
    /\ Goto(w, Idle)
    /\ record' = IF w \in Indexers THEN [record EXCEPT !.ready = FALSE] ELSE record
    /\ UNCHANGED <<page, item, venue>>

\* find_existing: a row of the same journal, read without a lock.
FindExisting(w) ==
    /\ reader[w].at = "find"
    /\ IF Staged = {} THEN Goto(w, AtStore(reader[w].reading, None))
       ELSE \E i \in Staged : Goto(w, AtStore(reader[w].reading, i))
    /\ UNCHANGED <<page, item, venue, record>>

\* upsert_candidate creates the row ...
Create(w) ==
    /\ reader[w].at = "store" /\ reader[w].item = None
    /\ \E i \in Items \ Staged :
          /\ item' = [item EXCEPT ![i] = [print |-> reader[w].reading.page,
                                          reading |-> reader[w].reading, status |-> "new"]]
          /\ Goto(w, Done(w, i))
    /\ UNCHANGED <<page, venue, record>>

\* ... or locks it: a weaker reading leaves the rules and takes the fingerprint ...
KeepBetter(w) ==
    /\ reader[w].at = "store" /\ reader[w].item # None
    /\ LET i == reader[w].item
           new == reader[w].reading
       IN  /\ WeakerReading(item[i].reading, new)
           /\ item' = [item EXCEPT ![i].print = new.page]
           /\ Goto(w, Done(w, i))
    /\ UNCHANGED <<page, venue, record>>

\* Mutant: a later reading of a changed row clears the flag.
StatusAfterLast(old, new) ==
    IF old.status \in {"added", "changed"}
    THEN IF Differs(old.reading, new) THEN "changed" ELSE "added" ELSE old.status

\* Mutant: whatever is read again is on offer again.
StatusAfterOffer(old, new) ==
    IF Differs(old.reading, new) THEN IF old.status = "added" THEN "changed" ELSE "new" ELSE old.status

\* A difference to what an added row had is flagged for the administrator.
StatusAfter(old, new) ==
    IF Differs(old.reading, new) /\ old.status \in {"added", "changed"} THEN "changed" ELSE old.status

\* ... and any other reading replaces the rules; unless it was flagged, the live
\* venue is confirmed in the same transaction.
Replace(w) ==
    /\ reader[w].at = "store" /\ reader[w].item # None
    /\ LET i == reader[w].item
           new == reader[w].reading
           status == StatusAfter(item[i], new)
           flagged == Differs(item[i].reading, new) /\ item[i].status \in {"added", "changed"}
       IN  /\ ~WeakerReading(item[i].reading, new)
           /\ item' = [item EXCEPT ![i] = [print |-> new.page, reading |-> new, status |-> status]]
           /\ venue' = IF ~flagged /\ status = "added" /\ venue[i] # None /\ venue[i].tier = "verified_index"
                       THEN [venue EXCEPT ![i].verified = new.page] ELSE venue
           /\ Goto(w, Done(w, i))
    /\ UNCHANGED <<page, record>>

\* read_rules_for saves its four fields of the index record.
SaveRecord(w) ==
    /\ reader[w].at = "record"
    /\ LET i == reader[w].item
       IN  record' = [record EXCEPT !.discovered = i, !.ready = RulesFound(item[i].reading)]
    /\ Goto(w, Idle)
    /\ UNCHANGED <<page, item, venue>>

(***************************************************************************)
(* The administrator and the editor.  Each is one transaction under the    *)
(* lock of the row.                                                        *)
(***************************************************************************)

\* add_discovered_to_venue_agent, reached from the staged list ...
AddToVenueAgent(i) ==
    /\ i \in Staged /\ venue[i] = None
    /\ item[i].status # "ignored" /\ item[i].reading.accept # "closed"
    /\ ~record.excluded
    /\ venue' = [venue EXCEPT ![i] = [applied |-> Rules(item[i].reading), tier |-> "verified_index",
                                      verified |-> item[i].print]]
    /\ item' = [item EXCEPT ![i].status = "added"]
    /\ UNCHANGED <<page, record, reader>>

\* ... or from the index (index_publish), where the rules must be ready.
IndexPublish == record.ready /\ record.discovered # None /\ AddToVenueAgent(record.discovered)

\* apply_discovered_changes: what was read becomes the active configuration.
ApplyChanges(i) ==
    /\ i \in Live /\ item[i].status = "changed"
    /\ venue' = [venue EXCEPT ![i].applied = Rules(item[i].reading), ![i].verified = item[i].print]
    /\ item' = [item EXCEPT ![i].status = "added"]
    /\ UNCHANGED <<page, record, reader>>

\* index_apply_changes: not while the journal is excluded.
IndexApply == ~record.excluded /\ record.discovered # None /\ ApplyChanges(record.discovered)

\* Mutant: an added venue can be ignored.
IgnoreAny(i) ==
    /\ i \in Staged
    /\ item' = [item EXCEPT ![i].status = "ignored"]
    /\ UNCHANGED <<page, venue, record, reader>>

DiscoveryIgnore(i) ==
    /\ i \in Staged \ Live
    /\ item' = [item EXCEPT ![i].status = "ignored"]
    /\ UNCHANGED <<page, venue, record, reader>>

DiscoveryRestore(i) ==
    /\ i \in Staged /\ item[i].status = "ignored"
    /\ item' = [item EXCEPT ![i].status = "new"]
    /\ UNCHANGED <<page, venue, record, reader>>

\* A decision on the journal, in the index.
DecideExclusion ==
    /\ record' = [record EXCEPT !.excluded = ~@]
    /\ UNCHANGED <<page, item, venue, reader>>

\* The editor of the venue confirms its rules.
EditorConfirms(i) ==
    /\ i \in Live /\ venue[i].tier # "claimed"
    /\ venue' = [venue EXCEPT ![i].tier = "claimed"]
    /\ UNCHANGED <<page, item, record, reader>>

ReaderStep(w) ==
    \/ FetchDiscovery(w) \/ FetchRecheck(w) \/ FetchIndex(w) \/ FetchFails(w)
    \/ SamePages(w) \/ Reconfirm(w) \/ Extract(w) \/ ExtractFails(w)
    \/ FindExisting(w) \/ Create(w) \/ KeepBetter(w) \/ Replace(w) \/ SaveRecord(w)

Next ==
    \/ PagesChange \/ DecideExclusion \/ IndexPublish \/ IndexApply
    \/ \E w \in Readers : ReaderStep(w)
    \/ \E i \in Items :
          AddToVenueAgent(i) \/ ApplyChanges(i) \/ DiscoveryIgnore(i) \/ DiscoveryRestore(i) \/ EditorConfirms(i)

Spec == Init /\ [][Next]_vars

(***************************************************************************)
(* Properties.                                                             *)
(***************************************************************************)

\* Rows, venues and readers have the values the code can write; only a row that
\* is added or changed has a live venue.
TypeOK ==
    /\ page \in Pages
    /\ \A i \in Staged : item[i] \in Rows
    /\ \A i \in Live : venue[i] \in LiveVenues /\ i \in Staged
    /\ \A i \in Staged : i \in Live <=> item[i].status \in {"added", "changed"}
    /\ record \in [discovered : Items \union {None}, ready : BOOLEAN, excluded : BOOLEAN]
    /\ record.discovered # None => record.discovered \in Staged

\* "flag the difference for the admin instead": whenever the staged rules differ
\* from those that were last applied to the live venue, the row waits for the
\* administrator, however many readings came in between.
DifferencesWait ==
    \A i \in Live : venue[i].applied # Rules(item[i].reading) => item[i].status = "changed"

\* "Only an admin does this; re-reading never changes a live config by itself",
\* nor does it bring back a venue that was ignored.
ReadingDecidesNothing ==
    [][reader' # reader =>
         \A i \in Items :
            /\ venue[i] = None <=> venue'[i] = None
            /\ i \in Live => venue'[i].applied = venue[i].applied
            /\ i \in Staged /\ item[i].status = "ignored" => item'[i].status = "ignored"]_vars

\* "A venue whose pages changed keeps its old date until an admin reviews the
\* change": a reading dates the live rules again only when the pages it read are
\* those of these rules.
ConfirmedRulesAreOnThePages ==
    [][\A i \in Live : reader' # reader /\ venue'[i].verified # venue[i].verified
                       => venue'[i].applied.page = venue'[i].verified]_vars
=============================================================================
