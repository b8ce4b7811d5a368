------------------------------ MODULE FreshCalls ------------------------------
(***************************************************************************)
(* Which open calls of one venue the authors see (services/freshness.py):  *)
(* the readings that stage calls, the publication of the venue with them,  *)
(* the weekly check of a venue that Flexee verifies, the configurations    *)
(* that are saved by hand, and edits of the venue that save the whole row  *)
(* as they loaded it.                                                      *)
(*                                                                         *)
(* A call is its deadline, the last day on which it is open.  Day 0 is     *)
(* never.  A tier of venues that are only listed shows calls like claimed. *)
(*                                                                         *)
(* Bounds: Calls, LastDay.  Window stands for the ten days in which a call *)
(* counts as confirmed.                                                    *)
(***************************************************************************)
EXTENDS Naturals

CONSTANTS Calls, LastDay, Window

VARIABLES
    today,
    pages,     \* the calls on the official pages
    staged,    \* DiscoveredVenue: the calls of its reading, the day it was last checked
    venue,     \* Venue: tier, open_calls with their confirmed_at, calls_checked_at, last_verified_at
    config,    \* the calls in the active configuration
    checker,   \* the day on which the running check began, 0 if none runs
    edit,      \* the row an administrator has loaded to edit it
    readOn     \* the last day each call was read from the pages

vars == <<today, pages, staged, venue, config, checker, edit, readOn>>

Days == 0..LastDay
Open(calls, day) == {c \in calls : c >= day}
NoVenue == [tier |-> "none", by |-> "none", calls |-> [c \in Calls |-> 0], checked |-> 0, verified |-> 0]
Confirmed(calls, day) == [c \in Calls |-> IF c \in calls THEN day ELSE 0]
Read(calls) == [c \in Calls |-> IF c \in calls THEN today ELSE readOn[c]]

Init ==
    /\ today = 1
    /\ pages \in SUBSET Calls
    /\ staged = [calls |-> {}, checked |-> 0]
    /\ venue = NoVenue
    /\ config = {}
    /\ checker = 0
    /\ edit = NoVenue
    /\ readOn = [c \in Calls |-> 0]

\* A check takes minutes, and so one midnight at most.
DayPasses ==
    /\ today < LastDay
    /\ checker \in {0, today}
    /\ today' = today + 1
    /\ UNCHANGED <<pages, staged, venue, config, checker, edit, readOn>>

PagesChange ==
    /\ pages' \in SUBSET Calls
    /\ UNCHANGED <<today, staged, venue, config, checker, edit, readOn>>

(***************************************************************************)
(* Readings of the official pages, and the publication of what they found. *)
(***************************************************************************)

\* upsert_candidate: a first or a better reading.
Stage ==
    /\ staged' = [calls |-> Open(pages, today), checked |-> today]
    /\ readOn' = Read(Open(pages, today))
    /\ UNCHANGED <<today, pages, venue, config, checker, edit>>

\* A weaker reading, or one of the same pages, leaves the calls and takes the date.
StageAgain ==
    /\ staged.checked > 0
    /\ staged' = [staged EXCEPT !.checked = today]
    /\ readOn' = Read(staged.calls \intersect Open(pages, today))
    /\ UNCHANGED <<today, pages, venue, config, checker, edit>>

\* add_discovered_to_venue_agent: the calls count as confirmed when the pages
\* were last checked.
Publish ==
    /\ venue.tier = "none" /\ staged.checked > 0
    /\ venue' = [tier |-> "verified_index", by |-> "reading", calls |-> Confirmed(staged.calls, staged.checked),
                 checked |-> staged.checked, verified |-> staged.checked]
    /\ config' = staged.calls
    /\ UNCHANGED <<today, pages, staged, checker, edit, readOn>>

\* apply_discovered_changes makes what was read the active configuration.
ApplyChanges ==
    /\ venue.tier # "none" /\ staged.checked > 0
    /\ config' = staged.calls
    /\ venue' = [venue EXCEPT !.verified = staged.checked]
    /\ UNCHANGED <<today, pages, staged, checker, edit, readOn>>

(***************************************************************************)
(* People.                                                                 *)
(***************************************************************************)

\* admin_venues
CreateByHand ==
    /\ venue.tier = "none"
    /\ venue' = [NoVenue EXCEPT !.tier = "claimed"]
    /\ UNCHANGED <<today, pages, staged, config, checker, edit, readOn>>

\* admin_venue_config and mark_editor_confirmed: the editor of the venue vouches
\* for it from now on, a platform administrator only if it has no editor.
SaveConfig ==
    /\ venue.tier # "none"
    /\ config' \in SUBSET Calls
    /\ \/ venue' = [venue EXCEPT !.tier = "claimed", !.verified = today]
       \/ venue.tier = "claimed" /\ venue' = [venue EXCEPT !.verified = today]
       \/ UNCHANGED venue
    /\ UNCHANGED <<today, pages, staged, checker, edit, readOn>>

\* admin_venue_detail loads the row, and saves all of it.
EditLoads ==
    /\ edit.tier = "none" /\ venue.tier # "none"
    /\ edit' = venue
    /\ UNCHANGED <<today, pages, staged, venue, config, checker, readOn>>

EditSaves ==
    /\ edit.tier # "none"
    /\ \E tier \in {"verified_index", "claimed"} : venue' = [edit EXCEPT !.tier = tier]
    /\ edit' = NoVenue
    /\ UNCHANGED <<today, pages, staged, config, checker, readOn>>

(***************************************************************************)
(* The weekly check.                                                       *)
(***************************************************************************)

\* run_calls takes the time at its start, for all venues that calls_due finds.
CheckStarts ==
    /\ checker = 0
    /\ venue.tier = "verified_index"
    /\ checker' = today
    /\ UNCHANGED <<today, pages, staged, venue, config, edit, readOn>>

\* check_calls replaces the open calls by those on the pages ...
CheckSucceeds ==
    /\ checker > 0
    /\ LET found == Open(pages, checker)
       IN  /\ venue' = [venue EXCEPT !.by = "check", !.calls = Confirmed(found, checker), !.checked = checker]
           /\ readOn' = Read(found)
    /\ checker' = 0
    /\ UNCHANGED <<today, pages, staged, config, edit>>

\* Mutant: a venue that could not be read keeps its calls as if it had been.
CheckFailsKept ==
    /\ checker > 0
    /\ venue' = [venue EXCEPT !.calls = Confirmed({c \in Calls : @[c] > 0}, checker)]
    /\ checker' = 0
    /\ UNCHANGED <<today, pages, staged, config, edit, readOn>>

\* ... or leaves them, with their dates, if the pages cannot be read.
CheckFails ==
    /\ checker > 0
    /\ checker' = 0
    /\ UNCHANGED <<today, pages, staged, venue, config, edit, readOn>>

Next ==
    \/ DayPasses \/ PagesChange \/ Stage \/ StageAgain \/ Publish \/ ApplyChanges
    \/ CreateByHand \/ SaveConfig \/ EditLoads \/ EditSaves
    \/ CheckStarts \/ CheckSucceeds \/ CheckFails

Spec == Init /\ [][Next]_vars

(***************************************************************************)
(* What the authors see.                                                   *)
(***************************************************************************)

\* call_candidates: each call with the day of its confirmation.
Candidates ==
    IF venue.tier = "verified_index" /\ venue.checked > 0 THEN venue.calls
    ELSE Confirmed(config, venue.verified)

\* visible_calls
Visible ==
    {c \in Open(Calls, today) :
        IF venue.tier = "verified_index" THEN Candidates[c] > 0 /\ Candidates[c] + Window >= today
        ELSE c \in config}

\* Every date is a day that has been, every row what a handler writes.
TypeOK ==
    /\ today \in Days \ {0} /\ pages \subseteq Calls /\ config \subseteq Calls
    /\ staged \in [calls : SUBSET Calls, checked : Days]
    /\ {venue, edit} \subseteq [tier : {"none", "verified_index", "claimed"}, by : {"none", "reading", "check"},
                               calls : [Calls -> Days], checked : Days, verified : Days]
    /\ checker \in Days
    /\ readOn \in [Calls -> Days]

Fresh(c) == readOn[c] > 0 /\ readOn[c] + Window >= today

\* "Hidden, not shown with an old date": once the weekly check has read a venue, an
\* author sees a call of it only if it was on the official pages within the window,
\* also when checks fail, edits overwrite the row and the tier changes.
CheckedCallsAreFresh ==
    venue.tier = "verified_index" /\ venue.by = "check" => \A c \in Visible : Fresh(c)

\* "Never show a stale call" of a venue that Flexee verifies, checked or not.
ShownCallsAreFresh ==
    venue.tier = "verified_index" => \A c \in Visible : Fresh(c)
=============================================================================
