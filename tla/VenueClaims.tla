----------------------------- MODULE VenueClaims -----------------------------
(***************************************************************************)
(* How an editor becomes the owner of a journal: the claims of             *)
(* src/review/claims_api.py, with the two administrator actions of the     *)
(* venue index that touch the same rows (index_publish and the exclusion   *)
(* decision) and the editor's confirmation of the rules.                   *)
(*                                                                         *)
(* The administrators and claimants work through web workers, Requests of  *)
(* them at a time.  An approval is one transaction that locks the claim,   *)
(* then the index record, then the venue; what it loads with the claim     *)
(* (the record and its venue) is as old as the claim's lock.  Confirming   *)
(* an address, rejecting a claim, publishing a record and confirming the   *)
(* rules load a row, check it and save it without holding it in between.   *)
(*                                                                         *)
(* Every claim comes from another person.  Bounds: MaxVenues, the venues   *)
(* ever created.                                                           *)
(***************************************************************************)
EXTENDS Naturals

CONSTANTS Claims, Records, MaxVenues, Requests, None

ASSUME ClaimsAssumption ==
    /\ MaxVenues \in Nat
    /\ None \notin Claims /\ None \notin Records /\ None \notin 1..MaxVenues

VARIABLES
    made,       \* the number of venues created so far
    link,       \* IndexedVenue.venue: the live venue of each index record
    published,  \* DiscoveredVenue.added_venue: the venue its read rules became
    excluded,   \* the index records that are excluded
    hidden,     \* the venues that are excluded
    tier,       \* trust_tier of each venue; "none" before it is created
    owner,      \* the claim whose editor owns the venue's organization
    status,     \* status of each claim; "none" before it is made
    venue,      \* the venue of each claim
    indexed,    \* the index record of each claim
    request     \* what each web worker is doing

indexVars == <<made, link, published, excluded, hidden>>
venueVars == <<tier, owner>>
claimVars == <<status, venue, indexed>>
vars == <<indexVars, venueVars, claimVars, request>>

Venues == 1..MaxVenues
Open == {"pending_email", "pending_review"}
Statuses == Open \union {"none", "approved", "rejected"}
Tiers == {"none", "listed", "verified_index", "claimed"}

\* What a web worker keeps between two database transactions of a handler, or
\* while it waits for a row.
Idle == [at |-> "idle"]
AtVerify(c) == [at |-> "verify", claim |-> c]
AtReject(c, v) == [at |-> "reject", claim |-> c, venue |-> v]
AtRecord(c, v) == [at |-> "record", claim |-> c, venue |-> v]
AtVenue(c, v) == [at |-> "venue", claim |-> c, venue |-> v]
AtCommit(c, v) == [at |-> "commit", claim |-> c, venue |-> v]
AtLink(r) == [at |-> "link", record |-> r]
AtConfirm(v) == [at |-> "confirm", venue |-> v]

Free(q) == request[q] = Idle
\* A handler that is one transaction needs a free worker and leaves it free.
SomeFree == \E q \in Requests : Free(q)
Goto(q, where) == request' = [request EXCEPT ![q] = where]

\* Who holds the row of a claim, of an index record, of a venue.
ClaimUnlocked(c) ==
    \A q \in Requests : request[q].at \in {"record", "venue", "commit"} => request[q].claim # c
RecordUnlocked(r) ==
    \A q \in Requests : request[q].at \in {"venue", "commit"} => indexed[request[q].claim] # r
VenueUnlocked(v) == \A q \in Requests : request[q].at = "commit" => request[q].venue # v

Init ==
    /\ made = 0
    /\ link = [r \in Records |-> None]
    /\ published = [r \in Records |-> None]
    /\ excluded = {}
    /\ hidden = {}
    /\ tier = [v \in Venues |-> "none"]
    /\ owner = [v \in Venues |-> None]
    /\ status = [c \in Claims |-> "none"]
    /\ venue = [c \in Claims |-> None]
    /\ indexed = [c \in Claims |-> None]
    /\ request = [q \in Requests |-> Idle]

(***************************************************************************)
(* The claimant.                                                           *)
(***************************************************************************)

\* claim_create for a live venue, which an author can see and no editor has
\* confirmed yet ...
CreateForVenue(c, v) ==
    /\ SomeFree
    /\ status[c] = "none"
    /\ v \in 1..made /\ v \notin hidden
    /\ tier[v] # "claimed"
    /\ status' = [status EXCEPT ![c] = "pending_email"]
    /\ venue' = [venue EXCEPT ![c] = v]
    /\ UNCHANGED <<indexVars, venueVars, indexed, request>>

\* ... or for a listed journal, one that is in the index and not live.
CreateForRecord(c, r) ==
    /\ SomeFree
    /\ status[c] = "none"
    /\ link[r] = None /\ r \notin excluded
    /\ status' = [status EXCEPT ![c] = "pending_email"]
    /\ indexed' = [indexed EXCEPT ![c] = r]
    /\ UNCHANGED <<indexVars, venueVars, venue, request>>

\* claim_verify: the link of the email is opened ...
VerifyLoads(q, c) ==
    /\ Free(q)
    /\ status[c] = "pending_email"
    /\ Goto(q, AtVerify(c))
    /\ UNCHANGED <<indexVars, venueVars, claimVars>>

\* ... and the status is saved, whatever it is by then.
VerifySaves(q) ==
    /\ request[q].at = "verify"
    /\ ClaimUnlocked(request[q].claim)
    /\ status' = [status EXCEPT ![request[q].claim] = "pending_review"]
    /\ Goto(q, Idle)
    /\ UNCHANGED <<indexVars, venueVars, venue, indexed>>

(***************************************************************************)
(* The administrator decides.                                              *)
(***************************************************************************)

\* admin_claim_reject: the claim is loaded and its status checked ...
RejectLoads(q, c) ==
    /\ Free(q)
    /\ status[c] \in Open
    /\ Goto(q, AtReject(c, venue[c]))
    /\ UNCHANGED <<indexVars, venueVars, claimVars>>

\* ... and the whole row is saved as it was loaded, but for the decision.
RejectSaves(q) ==
    /\ request[q].at = "reject"
    /\ ClaimUnlocked(request[q].claim)
    /\ status' = [status EXCEPT ![request[q].claim] = "rejected"]
    /\ venue' = [venue EXCEPT ![request[q].claim] = request[q].venue]
    /\ Goto(q, Idle)
    /\ UNCHANGED <<indexVars, venueVars, indexed>>

\* The venue a claim was loaded with: its own, or that of its index record.
LoadedVenue(c) == IF venue[c] # None THEN venue[c]
                  ELSE IF indexed[c] # None THEN link[indexed[c]] ELSE None

\* admin_claim_approve locks the claim and loads it with its record ...
ApproveLoads(q, c) ==
    /\ Free(q)
    /\ ClaimUnlocked(c)
    /\ status[c] = "pending_review"
    /\ Goto(q, AtRecord(c, LoadedVenue(c)))
    /\ UNCHANGED <<indexVars, venueVars, claimVars>>

\* Mutant: the index record is not locked.
ApproveSkipsRecord(q) ==
    /\ request[q].at = "record"
    /\ Goto(q, AtVenue(request[q].claim, request[q].venue))
    /\ UNCHANGED <<indexVars, venueVars, claimVars>>

\* ... then locks the record, if the claim has one.
ApproveLocksRecord(q) ==
    /\ request[q].at = "record"
    /\ RecordUnlocked(indexed[request[q].claim]) \/ indexed[request[q].claim] = None
    /\ Goto(q, AtVenue(request[q].claim, request[q].venue))
    /\ UNCHANGED <<indexVars, venueVars, claimVars>>

\* An approved claim of the venue, or of the same index record.
SameVenue(d, v) == v # None /\ venue[d] = v
SameRecord(c, d) == indexed[c] # None /\ indexed[d] = indexed[c]

\* Mutant: a journal whose editor has confirmed it, under a claim overwritten
\* since, may be approved again.
ManagedByClaim(c, v) ==
    \E d \in Claims \ {c} : status[d] = "approved" /\ (SameVenue(d, v) \/ SameRecord(c, d))

\* "This journal is already managed by an editor": the editor has confirmed it,
\* or another claim of it was approved.
AlreadyManaged(c, v) ==
    \/ v # None /\ tier[v] = "claimed"
    \/ \E d \in Claims \ {c} : status[d] = "approved" /\ (SameVenue(d, v) \/ SameRecord(c, d))

\* _venue_for: the record loaded had no venue, so a new one is listed for it.
Lists(c) ==
    /\ made < MaxVenues
    /\ made' = made + 1
    /\ link' = [link EXCEPT ![indexed[c]] = made + 1]

\* The venue is locked and checked.  A refusal ends the transaction, and what
\* _venue_for created stays.
ApproveRefuses(q) ==
    /\ request[q].at = "venue"
    /\ LET c == request[q].claim
           v == request[q].venue
       IN  /\ v # None => VenueUnlocked(v)
           /\ v \in hidden \/ AlreadyManaged(c, v)
           /\ IF v = None
              THEN Lists(c) /\ tier' = [tier EXCEPT ![made + 1] = "listed"]
              ELSE UNCHANGED <<made, link, tier>>
    /\ Goto(q, Idle)
    /\ UNCHANGED <<published, excluded, hidden, owner, claimVars>>

ApproveChecks(q) ==
    /\ request[q].at = "venue"
    /\ LET c == request[q].claim
           v == request[q].venue
       IN  /\ v # None => VenueUnlocked(v)
           /\ v \notin hidden /\ ~AlreadyManaged(c, v)
           /\ Goto(q, AtCommit(c, v))
    /\ UNCHANGED <<indexVars, venueVars, claimVars>>

\* Mutant: the claimant joins the organization the journal has.
GrantedBeside(c, v) ==
    /\ owner' = [owner EXCEPT ![v] = IF @ = None THEN c ELSE @]
    /\ status' = [status EXCEPT ![c] = "approved"]
    /\ venue' = [venue EXCEPT ![c] = v]

\* The journal moves to an organization that only the claimant owns, and the
\* claim is saved with its venue.
Granted(c, v) ==
    /\ owner' = [owner EXCEPT ![v] = c]
    /\ status' = [status EXCEPT ![c] = "approved"]
    /\ venue' = [venue EXCEPT ![c] = v]

ApproveCommits(q) ==
    /\ request[q].at = "commit"
    /\ LET c == request[q].claim
           v == request[q].venue
       IN  IF v = None
           THEN /\ Lists(c)
                /\ tier' = [tier EXCEPT ![made + 1] = "listed"]
                /\ Granted(c, made + 1)
           ELSE Granted(c, v) /\ UNCHANGED <<made, link, tier>>
    /\ Goto(q, Idle)
    /\ UNCHANGED <<published, excluded, hidden, indexed>>

(***************************************************************************)
(* The editor, and the administrator of the index.                         *)
(***************************************************************************)

\* mark_editor_confirmed: the owner of the venue loads it to save its rules ...
ConfirmLoads(q, v) ==
    /\ Free(q)
    /\ owner[v] # None
    /\ Goto(q, AtConfirm(v))
    /\ UNCHANGED <<indexVars, venueVars, claimVars>>

\* ... and the venue becomes editor-confirmed.
ConfirmSaves(q) ==
    /\ request[q].at = "confirm"
    /\ VenueUnlocked(request[q].venue)
    /\ tier' = [tier EXCEPT ![request[q].venue] = "claimed"]
    /\ Goto(q, Idle)
    /\ UNCHANGED <<indexVars, owner, claimVars>>

\* index_publish: the rules that were read become a live venue, once ...
PublishAdds(q, r) ==
    /\ Free(q)
    /\ r \notin excluded
    /\ IF published[r] = None
       THEN /\ made < MaxVenues
            /\ made' = made + 1
            /\ published' = [published EXCEPT ![r] = made + 1]
            /\ tier' = [tier EXCEPT ![made + 1] = "verified_index"]
       ELSE UNCHANGED <<made, published, tier>>
    /\ Goto(q, AtLink(r))
    /\ UNCHANGED <<link, excluded, hidden, owner, claimVars>>

\* ... and the record is linked to it, whatever it was linked to.
PublishLinks(q) ==
    /\ request[q].at = "link"
    /\ RecordUnlocked(request[q].record)
    /\ link' = [link EXCEPT ![request[q].record] = published[request[q].record]]
    /\ Goto(q, Idle)
    /\ UNCHANGED <<made, published, excluded, hidden, venueVars, claimVars>>

\* decide, under the lock of the record: its live venue follows the decision.
Decide(r, out) ==
    /\ SomeFree
    /\ RecordUnlocked(r)
    /\ link[r] # None => VenueUnlocked(link[r])
    /\ r \in excluded <=> ~out
    /\ excluded' = IF out THEN excluded \union {r} ELSE excluded \ {r}
    /\ hidden' = IF link[r] = None THEN hidden
                 ELSE IF out THEN hidden \union {link[r]} ELSE hidden \ {link[r]}
    /\ UNCHANGED <<made, link, published, venueVars, claimVars, request>>

(***************************************************************************)
(* The specification.                                                      *)
(***************************************************************************)

ApproveStep(q) ==
    ApproveLocksRecord(q) \/ ApproveRefuses(q) \/ ApproveChecks(q) \/ ApproveCommits(q)

ClaimStep(q, c) == VerifyLoads(q, c) \/ RejectLoads(q, c) \/ ApproveLoads(q, c)

Next ==
    \/ \E c \in Claims :
          \/ \E v \in Venues : CreateForVenue(c, v)
          \/ \E r \in Records : CreateForRecord(c, r)
    \/ \E q \in Requests :
          \/ VerifySaves(q) \/ RejectSaves(q) \/ ConfirmSaves(q) \/ PublishLinks(q)
          \/ ApproveStep(q)
          \/ \E c \in Claims : ClaimStep(q, c)
          \/ \E v \in Venues : ConfirmLoads(q, v)
          \/ \E r \in Records : PublishAdds(q, r)
    \/ \E r \in Records, out \in BOOLEAN : Decide(r, out)

Spec == Init /\ [][Next]_vars

(***************************************************************************)
(* Properties.                                                             *)
(***************************************************************************)

\* What a request may be doing.
RequestStates ==
    {Idle} \union {AtVerify(c) : c \in Claims}
           \union {AtReject(c, v) : c \in Claims, v \in Venues \union {None}}
           \union {AtRecord(c, v) : c \in Claims, v \in Venues \union {None}}
           \union {AtVenue(c, v) : c \in Claims, v \in Venues \union {None}}
           \union {AtCommit(c, v) : c \in Claims, v \in Venues \union {None}}
           \union {AtLink(r) : r \in Records} \union {AtConfirm(v) : v \in Venues}

\* Every field has a value the code can write, and a venue has a tier exactly
\* from its creation on.
TypeOK ==
    /\ made \in 0..MaxVenues
    /\ link \in [Records -> 1..made \union {None}]
    /\ published \in [Records -> 1..made \union {None}]
    /\ excluded \subseteq Records
    /\ hidden \subseteq 1..made
    /\ tier \in [Venues -> Tiers]
    /\ \A v \in Venues : tier[v] = "none" <=> v > made
    /\ owner \in [Venues -> Claims \union {None}]
    /\ status \in [Claims -> Statuses]
    /\ venue \in [Claims -> 1..made \union {None}]
    /\ indexed \in [Claims -> Records \union {None}]
    /\ request \in [Requests -> RequestStates]

\* "so two approvals for it cannot race": no two approved claims are for the
\* same venue or for the same index record, however the approvals overlap.
OneEditorPerJournal ==
    \A c, d \in Claims :
        /\ status[c] = "approved" /\ status[d] = "approved"
        /\ venue[c] = venue[d] \/ SameRecord(c, d)
        => c = d

\* "Approval gives the editor ownership of the journal": an editor whose claim
\* stands approved owns its venue, whatever is approved, rejected or published
\* afterwards.
ApprovedClaimOwns ==
    \A c \in Claims : status[c] = "approved" => venue[c] # None /\ owner[venue[c]] = c

\* "never take a journal from its editor": a journal its editor has confirmed
\* does not change hands, even when the editor's claim was overwritten since.
ConfirmedKeepsEditor ==
    [][\A v \in Venues : tier[v] = "claimed" => owner'[v] = owner[v]]_vars

\* "a live venue follows the index decision, so authors never see it": the venue
\* of an excluded record is excluded too.
ExcludedStaysHidden ==
    \A r \in Records : r \in excluded /\ link[r] # None => link[r] \in hidden
=============================================================================
