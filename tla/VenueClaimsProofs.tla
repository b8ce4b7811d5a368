-------------------------- MODULE VenueClaimsProofs --------------------------
(***************************************************************************)
(* Proofs about VenueClaims, for any claims, records, venues and requests: *)
(* overlapping approvals never give one journal two editors.  The argument *)
(* is that of the locks: an approval holds its claim from its first step,  *)
(* the record from its second and the venue from its check, so what it     *)
(* checked is still so when it commits.                                    *)
(***************************************************************************)
EXTENDS VenueClaims, TLAPS

\* What each approval in progress holds.
HoldsClaim(q) == request[q].at \in {"record", "venue", "commit"}
HoldsRecord(q) == request[q].at \in {"venue", "commit"}
HoldsVenue(q) == request[q].at = "commit"

\* A claim being approved waits for review, and no other request approves it.
ClaimHeld ==
    \A q \in Requests : HoldsClaim(q) =>
        /\ status[request[q].claim] = "pending_review"
        /\ \A p \in Requests : HoldsClaim(p) /\ request[p].claim = request[q].claim => p = q

\* No two approvals hold the same record, or the same venue.
RecordHeld ==
    \A p, q \in Requests :
        /\ HoldsRecord(p) /\ HoldsRecord(q)
        /\ SameRecord(request[p].claim, request[q].claim)
        => p = q

VenueHeld ==
    \A p, q \in Requests :
        /\ HoldsVenue(p) /\ HoldsVenue(q)
        /\ request[p].venue = request[q].venue /\ request[p].venue # None
        => p = q

\* What was checked under the locks still holds when the approval commits.
StillFree ==
    \A q \in Requests : HoldsVenue(q) => ~AlreadyManaged(request[q].claim, request[q].venue)

\* Owners and requests only know venues that were created.
VenueStages == {"reject", "record", "venue", "commit", "confirm"}
KnownVenues ==
    /\ \A v \in Venues : owner[v] # None => v \in 1..made
    /\ \A q \in Requests : request[q].at \in VenueStages =>
                             request[q].venue \in 1..made \union {None}

IInv ==
    /\ TypeOK /\ KnownVenues
    /\ ClaimHeld /\ RecordHeld /\ VenueHeld /\ StillFree
    /\ OneEditorPerJournal /\ ApprovedClaimOwns

\* What a well-typed request has in its fields, by its place in the handler.
LEMMA RequestShape ==
  ASSUME TypeOK, NEW q \in Requests
  PROVE  /\ request[q].at \in {"verify", "reject", "record", "venue", "commit"}
               => request[q].claim \in Claims
         /\ request[q].at \in VenueStages => request[q].venue \in Venues \union {None}
         /\ request[q].at = "confirm" => request[q].venue \in Venues
         /\ request[q].at = "link" => request[q].record \in Records
  BY DEF TypeOK, RequestStates, VenueStages, Idle, AtVerify, AtReject, AtRecord, AtVenue,
         AtCommit, AtLink, AtConfirm

\* The states of a request are the ones its handler goes through.
LEMMA StatesOf ==
  /\ Idle \in RequestStates
  /\ \A c \in Claims : AtVerify(c) \in RequestStates
  /\ \A c \in Claims, v \in Venues \union {None} :
        /\ AtReject(c, v) \in RequestStates /\ AtRecord(c, v) \in RequestStates
        /\ AtVenue(c, v) \in RequestStates /\ AtCommit(c, v) \in RequestStates
  /\ \A r \in Records : AtLink(r) \in RequestStates
  /\ \A v \in Venues : AtConfirm(v) \in RequestStates
  BY DEF RequestStates

\* Moving on changes one request, to a known state.
LEMMA GotoFacts ==
  ASSUME request \in [Requests -> RequestStates], NEW q \in Requests,
         NEW where \in RequestStates, Goto(q, where)
  PROVE  /\ request' \in [Requests -> RequestStates]
         /\ request'[q] = where
         /\ \A p \in Requests \ {q} : request'[p] = request[p]
  BY DEF Goto

\* The type invariant without the requests.
DataOK ==
    /\ made \in 0..MaxVenues
    /\ link \in [Records -> 1..made \union {None}]
    /\ published \in [Records -> 1..made \union {None}]
    /\ excluded \subseteq Records
    /\ hidden \subseteq 1..made
    /\ tier \in [Venues -> Tiers]
    /\ \A v \in Venues : tier[v] = "none" <=> v > made
    /\ owner \in [Venues -> Claims \union {None}]
    /\ status \in [Claims -> Statuses]
    /\ venue \in [Claims -> 1..made \union {None}]
    /\ indexed \in [Claims -> Records \union {None}]

\* The type invariant is that of the rows and that of the requests.
LEMMA TypeParts == TypeOK <=> DataOK /\ request \in [Requests -> RequestStates]
  BY DEF TypeOK, DataOK

\* The claims start with no request in progress.
LEMMA InitIInv == Init => IInv
  BY ClaimsAssumption
     DEF Init, IInv, TypeOK, KnownVenues, ClaimHeld, RecordHeld, VenueHeld, StillFree,
         OneEditorPerJournal, ApprovedClaimOwns, Venues, Tiers, Statuses, Open, RequestStates,
         HoldsClaim, HoldsRecord, HoldsVenue, VenueStages, Idle

\* Venues are numbered in the order of their creation.
LEMMA MadeVenues ==
  ASSUME DataOK
  PROVE  /\ made \in Nat /\ 1..made \subseteq Venues
         /\ made < MaxVenues => made + 1 \in Venues /\ 1..(made + 1) = 1..made \union {made + 1}
         /\ \A c \in Claims : LoadedVenue(c) \in 1..made \union {None}
  BY ClaimsAssumption DEF DataOK, Venues, LoadedVenue

\* A step that moves one request on keeps what requests know, if it keeps the venues.
LEMMA KnownKept ==
  ASSUME IInv, NEW q \in Requests,
         \A p \in Requests \ {q} : request'[p] = request[p],
         made' \in Nat, made <= made',
         request'[q].at \in VenueStages => request'[q].venue \in 1..made' \union {None},
         \A v \in Venues : owner'[v] = owner[v] \/ v \in 1..made'
  PROVE  KnownVenues'
  <1>1. 1..made \subseteq 1..made'
    BY MadeVenues, TypeParts DEF IInv
  <1> QED  BY <1>1 DEF IInv, KnownVenues

\* The rows after a new venue for a record is listed.
LEMMA ListsKept ==
  ASSUME DataOK, NEW c \in Claims, Lists(c), NEW t \in Tiers \ {"none"},
         tier' = [tier EXCEPT ![made + 1] = t]
  PROVE  /\ made' = made + 1 /\ made + 1 \in Venues /\ made' \in 0..MaxVenues
         /\ 1..made' = 1..made \union {made + 1}
         /\ link' \in [Records -> 1..made' \union {None}]
         /\ tier' \in [Venues -> Tiers]
         /\ \A v \in Venues : tier'[v] = "none" <=> v > made'
  <1>1. made' = made + 1 /\ made + 1 \in Venues /\ made' \in 0..MaxVenues
    BY MadeVenues, ClaimsAssumption DEF Lists, Venues, DataOK
  <1>2. 1..made' = 1..made \union {made + 1}
    BY MadeVenues, <1>1 DEF Lists
  <1>3. link' \in [Records -> 1..made' \union {None}]
    BY <1>1, <1>2 DEF Lists, DataOK
  <1>4. tier' \in [Venues -> Tiers]
    BY <1>1 DEF DataOK
  <1>5. \A v \in Venues : tier'[v] = "none" <=> v > made'
    BY <1>1, ClaimsAssumption DEF DataOK, Venues
  <1> QED  BY <1>1, <1>2, <1>3, <1>4, <1>5

\* Every step leaves each request in a known state.
LEMMA RequestStep ==
  ASSUME IInv, [Next]_vars
  PROVE  request' \in [Requests -> RequestStates]
  <1>1. ASSUME NEW c \in Claims, NEW v \in Venues, CreateForVenue(c, v)
        PROVE  request' \in [Requests -> RequestStates]
    BY <1>1, RequestShape, StatesOf, GotoFacts, MadeVenues, TypeParts, ClaimsAssumption
       DEF CreateForVenue, indexVars, venueVars, IInv, TypeOK, KnownVenues, VenueStages,
           DataOK
  <1>2. ASSUME NEW c \in Claims, NEW r \in Records, CreateForRecord(c, r)
        PROVE  request' \in [Requests -> RequestStates]
    BY <1>2, RequestShape, StatesOf, GotoFacts, MadeVenues, TypeParts, ClaimsAssumption
       DEF CreateForRecord, indexVars, venueVars, IInv, TypeOK, KnownVenues, VenueStages,
           DataOK
  <1>3. ASSUME NEW q \in Requests, NEW c \in Claims, VerifyLoads(q, c)
        PROVE  request' \in [Requests -> RequestStates]
    BY <1>3, RequestShape, StatesOf, GotoFacts, MadeVenues, TypeParts, ClaimsAssumption
       DEF VerifyLoads, indexVars, venueVars, claimVars, IInv, TypeOK, KnownVenues,
           VenueStages, DataOK, Free
  <1>4. ASSUME NEW q \in Requests, VerifySaves(q)
        PROVE  request' \in [Requests -> RequestStates]
    BY <1>4, RequestShape, StatesOf, GotoFacts, MadeVenues, TypeParts, ClaimsAssumption
       DEF VerifySaves, indexVars, venueVars, IInv, TypeOK, KnownVenues, VenueStages, DataOK
  <1>5. ASSUME NEW q \in Requests, NEW c \in Claims, RejectLoads(q, c)
        PROVE  request' \in [Requests -> RequestStates]
    BY <1>5, RequestShape, StatesOf, GotoFacts, MadeVenues, TypeParts, ClaimsAssumption
       DEF RejectLoads, indexVars, venueVars, claimVars, IInv, TypeOK, KnownVenues,
           VenueStages, DataOK, Free
  <1>6. ASSUME NEW q \in Requests, RejectSaves(q)
        PROVE  request' \in [Requests -> RequestStates]
    BY <1>6, RequestShape, StatesOf, GotoFacts, MadeVenues, TypeParts, ClaimsAssumption
       DEF RejectSaves, indexVars, venueVars, IInv, TypeOK, KnownVenues, VenueStages, DataOK
  <1>7. ASSUME NEW q \in Requests, NEW c \in Claims, ApproveLoads(q, c)
        PROVE  request' \in [Requests -> RequestStates]
    BY <1>7, RequestShape, StatesOf, GotoFacts, MadeVenues, TypeParts, ClaimsAssumption
       DEF ApproveLoads, indexVars, venueVars, claimVars, IInv, TypeOK, KnownVenues,
           VenueStages, DataOK, Free
  <1>8. ASSUME NEW q \in Requests, ApproveLocksRecord(q)
        PROVE  request' \in [Requests -> RequestStates]
    BY <1>8, RequestShape, StatesOf, GotoFacts, MadeVenues, TypeParts, ClaimsAssumption
       DEF ApproveLocksRecord, indexVars, venueVars, claimVars, IInv, TypeOK, KnownVenues,
           VenueStages, DataOK
  <1>9. ASSUME NEW q \in Requests, ApproveRefuses(q)
        PROVE  request' \in [Requests -> RequestStates]
    BY <1>9, RequestShape, StatesOf, GotoFacts, MadeVenues, TypeParts, ClaimsAssumption
       DEF ApproveRefuses, claimVars, IInv, TypeOK, KnownVenues, VenueStages, DataOK
  <1>10. ASSUME NEW q \in Requests, ApproveChecks(q)
        PROVE  request' \in [Requests -> RequestStates]
    BY <1>10, RequestShape, StatesOf, GotoFacts, MadeVenues, TypeParts, ClaimsAssumption
       DEF ApproveChecks, indexVars, venueVars, claimVars, IInv, TypeOK, KnownVenues,
           VenueStages, DataOK
  <1>11. ASSUME NEW q \in Requests, ApproveCommits(q)
        PROVE  request' \in [Requests -> RequestStates]
    BY <1>11, RequestShape, StatesOf, GotoFacts, MadeVenues, TypeParts, ClaimsAssumption
       DEF ApproveCommits, IInv, TypeOK, KnownVenues, VenueStages, DataOK
  <1>12. ASSUME NEW q \in Requests, NEW v \in Venues, ConfirmLoads(q, v)
        PROVE  request' \in [Requests -> RequestStates]
    BY <1>12, RequestShape, StatesOf, GotoFacts, MadeVenues, TypeParts, ClaimsAssumption
       DEF ConfirmLoads, indexVars, venueVars, claimVars, IInv, TypeOK, KnownVenues,
           VenueStages, DataOK, Free
  <1>13. ASSUME NEW q \in Requests, ConfirmSaves(q)
        PROVE  request' \in [Requests -> RequestStates]
    BY <1>13, RequestShape, StatesOf, GotoFacts, MadeVenues, TypeParts, ClaimsAssumption
       DEF ConfirmSaves, indexVars, claimVars, IInv, TypeOK, KnownVenues, VenueStages,
           DataOK
  <1>14. ASSUME NEW q \in Requests, NEW r \in Records, PublishAdds(q, r)
        PROVE  request' \in [Requests -> RequestStates]
    BY <1>14, RequestShape, StatesOf, GotoFacts, MadeVenues, TypeParts, ClaimsAssumption
       DEF PublishAdds, claimVars, IInv, TypeOK, KnownVenues, VenueStages, DataOK, Free
  <1>15. ASSUME NEW q \in Requests, PublishLinks(q)
        PROVE  request' \in [Requests -> RequestStates]
    BY <1>15, RequestShape, StatesOf, GotoFacts, MadeVenues, TypeParts, ClaimsAssumption
       DEF PublishLinks, venueVars, claimVars, IInv, TypeOK, KnownVenues, VenueStages,
           DataOK
  <1>16. ASSUME NEW r \in Records, NEW out \in BOOLEAN, Decide(r, out)
        PROVE  request' \in [Requests -> RequestStates]
    BY <1>16, RequestShape, StatesOf, GotoFacts, MadeVenues, TypeParts, ClaimsAssumption
       DEF Decide, venueVars, claimVars, IInv, TypeOK, KnownVenues, VenueStages, DataOK
  <1>17. CASE UNCHANGED vars
    BY <1>17 DEF IInv, TypeOK, vars
  <1> QED
    BY <1>1, <1>2, <1>3, <1>4, <1>5, <1>6, <1>7, <1>8, <1>9, <1>10, <1>11, <1>12, <1>13,
       <1>14, <1>15, <1>16, <1>17 DEF Next, ClaimStep, ApproveStep

\* Every step keeps the types of the rows.
LEMMA DataStep ==
  ASSUME IInv, [Next]_vars
  PROVE  DataOK'
  <1>1. ASSUME NEW c \in Claims, NEW v \in Venues, CreateForVenue(c, v)
        PROVE  DataOK'
    BY <1>1, RequestShape, MadeVenues, TypeParts, ClaimsAssumption
       DEF CreateForVenue, IInv, DataOK, KnownVenues, VenueStages, Venues, Statuses, Open,
           Tiers, indexVars, venueVars
  <1>2. ASSUME NEW c \in Claims, NEW r \in Records, CreateForRecord(c, r)
        PROVE  DataOK'
    BY <1>2, RequestShape, MadeVenues, TypeParts, ClaimsAssumption
       DEF CreateForRecord, IInv, DataOK, KnownVenues, VenueStages, Venues, Statuses, Open,
           Tiers, indexVars, venueVars
  <1>3. ASSUME NEW q \in Requests, NEW c \in Claims, VerifyLoads(q, c)
        PROVE  DataOK'
    BY <1>3, RequestShape, MadeVenues, TypeParts, ClaimsAssumption
       DEF VerifyLoads, IInv, DataOK, KnownVenues, VenueStages, Venues, Statuses, Open,
           Tiers, indexVars, venueVars, claimVars
  <1>4. ASSUME NEW q \in Requests, VerifySaves(q)
        PROVE  DataOK'
    BY <1>4, RequestShape, MadeVenues, TypeParts, ClaimsAssumption
       DEF VerifySaves, IInv, DataOK, KnownVenues, VenueStages, Venues, Statuses, Open,
           Tiers, indexVars, venueVars
  <1>5. ASSUME NEW q \in Requests, NEW c \in Claims, RejectLoads(q, c)
        PROVE  DataOK'
    BY <1>5, RequestShape, MadeVenues, TypeParts, ClaimsAssumption
       DEF RejectLoads, IInv, DataOK, KnownVenues, VenueStages, Venues, Statuses, Open,
           Tiers, indexVars, venueVars, claimVars
  <1>6. ASSUME NEW q \in Requests, RejectSaves(q)
        PROVE  DataOK'
    BY <1>6, RequestShape, MadeVenues, TypeParts, ClaimsAssumption
       DEF RejectSaves, IInv, DataOK, KnownVenues, VenueStages, Venues, Statuses, Open,
           Tiers, indexVars, venueVars
  <1>7. ASSUME NEW q \in Requests, NEW c \in Claims, ApproveLoads(q, c)
        PROVE  DataOK'
    BY <1>7, RequestShape, MadeVenues, TypeParts, ClaimsAssumption
       DEF ApproveLoads, IInv, DataOK, KnownVenues, VenueStages, Venues, Statuses, Open,
           Tiers, indexVars, venueVars, claimVars
  <1>8. ASSUME NEW q \in Requests, ApproveLocksRecord(q)
        PROVE  DataOK'
    BY <1>8, RequestShape, MadeVenues, TypeParts, ClaimsAssumption
       DEF ApproveLocksRecord, IInv, DataOK, KnownVenues, VenueStages, Venues, Statuses,
           Open, Tiers, indexVars, venueVars, claimVars
  <1>9. ASSUME NEW q \in Requests, ApproveRefuses(q)
        PROVE  DataOK'
    <2> DEFINE c == request[q].claim
               v == request[q].venue
    <2>1. c \in Claims /\ v \in 1..made \union {None} /\ DataOK /\ 1..made \subseteq Venues
      BY <1>9, RequestShape, MadeVenues, TypeParts DEF ApproveRefuses, IInv, KnownVenues,
             VenueStages
    <2>2. CASE v = None
      <3>1. Lists(c) /\ tier' = [tier EXCEPT ![made + 1] = "listed"] /\ "listed" \in Tiers \ {"none"}
        BY <1>9, <2>2 DEF ApproveRefuses, Tiers
      <3>2. UNCHANGED <<published, excluded, hidden, owner, claimVars>>
        BY <1>9 DEF ApproveRefuses
      <3> HIDE DEF c, v
      <3> QED  BY <1>9, <2>1, <2>2, <3>1, <3>2, ListsKept DEF ApproveRefuses, DataOK,
                      Statuses, claimVars
    <2>3. CASE v # None
      BY <1>9, <2>1, <2>3 DEF ApproveRefuses, DataOK, Statuses, Venues, claimVars
    <2> QED  BY <2>2, <2>3
  <1>10. ASSUME NEW q \in Requests, ApproveChecks(q)
        PROVE  DataOK'
    BY <1>10, RequestShape, MadeVenues, TypeParts, ClaimsAssumption
       DEF ApproveChecks, IInv, DataOK, KnownVenues, VenueStages, Venues, Statuses, Open,
           Tiers, indexVars, venueVars, claimVars
  <1>11. ASSUME NEW q \in Requests, ApproveCommits(q)
        PROVE  DataOK'
    <2> DEFINE c == request[q].claim
               v == request[q].venue
    <2>1. c \in Claims /\ v \in 1..made \union {None} /\ DataOK /\ 1..made \subseteq Venues
      BY <1>11, RequestShape, MadeVenues, TypeParts DEF ApproveCommits, IInv, KnownVenues,
             VenueStages
    <2>2. CASE v = None
      <3>1. Lists(c) /\ tier' = [tier EXCEPT ![made + 1] = "listed"] /\ "listed" \in Tiers \ {"none"}
        BY <1>11, <2>2 DEF ApproveCommits, Tiers
      <3>2. Granted(c, made + 1) /\ UNCHANGED <<published, excluded, hidden, indexed>>
        BY <1>11, <2>2 DEF ApproveCommits
      <3> HIDE DEF c, v
      <3>3. /\ made' = made + 1 /\ made + 1 \in Venues /\ made' \in 0..MaxVenues
            /\ 1..made' = 1..made \union {made + 1}
            /\ link' \in [Records -> 1..made' \union {None}]
            /\ tier' \in [Venues -> Tiers]
            /\ \A u \in Venues : tier'[u] = "none" <=> u > made'
        BY <2>1, <3>1, ListsKept
      <3>4. /\ owner' \in [Venues -> Claims \union {None}]
            /\ status' \in [Claims -> Statuses]
            /\ venue' \in [Claims -> 1..made' \union {None}]
        BY <2>1, <3>2, <3>3 DEF DataOK, Granted, Statuses
      <3>5. /\ published' \in [Records -> 1..made' \union {None}]
            /\ hidden' \subseteq 1..made' /\ excluded' \subseteq Records
            /\ indexed' \in [Claims -> Records \union {None}]
        BY <2>1, <3>2, <3>3 DEF DataOK
      <3> QED  BY <3>3, <3>4, <3>5 DEF DataOK
    <2>3. CASE v # None
      BY <1>11, <2>1, <2>3 DEF ApproveCommits, DataOK, Granted, Statuses, Venues
    <2> QED  BY <2>2, <2>3
  <1>12. ASSUME NEW q \in Requests, NEW v \in Venues, ConfirmLoads(q, v)
        PROVE  DataOK'
    BY <1>12, RequestShape, MadeVenues, TypeParts, ClaimsAssumption
       DEF ConfirmLoads, IInv, DataOK, KnownVenues, VenueStages, Venues, Statuses, Open,
           Tiers, indexVars, venueVars, claimVars
  <1>13. ASSUME NEW q \in Requests, ConfirmSaves(q)
        PROVE  DataOK'
    BY <1>13, RequestShape, MadeVenues, TypeParts, ClaimsAssumption
       DEF ConfirmSaves, IInv, DataOK, KnownVenues, VenueStages, Venues, Statuses, Open,
           Tiers, indexVars, claimVars
  <1>14. ASSUME NEW q \in Requests, NEW r \in Records, PublishAdds(q, r)
        PROVE  DataOK'
    <2>1. DataOK
      BY TypeParts DEF IInv
    <2>2. CASE published[r] = None
      <3>1. made' = made + 1 /\ made + 1 \in Venues /\ made' \in 0..MaxVenues
            /\ 1..made' = 1..made \union {made + 1}
        BY <1>14, <2>1, <2>2, MadeVenues, ClaimsAssumption DEF PublishAdds, Venues, DataOK
      <3>2. published' \in [Records -> 1..made' \union {None}]
        BY <1>14, <2>1, <2>2, <3>1 DEF PublishAdds, DataOK
      <3>3. tier' \in [Venues -> Tiers] /\ \A v \in Venues : tier'[v] = "none" <=> v > made'
        BY <1>14, <2>1, <2>2, <3>1, ClaimsAssumption DEF PublishAdds, DataOK, Tiers, Venues
      <3> QED  BY <1>14, <2>1, <2>2, <3>1, <3>2, <3>3 DEF PublishAdds, DataOK, claimVars
    <2>3. CASE published[r] # None
      BY <1>14, <2>1, <2>3 DEF PublishAdds, DataOK, claimVars
    <2> QED  BY <2>2, <2>3
  <1>15. ASSUME NEW q \in Requests, PublishLinks(q)
        PROVE  DataOK'
    BY <1>15, RequestShape, MadeVenues, TypeParts, ClaimsAssumption
       DEF PublishLinks, IInv, DataOK, KnownVenues, VenueStages, Venues, Statuses, Open,
           Tiers, venueVars, claimVars
  <1>16. ASSUME NEW r \in Records, NEW out \in BOOLEAN, Decide(r, out)
        PROVE  DataOK'
    BY <1>16, RequestShape, MadeVenues, TypeParts, ClaimsAssumption
       DEF Decide, IInv, DataOK, KnownVenues, VenueStages, Venues, Statuses, Open, Tiers,
           venueVars, claimVars
  <1>17. CASE UNCHANGED vars
    BY <1>17 DEF IInv, TypeOK, DataOK, vars, indexVars, venueVars, claimVars
  <1> QED
    BY <1>1, <1>2, <1>3, <1>4, <1>5, <1>6, <1>7, <1>8, <1>9, <1>10, <1>11, <1>12, <1>13,
       <1>14, <1>15, <1>16, <1>17 DEF Next, ClaimStep, ApproveStep

\* Owners and requests only learn of venues that exist.
LEMMA KnownStep ==
  ASSUME IInv, [Next]_vars
  PROVE  KnownVenues'
  <1>1. ASSUME NEW c \in Claims, NEW v \in Venues, CreateForVenue(c, v)
        PROVE  KnownVenues'
    BY <1>1, RequestShape, KnownKept, MadeVenues, TypeParts DEF CreateForVenue, IInv,
           KnownVenues, VenueStages, DataOK, indexVars, venueVars
  <1>2. ASSUME NEW c \in Claims, NEW r \in Records, CreateForRecord(c, r)
        PROVE  KnownVenues'
    BY <1>2, RequestShape, KnownKept, MadeVenues, TypeParts DEF CreateForRecord, IInv,
           KnownVenues, VenueStages, DataOK, indexVars, venueVars
  <1>3. ASSUME NEW q \in Requests, NEW c \in Claims, VerifyLoads(q, c)
        PROVE  KnownVenues'
    BY <1>3, RequestShape, KnownKept, MadeVenues, TypeParts DEF VerifyLoads, IInv,
           KnownVenues, VenueStages, DataOK, Goto, AtVerify, indexVars, venueVars, claimVars
  <1>4. ASSUME NEW q \in Requests, VerifySaves(q)
        PROVE  KnownVenues'
    BY <1>4, RequestShape, KnownKept, MadeVenues, TypeParts DEF VerifySaves, IInv,
           KnownVenues, VenueStages, DataOK, Goto, Idle, indexVars, venueVars
  <1>5. ASSUME NEW q \in Requests, NEW c \in Claims, RejectLoads(q, c)
        PROVE  KnownVenues'
    BY <1>5, RequestShape, KnownKept, MadeVenues, TypeParts DEF RejectLoads, IInv,
           KnownVenues, VenueStages, DataOK, Goto, AtReject, indexVars, venueVars, claimVars
  <1>6. ASSUME NEW q \in Requests, RejectSaves(q)
        PROVE  KnownVenues'
    BY <1>6, RequestShape, KnownKept, MadeVenues, TypeParts DEF RejectSaves, IInv,
           KnownVenues, VenueStages, DataOK, Goto, Idle, indexVars, venueVars
  <1>7. ASSUME NEW q \in Requests, NEW c \in Claims, ApproveLoads(q, c)
        PROVE  KnownVenues'
    BY <1>7, RequestShape, KnownKept, MadeVenues, TypeParts DEF ApproveLoads, IInv,
           KnownVenues, VenueStages, DataOK, Goto, AtRecord, indexVars, venueVars, claimVars
  <1>8. ASSUME NEW q \in Requests, ApproveLocksRecord(q)
        PROVE  KnownVenues'
    BY <1>8, RequestShape, KnownKept, MadeVenues, TypeParts DEF ApproveLocksRecord, IInv,
           KnownVenues, VenueStages, DataOK, Goto, AtVenue, indexVars, venueVars, claimVars
  <1>9. ASSUME NEW q \in Requests, ApproveRefuses(q)
        PROVE  KnownVenues'
    BY <1>9, RequestShape, KnownKept, MadeVenues, TypeParts DEF ApproveRefuses, IInv,
           KnownVenues, VenueStages, DataOK, Lists, Goto, Idle, claimVars
  <1>10. ASSUME NEW q \in Requests, ApproveChecks(q)
        PROVE  KnownVenues'
    BY <1>10, RequestShape, KnownKept, MadeVenues, TypeParts DEF ApproveChecks, IInv,
           KnownVenues, VenueStages, DataOK, Goto, AtCommit, indexVars, venueVars, claimVars
  <1>11. ASSUME NEW q \in Requests, ApproveCommits(q)
        PROVE  KnownVenues'
    BY <1>11, RequestShape, KnownKept, MadeVenues, TypeParts DEF ApproveCommits, IInv,
           KnownVenues, VenueStages, DataOK, Lists, Granted, Goto, Idle
  <1>12. ASSUME NEW q \in Requests, NEW v \in Venues, ConfirmLoads(q, v)
        PROVE  KnownVenues'
    BY <1>12, RequestShape, KnownKept, MadeVenues, TypeParts DEF ConfirmLoads, IInv,
           KnownVenues, VenueStages, DataOK, Goto, AtConfirm, indexVars, venueVars,
           claimVars
  <1>13. ASSUME NEW q \in Requests, ConfirmSaves(q)
        PROVE  KnownVenues'
    BY <1>13, RequestShape, KnownKept, MadeVenues, TypeParts DEF ConfirmSaves, IInv,
           KnownVenues, VenueStages, DataOK, Goto, Idle, indexVars, claimVars
  <1>14. ASSUME NEW q \in Requests, NEW r \in Records, PublishAdds(q, r)
        PROVE  KnownVenues'
    BY <1>14, RequestShape, KnownKept, MadeVenues, TypeParts DEF PublishAdds, IInv,
           KnownVenues, VenueStages, DataOK, Goto, AtLink, claimVars
  <1>15. ASSUME NEW q \in Requests, PublishLinks(q)
        PROVE  KnownVenues'
    BY <1>15, RequestShape, KnownKept, MadeVenues, TypeParts DEF PublishLinks, IInv,
           KnownVenues, VenueStages, DataOK, Goto, Idle, venueVars, claimVars
  <1>16. ASSUME NEW r \in Records, NEW out \in BOOLEAN, Decide(r, out)
        PROVE  KnownVenues'
    BY <1>16, RequestShape, KnownKept, MadeVenues, TypeParts DEF Decide, IInv, KnownVenues,
           VenueStages, DataOK, venueVars, claimVars
  <1>17. CASE UNCHANGED vars
    BY <1>17 DEF IInv, KnownVenues, vars, indexVars, venueVars
  <1> QED
    BY <1>1, <1>2, <1>3, <1>4, <1>5, <1>6, <1>7, <1>8, <1>9, <1>10, <1>11, <1>12, <1>13,
       <1>14, <1>15, <1>16, <1>17 DEF Next, ClaimStep, ApproveStep

\* A claim being approved stays as it is until the approval ends.
LEMMA ClaimHeldStep ==
  ASSUME IInv, [Next]_vars
  PROVE  ClaimHeld'
  <1>1. ASSUME NEW c \in Claims, NEW v \in Venues, CreateForVenue(c, v)
        PROVE  ClaimHeld'
    BY <1>1, RequestShape DEF CreateForVenue, IInv, TypeOK, indexVars, venueVars,
           HoldsClaim, ClaimHeld
  <1>2. ASSUME NEW c \in Claims, NEW r \in Records, CreateForRecord(c, r)
        PROVE  ClaimHeld'
    BY <1>2, RequestShape DEF CreateForRecord, IInv, TypeOK, indexVars, venueVars,
           HoldsClaim, ClaimHeld
  <1>3. ASSUME NEW q \in Requests, NEW c \in Claims, VerifyLoads(q, c)
        PROVE  ClaimHeld'
    BY <1>3, RequestShape DEF VerifyLoads, IInv, TypeOK, Goto, Free, Idle, AtVerify,
           indexVars, venueVars, claimVars, HoldsClaim, ClaimHeld
  <1>4. ASSUME NEW q \in Requests, VerifySaves(q)
        PROVE  ClaimHeld'
    BY <1>4, RequestShape DEF VerifySaves, IInv, TypeOK, Goto, Idle, indexVars, venueVars,
           ClaimUnlocked, HoldsClaim, ClaimHeld
  <1>5. ASSUME NEW q \in Requests, NEW c \in Claims, RejectLoads(q, c)
        PROVE  ClaimHeld'
    BY <1>5, RequestShape DEF RejectLoads, IInv, TypeOK, Goto, Free, Idle, AtReject,
           indexVars, venueVars, claimVars, HoldsClaim, Open, ClaimHeld
  <1>6. ASSUME NEW q \in Requests, RejectSaves(q)
        PROVE  ClaimHeld'
    BY <1>6, RequestShape DEF RejectSaves, IInv, TypeOK, Goto, Idle, indexVars, venueVars,
           ClaimUnlocked, HoldsClaim, ClaimHeld
  <1>7. ASSUME NEW q \in Requests, NEW c \in Claims, ApproveLoads(q, c)
        PROVE  ClaimHeld'
    BY <1>7, RequestShape DEF ApproveLoads, IInv, TypeOK, Goto, Free, Idle, AtRecord,
           indexVars, venueVars, claimVars, ClaimUnlocked, HoldsClaim, ClaimHeld
  <1>8. ASSUME NEW q \in Requests, ApproveLocksRecord(q)
        PROVE  ClaimHeld'
    BY <1>8, RequestShape DEF ApproveLocksRecord, IInv, TypeOK, Goto, AtVenue, indexVars,
           venueVars, claimVars, RecordUnlocked, HoldsClaim, ClaimHeld
  <1>9. ASSUME NEW q \in Requests, ApproveRefuses(q)
        PROVE  ClaimHeld'
    BY <1>9, RequestShape DEF ApproveRefuses, IInv, TypeOK, Goto, Idle, claimVars,
           VenueUnlocked, HoldsClaim, ClaimHeld
  <1>10. ASSUME NEW q \in Requests, ApproveChecks(q)
        PROVE  ClaimHeld'
    BY <1>10, RequestShape DEF ApproveChecks, IInv, TypeOK, Goto, AtCommit, indexVars,
           venueVars, claimVars, VenueUnlocked, HoldsClaim, ClaimHeld
  <1>11. ASSUME NEW q \in Requests, ApproveCommits(q)
        PROVE  ClaimHeld'
    BY <1>11, RequestShape DEF ApproveCommits, IInv, TypeOK, Goto, Idle, HoldsClaim,
           Granted, ClaimHeld
  <1>12. ASSUME NEW q \in Requests, NEW v \in Venues, ConfirmLoads(q, v)
        PROVE  ClaimHeld'
    BY <1>12, RequestShape DEF ConfirmLoads, IInv, TypeOK, Goto, Free, Idle, AtConfirm,
           indexVars, venueVars, claimVars, HoldsClaim, ClaimHeld
  <1>13. ASSUME NEW q \in Requests, ConfirmSaves(q)
        PROVE  ClaimHeld'
    BY <1>13, RequestShape DEF ConfirmSaves, IInv, TypeOK, Goto, Idle, indexVars,
           claimVars, VenueUnlocked, HoldsClaim, ClaimHeld
  <1>14. ASSUME NEW q \in Requests, NEW r \in Records, PublishAdds(q, r)
        PROVE  ClaimHeld'
    BY <1>14, RequestShape DEF PublishAdds, IInv, TypeOK, Goto, Free, Idle, AtLink,
           claimVars, HoldsClaim, ClaimHeld
  <1>15. ASSUME NEW q \in Requests, PublishLinks(q)
        PROVE  ClaimHeld'
    BY <1>15, RequestShape DEF PublishLinks, IInv, TypeOK, Goto, Idle, venueVars,
           claimVars, RecordUnlocked, HoldsClaim, ClaimHeld
  <1>16. ASSUME NEW r \in Records, NEW out \in BOOLEAN, Decide(r, out)
        PROVE  ClaimHeld'
    BY <1>16, RequestShape DEF Decide, IInv, TypeOK, venueVars, claimVars, RecordUnlocked,
           VenueUnlocked, HoldsClaim, ClaimHeld
  <1>17. CASE UNCHANGED vars
    BY <1>17 DEF IInv, ClaimHeld, HoldsClaim, vars, claimVars
  <1> QED
    BY <1>1, <1>2, <1>3, <1>4, <1>5, <1>6, <1>7, <1>8, <1>9, <1>10, <1>11, <1>12, <1>13,
       <1>14, <1>15, <1>16, <1>17 DEF Next, ClaimStep, ApproveStep

\* The lock of an index record has one holder.
LEMMA RecordHeldStep ==
  ASSUME IInv, [Next]_vars
  PROVE  RecordHeld'
  <1>1. ASSUME NEW c \in Claims, NEW v \in Venues, CreateForVenue(c, v)
        PROVE  RecordHeld'
    BY <1>1, RequestShape DEF CreateForVenue, IInv, TypeOK, indexVars, venueVars,
           HoldsClaim, HoldsRecord, SameRecord, RecordHeld, ClaimHeld
  <1>2. ASSUME NEW c \in Claims, NEW r \in Records, CreateForRecord(c, r)
        PROVE  RecordHeld'
    BY <1>2, RequestShape DEF CreateForRecord, IInv, TypeOK, indexVars, venueVars,
           HoldsClaim, HoldsRecord, SameRecord, RecordHeld, ClaimHeld
  <1>3. ASSUME NEW q \in Requests, NEW c \in Claims, VerifyLoads(q, c)
        PROVE  RecordHeld'
    BY <1>3, RequestShape DEF VerifyLoads, IInv, TypeOK, Goto, Free, Idle, AtVerify,
           indexVars, venueVars, claimVars, HoldsClaim, HoldsRecord, SameRecord,
           RecordHeld, ClaimHeld
  <1>4. ASSUME NEW q \in Requests, VerifySaves(q)
        PROVE  RecordHeld'
    BY <1>4, RequestShape DEF VerifySaves, IInv, TypeOK, Goto, Idle, indexVars, venueVars,
           ClaimUnlocked, HoldsClaim, HoldsRecord, SameRecord, RecordHeld, ClaimHeld
  <1>5. ASSUME NEW q \in Requests, NEW c \in Claims, RejectLoads(q, c)
        PROVE  RecordHeld'
    BY <1>5, RequestShape DEF RejectLoads, IInv, TypeOK, Goto, Free, Idle, AtReject,
           indexVars, venueVars, claimVars, HoldsClaim, HoldsRecord, SameRecord, Open,
           RecordHeld, ClaimHeld
  <1>6. ASSUME NEW q \in Requests, RejectSaves(q)
        PROVE  RecordHeld'
    BY <1>6, RequestShape DEF RejectSaves, IInv, TypeOK, Goto, Idle, indexVars, venueVars,
           ClaimUnlocked, HoldsClaim, HoldsRecord, SameRecord, RecordHeld, ClaimHeld
  <1>7. ASSUME NEW q \in Requests, NEW c \in Claims, ApproveLoads(q, c)
        PROVE  RecordHeld'
    BY <1>7, RequestShape DEF ApproveLoads, IInv, TypeOK, Goto, Free, Idle, AtRecord,
           indexVars, venueVars, claimVars, ClaimUnlocked, HoldsClaim, HoldsRecord,
           SameRecord, RecordHeld, ClaimHeld
  <1>8. ASSUME NEW q \in Requests, ApproveLocksRecord(q)
        PROVE  RecordHeld'
    BY <1>8, RequestShape DEF ApproveLocksRecord, IInv, TypeOK, Goto, AtVenue, indexVars,
           venueVars, claimVars, RecordUnlocked, HoldsClaim, HoldsRecord, SameRecord,
           RecordHeld, ClaimHeld
  <1>9. ASSUME NEW q \in Requests, ApproveRefuses(q)
        PROVE  RecordHeld'
    BY <1>9, RequestShape DEF ApproveRefuses, IInv, TypeOK, Goto, Idle, claimVars,
           VenueUnlocked, HoldsClaim, HoldsRecord, SameRecord, RecordHeld, ClaimHeld
  <1>10. ASSUME NEW q \in Requests, ApproveChecks(q)
        PROVE  RecordHeld'
    BY <1>10, RequestShape DEF ApproveChecks, IInv, TypeOK, Goto, AtCommit, indexVars,
           venueVars, claimVars, VenueUnlocked, HoldsClaim, HoldsRecord, SameRecord,
           RecordHeld, ClaimHeld
  <1>11. ASSUME NEW q \in Requests, ApproveCommits(q)
        PROVE  RecordHeld'
    BY <1>11, RequestShape DEF ApproveCommits, IInv, TypeOK, Goto, Idle, HoldsClaim,
           HoldsRecord, SameRecord, Granted, RecordHeld, ClaimHeld
  <1>12. ASSUME NEW q \in Requests, NEW v \in Venues, ConfirmLoads(q, v)
        PROVE  RecordHeld'
    BY <1>12, RequestShape DEF ConfirmLoads, IInv, TypeOK, Goto, Free, Idle, AtConfirm,
           indexVars, venueVars, claimVars, HoldsClaim, HoldsRecord, SameRecord,
           RecordHeld, ClaimHeld
  <1>13. ASSUME NEW q \in Requests, ConfirmSaves(q)
        PROVE  RecordHeld'
    BY <1>13, RequestShape DEF ConfirmSaves, IInv, TypeOK, Goto, Idle, indexVars,
           claimVars, VenueUnlocked, HoldsClaim, HoldsRecord, SameRecord, RecordHeld,
           ClaimHeld
  <1>14. ASSUME NEW q \in Requests, NEW r \in Records, PublishAdds(q, r)
        PROVE  RecordHeld'
    BY <1>14, RequestShape DEF PublishAdds, IInv, TypeOK, Goto, Free, Idle, AtLink,
           claimVars, HoldsClaim, HoldsRecord, SameRecord, RecordHeld, ClaimHeld
  <1>15. ASSUME NEW q \in Requests, PublishLinks(q)
        PROVE  RecordHeld'
    BY <1>15, RequestShape DEF PublishLinks, IInv, TypeOK, Goto, Idle, venueVars,
           claimVars, RecordUnlocked, HoldsClaim, HoldsRecord, SameRecord, RecordHeld,
           ClaimHeld
  <1>16. ASSUME NEW r \in Records, NEW out \in BOOLEAN, Decide(r, out)
        PROVE  RecordHeld'
    BY <1>16, RequestShape DEF Decide, IInv, TypeOK, venueVars, claimVars, RecordUnlocked,
           VenueUnlocked, HoldsClaim, HoldsRecord, SameRecord, RecordHeld, ClaimHeld
  <1>17. CASE UNCHANGED vars
    BY <1>17 DEF IInv, RecordHeld, HoldsRecord, SameRecord, vars, claimVars
  <1> QED
    BY <1>1, <1>2, <1>3, <1>4, <1>5, <1>6, <1>7, <1>8, <1>9, <1>10, <1>11, <1>12, <1>13,
       <1>14, <1>15, <1>16, <1>17 DEF Next, ClaimStep, ApproveStep

\* The lock of a venue has one holder.
LEMMA VenueHeldStep ==
  ASSUME IInv, [Next]_vars
  PROVE  VenueHeld'
  <1>1. ASSUME NEW c \in Claims, NEW v \in Venues, CreateForVenue(c, v)
        PROVE  VenueHeld'
    BY <1>1, RequestShape DEF CreateForVenue, IInv, TypeOK, indexVars, venueVars,
           HoldsVenue, VenueHeld
  <1>2. ASSUME NEW c \in Claims, NEW r \in Records, CreateForRecord(c, r)
        PROVE  VenueHeld'
    BY <1>2, RequestShape DEF CreateForRecord, IInv, TypeOK, indexVars, venueVars,
           HoldsVenue, VenueHeld
  <1>3. ASSUME NEW q \in Requests, NEW c \in Claims, VerifyLoads(q, c)
        PROVE  VenueHeld'
    BY <1>3, RequestShape DEF VerifyLoads, IInv, TypeOK, Goto, Free, Idle, AtVerify,
           indexVars, venueVars, claimVars, HoldsVenue, VenueHeld
  <1>4. ASSUME NEW q \in Requests, VerifySaves(q)
        PROVE  VenueHeld'
    BY <1>4, RequestShape DEF VerifySaves, IInv, TypeOK, Goto, Idle, indexVars, venueVars,
           ClaimUnlocked, HoldsVenue, VenueHeld
  <1>5. ASSUME NEW q \in Requests, NEW c \in Claims, RejectLoads(q, c)
        PROVE  VenueHeld'
    BY <1>5, RequestShape DEF RejectLoads, IInv, TypeOK, Goto, Free, Idle, AtReject,
           indexVars, venueVars, claimVars, HoldsVenue, Open, VenueHeld
  <1>6. ASSUME NEW q \in Requests, RejectSaves(q)
        PROVE  VenueHeld'
    BY <1>6, RequestShape DEF RejectSaves, IInv, TypeOK, Goto, Idle, indexVars, venueVars,
           ClaimUnlocked, HoldsVenue, VenueHeld
  <1>7. ASSUME NEW q \in Requests, NEW c \in Claims, ApproveLoads(q, c)
        PROVE  VenueHeld'
    BY <1>7, RequestShape DEF ApproveLoads, IInv, TypeOK, Goto, Free, Idle, AtRecord,
           indexVars, venueVars, claimVars, ClaimUnlocked, HoldsVenue, VenueHeld
  <1>8. ASSUME NEW q \in Requests, ApproveLocksRecord(q)
        PROVE  VenueHeld'
    BY <1>8, RequestShape DEF ApproveLocksRecord, IInv, TypeOK, Goto, AtVenue, indexVars,
           venueVars, claimVars, RecordUnlocked, HoldsVenue, VenueHeld
  <1>9. ASSUME NEW q \in Requests, ApproveRefuses(q)
        PROVE  VenueHeld'
    BY <1>9, RequestShape DEF ApproveRefuses, IInv, TypeOK, Goto, Idle, claimVars,
           VenueUnlocked, HoldsVenue, VenueHeld
  <1>10. ASSUME NEW q \in Requests, ApproveChecks(q)
        PROVE  VenueHeld'
    BY <1>10, RequestShape DEF ApproveChecks, IInv, TypeOK, Goto, AtCommit, indexVars,
           venueVars, claimVars, VenueUnlocked, HoldsVenue, VenueHeld
  <1>11. ASSUME NEW q \in Requests, ApproveCommits(q)
        PROVE  VenueHeld'
    BY <1>11, RequestShape DEF ApproveCommits, IInv, TypeOK, Goto, Idle, HoldsVenue,
           Granted, VenueHeld
  <1>12. ASSUME NEW q \in Requests, NEW v \in Venues, ConfirmLoads(q, v)
        PROVE  VenueHeld'
    BY <1>12, RequestShape DEF ConfirmLoads, IInv, TypeOK, Goto, Free, Idle, AtConfirm,
           indexVars, venueVars, claimVars, HoldsVenue, VenueHeld
  <1>13. ASSUME NEW q \in Requests, ConfirmSaves(q)
        PROVE  VenueHeld'
    BY <1>13, RequestShape DEF ConfirmSaves, IInv, TypeOK, Goto, Idle, indexVars,
           claimVars, VenueUnlocked, HoldsVenue, VenueHeld
  <1>14. ASSUME NEW q \in Requests, NEW r \in Records, PublishAdds(q, r)
        PROVE  VenueHeld'
    BY <1>14, RequestShape DEF PublishAdds, IInv, TypeOK, Goto, Free, Idle, AtLink,
           claimVars, HoldsVenue, VenueHeld
  <1>15. ASSUME NEW q \in Requests, PublishLinks(q)
        PROVE  VenueHeld'
    BY <1>15, RequestShape DEF PublishLinks, IInv, TypeOK, Goto, Idle, venueVars,
           claimVars, RecordUnlocked, HoldsVenue, VenueHeld
  <1>16. ASSUME NEW r \in Records, NEW out \in BOOLEAN, Decide(r, out)
        PROVE  VenueHeld'
    BY <1>16, RequestShape DEF Decide, IInv, TypeOK, venueVars, claimVars, RecordUnlocked,
           VenueUnlocked, HoldsVenue, VenueHeld
  <1>17. CASE UNCHANGED vars
    BY <1>17 DEF IInv, VenueHeld, HoldsVenue, vars
  <1> QED
    BY <1>1, <1>2, <1>3, <1>4, <1>5, <1>6, <1>7, <1>8, <1>9, <1>10, <1>11, <1>12, <1>13,
       <1>14, <1>15, <1>16, <1>17 DEF Next, ClaimStep, ApproveStep

\* What was checked under the locks stays true until the commit.
LEMMA StillFreeStep ==
  ASSUME IInv, [Next]_vars
  PROVE  StillFree'
  <1>1. ASSUME NEW c \in Claims, NEW v \in Venues, CreateForVenue(c, v)
        PROVE  StillFree'
    BY <1>1, RequestShape, MadeVenues, TypeParts, ClaimsAssumption
       DEF CreateForVenue, IInv, TypeOK, KnownVenues, VenueStages, indexVars, venueVars,
           HoldsClaim, HoldsRecord, HoldsVenue, SameRecord, SameVenue, StillFree,
           AlreadyManaged, ClaimHeld, RecordHeld, VenueHeld
  <1>2. ASSUME NEW c \in Claims, NEW r \in Records, CreateForRecord(c, r)
        PROVE  StillFree'
    BY <1>2, RequestShape, MadeVenues, TypeParts, ClaimsAssumption
       DEF CreateForRecord, IInv, TypeOK, KnownVenues, VenueStages, indexVars, venueVars,
           HoldsClaim, HoldsRecord, HoldsVenue, SameRecord, SameVenue, StillFree,
           AlreadyManaged, ClaimHeld, RecordHeld, VenueHeld
  <1>3. ASSUME NEW q \in Requests, NEW c \in Claims, VerifyLoads(q, c)
        PROVE  StillFree'
    BY <1>3, RequestShape, MadeVenues, TypeParts, ClaimsAssumption
       DEF VerifyLoads, IInv, TypeOK, KnownVenues, VenueStages, Goto, Free, Idle, AtVerify,
           indexVars, venueVars, claimVars, HoldsClaim, HoldsRecord, HoldsVenue,
           SameRecord, SameVenue, StillFree, AlreadyManaged, ClaimHeld, RecordHeld,
           VenueHeld
  <1>4. ASSUME NEW q \in Requests, VerifySaves(q)
        PROVE  StillFree'
    BY <1>4, RequestShape, MadeVenues, TypeParts, ClaimsAssumption
       DEF VerifySaves, IInv, TypeOK, KnownVenues, VenueStages, Goto, Idle, indexVars,
           venueVars, ClaimUnlocked, HoldsClaim, HoldsRecord, HoldsVenue, SameRecord,
           SameVenue, StillFree, AlreadyManaged, ClaimHeld, RecordHeld, VenueHeld
  <1>5. ASSUME NEW q \in Requests, NEW c \in Claims, RejectLoads(q, c)
        PROVE  StillFree'
    BY <1>5, RequestShape, MadeVenues, TypeParts, ClaimsAssumption
       DEF RejectLoads, IInv, TypeOK, KnownVenues, VenueStages, Goto, Free, Idle, AtReject,
           indexVars, venueVars, claimVars, HoldsClaim, HoldsRecord, HoldsVenue,
           SameRecord, SameVenue, Open, StillFree, AlreadyManaged, ClaimHeld, RecordHeld,
           VenueHeld
  <1>6. ASSUME NEW q \in Requests, RejectSaves(q)
        PROVE  StillFree'
    BY <1>6, RequestShape, MadeVenues, TypeParts, ClaimsAssumption
       DEF RejectSaves, IInv, TypeOK, KnownVenues, VenueStages, Goto, Idle, indexVars,
           venueVars, ClaimUnlocked, HoldsClaim, HoldsRecord, HoldsVenue, SameRecord,
           SameVenue, StillFree, AlreadyManaged, ClaimHeld, RecordHeld, VenueHeld
  <1>7. ASSUME NEW q \in Requests, NEW c \in Claims, ApproveLoads(q, c)
        PROVE  StillFree'
    BY <1>7, RequestShape, MadeVenues, TypeParts, ClaimsAssumption
       DEF ApproveLoads, IInv, TypeOK, KnownVenues, VenueStages, Goto, Free, Idle,
           AtRecord, indexVars, venueVars, claimVars, ClaimUnlocked, HoldsClaim,
           HoldsRecord, HoldsVenue, SameRecord, SameVenue, StillFree, AlreadyManaged,
           ClaimHeld, RecordHeld, VenueHeld
  <1>8. ASSUME NEW q \in Requests, ApproveLocksRecord(q)
        PROVE  StillFree'
    BY <1>8, RequestShape, MadeVenues, TypeParts, ClaimsAssumption
       DEF ApproveLocksRecord, IInv, TypeOK, KnownVenues, VenueStages, Goto, AtVenue,
           indexVars, venueVars, claimVars, RecordUnlocked, HoldsClaim, HoldsRecord,
           HoldsVenue, SameRecord, SameVenue, StillFree, AlreadyManaged, ClaimHeld,
           RecordHeld, VenueHeld
  <1>9. ASSUME NEW q \in Requests, ApproveRefuses(q)
        PROVE  StillFree'
    BY <1>9, RequestShape, MadeVenues, TypeParts, ClaimsAssumption
       DEF ApproveRefuses, IInv, TypeOK, KnownVenues, VenueStages, Goto, Idle, claimVars,
           VenueUnlocked, HoldsClaim, HoldsRecord, HoldsVenue, SameRecord, SameVenue,
           Lists, StillFree, AlreadyManaged, ClaimHeld, RecordHeld, VenueHeld
  <1>10. ASSUME NEW q \in Requests, ApproveChecks(q)
        PROVE  StillFree'
    BY <1>10, RequestShape, MadeVenues, TypeParts, ClaimsAssumption
       DEF ApproveChecks, IInv, TypeOK, KnownVenues, VenueStages, Goto, AtCommit,
           indexVars, venueVars, claimVars, VenueUnlocked, HoldsClaim, HoldsRecord,
           HoldsVenue, SameRecord, SameVenue, StillFree, AlreadyManaged, ClaimHeld,
           RecordHeld, VenueHeld
  <1>11. ASSUME NEW q \in Requests, ApproveCommits(q)
        PROVE  StillFree'
    BY <1>11, RequestShape, MadeVenues, TypeParts, ClaimsAssumption
       DEF ApproveCommits, IInv, TypeOK, KnownVenues, VenueStages, Goto, Idle, HoldsClaim,
           HoldsRecord, HoldsVenue, SameRecord, SameVenue, Granted, Lists, StillFree,
           AlreadyManaged, ClaimHeld, RecordHeld, VenueHeld
  <1>12. ASSUME NEW q \in Requests, NEW v \in Venues, ConfirmLoads(q, v)
        PROVE  StillFree'
    BY <1>12, RequestShape, MadeVenues, TypeParts, ClaimsAssumption
       DEF ConfirmLoads, IInv, TypeOK, KnownVenues, VenueStages, Goto, Free, Idle,
           AtConfirm, indexVars, venueVars, claimVars, HoldsClaim, HoldsRecord, HoldsVenue,
           SameRecord, SameVenue, StillFree, AlreadyManaged, ClaimHeld, RecordHeld,
           VenueHeld
  <1>13. ASSUME NEW q \in Requests, ConfirmSaves(q)
        PROVE  StillFree'
    BY <1>13, RequestShape, MadeVenues, TypeParts, ClaimsAssumption
       DEF ConfirmSaves, IInv, TypeOK, KnownVenues, VenueStages, Goto, Idle, indexVars,
           claimVars, VenueUnlocked, HoldsClaim, HoldsRecord, HoldsVenue, SameRecord,
           SameVenue, StillFree, AlreadyManaged, ClaimHeld, RecordHeld, VenueHeld
  <1>14. ASSUME NEW q \in Requests, NEW r \in Records, PublishAdds(q, r)
        PROVE  StillFree'
    BY <1>14, RequestShape, MadeVenues, TypeParts, ClaimsAssumption
       DEF PublishAdds, IInv, TypeOK, KnownVenues, VenueStages, Goto, Free, Idle, AtLink,
           claimVars, HoldsClaim, HoldsRecord, HoldsVenue, SameRecord, SameVenue,
           StillFree, AlreadyManaged, ClaimHeld, RecordHeld, VenueHeld
  <1>15. ASSUME NEW q \in Requests, PublishLinks(q)
        PROVE  StillFree'
    BY <1>15, RequestShape, MadeVenues, TypeParts, ClaimsAssumption
       DEF PublishLinks, IInv, TypeOK, KnownVenues, VenueStages, Goto, Idle, venueVars,
           claimVars, RecordUnlocked, HoldsClaim, HoldsRecord, HoldsVenue, SameRecord,
           SameVenue, StillFree, AlreadyManaged, ClaimHeld, RecordHeld, VenueHeld
  <1>16. ASSUME NEW r \in Records, NEW out \in BOOLEAN, Decide(r, out)
        PROVE  StillFree'
    BY <1>16, RequestShape, MadeVenues, TypeParts, ClaimsAssumption
       DEF Decide, IInv, TypeOK, KnownVenues, VenueStages, venueVars, claimVars,
           RecordUnlocked, VenueUnlocked, HoldsClaim, HoldsRecord, HoldsVenue, SameRecord,
           SameVenue, StillFree, AlreadyManaged, ClaimHeld, RecordHeld, VenueHeld
  <1>17. CASE UNCHANGED vars
    BY <1>17 DEF IInv, StillFree, AlreadyManaged, SameVenue, SameRecord, HoldsVenue, vars,
           claimVars, venueVars
  <1> QED
    BY <1>1, <1>2, <1>3, <1>4, <1>5, <1>6, <1>7, <1>8, <1>9, <1>10, <1>11, <1>12, <1>13,
       <1>14, <1>15, <1>16, <1>17 DEF Next, ClaimStep, ApproveStep

\* A commit adds an editor only where there is none.
LEMMA ApprovedStep ==
  ASSUME IInv, [Next]_vars
  PROVE  OneEditorPerJournal' /\ ApprovedClaimOwns'
  <1>1. ASSUME NEW c \in Claims, NEW v \in Venues, CreateForVenue(c, v)
        PROVE  OneEditorPerJournal' /\ ApprovedClaimOwns'
    BY <1>1, RequestShape, MadeVenues, TypeParts, ClaimsAssumption
       DEF CreateForVenue, IInv, TypeOK, KnownVenues, VenueStages, indexVars, venueVars,
           HoldsClaim, HoldsVenue, SameRecord, SameVenue, StillFree, AlreadyManaged,
           ClaimHeld, OneEditorPerJournal, ApprovedClaimOwns
  <1>2. ASSUME NEW c \in Claims, NEW r \in Records, CreateForRecord(c, r)
        PROVE  OneEditorPerJournal' /\ ApprovedClaimOwns'
    BY <1>2, RequestShape, MadeVenues, TypeParts, ClaimsAssumption
       DEF CreateForRecord, IInv, TypeOK, KnownVenues, VenueStages, indexVars, venueVars,
           HoldsClaim, HoldsVenue, SameRecord, SameVenue, StillFree, AlreadyManaged,
           ClaimHeld, OneEditorPerJournal, ApprovedClaimOwns
  <1>3. ASSUME NEW q \in Requests, NEW c \in Claims, VerifyLoads(q, c)
        PROVE  OneEditorPerJournal' /\ ApprovedClaimOwns'
    BY <1>3, RequestShape, MadeVenues, TypeParts, ClaimsAssumption
       DEF VerifyLoads, IInv, TypeOK, KnownVenues, VenueStages, Goto, Free, Idle, AtVerify,
           indexVars, venueVars, claimVars, HoldsClaim, HoldsVenue, SameRecord, SameVenue,
           StillFree, AlreadyManaged, ClaimHeld, OneEditorPerJournal, ApprovedClaimOwns
  <1>4. ASSUME NEW q \in Requests, VerifySaves(q)
        PROVE  OneEditorPerJournal' /\ ApprovedClaimOwns'
    BY <1>4, RequestShape, MadeVenues, TypeParts, ClaimsAssumption
       DEF VerifySaves, IInv, TypeOK, KnownVenues, VenueStages, Goto, Idle, indexVars,
           venueVars, ClaimUnlocked, HoldsClaim, HoldsVenue, SameRecord, SameVenue,
           StillFree, AlreadyManaged, ClaimHeld, OneEditorPerJournal, ApprovedClaimOwns
  <1>5. ASSUME NEW q \in Requests, NEW c \in Claims, RejectLoads(q, c)
        PROVE  OneEditorPerJournal' /\ ApprovedClaimOwns'
    BY <1>5, RequestShape, MadeVenues, TypeParts, ClaimsAssumption
       DEF RejectLoads, IInv, TypeOK, KnownVenues, VenueStages, Goto, Free, Idle, AtReject,
           indexVars, venueVars, claimVars, HoldsClaim, HoldsVenue, SameRecord, SameVenue,
           Open, StillFree, AlreadyManaged, ClaimHeld, OneEditorPerJournal,
           ApprovedClaimOwns
  <1>6. ASSUME NEW q \in Requests, RejectSaves(q)
        PROVE  OneEditorPerJournal' /\ ApprovedClaimOwns'
    BY <1>6, RequestShape, MadeVenues, TypeParts, ClaimsAssumption
       DEF RejectSaves, IInv, TypeOK, KnownVenues, VenueStages, Goto, Idle, indexVars,
           venueVars, ClaimUnlocked, HoldsClaim, HoldsVenue, SameRecord, SameVenue,
           StillFree, AlreadyManaged, ClaimHeld, OneEditorPerJournal, ApprovedClaimOwns
  <1>7. ASSUME NEW q \in Requests, NEW c \in Claims, ApproveLoads(q, c)
        PROVE  OneEditorPerJournal' /\ ApprovedClaimOwns'
    BY <1>7, RequestShape, MadeVenues, TypeParts, ClaimsAssumption
       DEF ApproveLoads, IInv, TypeOK, KnownVenues, VenueStages, Goto, Free, Idle,
           AtRecord, indexVars, venueVars, claimVars, ClaimUnlocked, HoldsClaim,
           HoldsVenue, SameRecord, SameVenue, StillFree, AlreadyManaged, ClaimHeld,
           OneEditorPerJournal, ApprovedClaimOwns
  <1>8. ASSUME NEW q \in Requests, ApproveLocksRecord(q)
        PROVE  OneEditorPerJournal' /\ ApprovedClaimOwns'
    BY <1>8, RequestShape, MadeVenues, TypeParts, ClaimsAssumption
       DEF ApproveLocksRecord, IInv, TypeOK, KnownVenues, VenueStages, Goto, AtVenue,
           indexVars, venueVars, claimVars, RecordUnlocked, HoldsClaim, HoldsVenue,
           SameRecord, SameVenue, StillFree, AlreadyManaged, ClaimHeld,
           OneEditorPerJournal, ApprovedClaimOwns
  <1>9. ASSUME NEW q \in Requests, ApproveRefuses(q)
        PROVE  OneEditorPerJournal' /\ ApprovedClaimOwns'
    BY <1>9, RequestShape, MadeVenues, TypeParts, ClaimsAssumption
       DEF ApproveRefuses, IInv, TypeOK, KnownVenues, VenueStages, Goto, Idle, claimVars,
           VenueUnlocked, HoldsClaim, HoldsVenue, SameRecord, SameVenue, Lists, StillFree,
           AlreadyManaged, ClaimHeld, OneEditorPerJournal, ApprovedClaimOwns
  <1>10. ASSUME NEW q \in Requests, ApproveChecks(q)
        PROVE  OneEditorPerJournal' /\ ApprovedClaimOwns'
    BY <1>10, RequestShape, MadeVenues, TypeParts, ClaimsAssumption
       DEF ApproveChecks, IInv, TypeOK, KnownVenues, VenueStages, Goto, AtCommit,
           indexVars, venueVars, claimVars, VenueUnlocked, HoldsClaim, HoldsVenue,
           SameRecord, SameVenue, StillFree, AlreadyManaged, ClaimHeld,
           OneEditorPerJournal, ApprovedClaimOwns
  <1>11. ASSUME NEW q \in Requests, ApproveCommits(q)
        PROVE  OneEditorPerJournal' /\ ApprovedClaimOwns'
    BY <1>11, RequestShape, MadeVenues, TypeParts, ClaimsAssumption
       DEF ApproveCommits, IInv, TypeOK, KnownVenues, VenueStages, Goto, Idle, HoldsClaim,
           HoldsVenue, SameRecord, SameVenue, Granted, Lists, StillFree, AlreadyManaged,
           ClaimHeld, OneEditorPerJournal, ApprovedClaimOwns
  <1>12. ASSUME NEW q \in Requests, NEW v \in Venues, ConfirmLoads(q, v)
        PROVE  OneEditorPerJournal' /\ ApprovedClaimOwns'
    BY <1>12, RequestShape, MadeVenues, TypeParts, ClaimsAssumption
       DEF ConfirmLoads, IInv, TypeOK, KnownVenues, VenueStages, Goto, Free, Idle,
           AtConfirm, indexVars, venueVars, claimVars, HoldsClaim, HoldsVenue, SameRecord,
           SameVenue, StillFree, AlreadyManaged, ClaimHeld, OneEditorPerJournal,
           ApprovedClaimOwns
  <1>13. ASSUME NEW q \in Requests, ConfirmSaves(q)
        PROVE  OneEditorPerJournal' /\ ApprovedClaimOwns'
    BY <1>13, RequestShape, MadeVenues, TypeParts, ClaimsAssumption
       DEF ConfirmSaves, IInv, TypeOK, KnownVenues, VenueStages, Goto, Idle, indexVars,
           claimVars, VenueUnlocked, HoldsClaim, HoldsVenue, SameRecord, SameVenue,
           StillFree, AlreadyManaged, ClaimHeld, OneEditorPerJournal, ApprovedClaimOwns
  <1>14. ASSUME NEW q \in Requests, NEW r \in Records, PublishAdds(q, r)
        PROVE  OneEditorPerJournal' /\ ApprovedClaimOwns'
    BY <1>14, RequestShape, MadeVenues, TypeParts, ClaimsAssumption
       DEF PublishAdds, IInv, TypeOK, KnownVenues, VenueStages, Goto, Free, Idle, AtLink,
           claimVars, HoldsClaim, HoldsVenue, SameRecord, SameVenue, StillFree,
           AlreadyManaged, ClaimHeld, OneEditorPerJournal, ApprovedClaimOwns
  <1>15. ASSUME NEW q \in Requests, PublishLinks(q)
        PROVE  OneEditorPerJournal' /\ ApprovedClaimOwns'
    BY <1>15, RequestShape, MadeVenues, TypeParts, ClaimsAssumption
       DEF PublishLinks, IInv, TypeOK, KnownVenues, VenueStages, Goto, Idle, venueVars,
           claimVars, RecordUnlocked, HoldsClaim, HoldsVenue, SameRecord, SameVenue,
           StillFree, AlreadyManaged, ClaimHeld, OneEditorPerJournal, ApprovedClaimOwns
  <1>16. ASSUME NEW r \in Records, NEW out \in BOOLEAN, Decide(r, out)
        PROVE  OneEditorPerJournal' /\ ApprovedClaimOwns'
    BY <1>16, RequestShape, MadeVenues, TypeParts, ClaimsAssumption
       DEF Decide, IInv, TypeOK, KnownVenues, VenueStages, venueVars, claimVars,
           RecordUnlocked, VenueUnlocked, HoldsClaim, HoldsVenue, SameRecord, SameVenue,
           StillFree, AlreadyManaged, ClaimHeld, OneEditorPerJournal, ApprovedClaimOwns
  <1>17. CASE UNCHANGED vars
    BY <1>17 DEF IInv, OneEditorPerJournal, ApprovedClaimOwns, SameRecord, vars, claimVars,
           venueVars
  <1> QED
    BY <1>1, <1>2, <1>3, <1>4, <1>5, <1>6, <1>7, <1>8, <1>9, <1>10, <1>11, <1>12, <1>13,
       <1>14, <1>15, <1>16, <1>17 DEF Next, ClaimStep, ApproveStep

\* No step gives a confirmed journal to another editor.
LEMMA ConfirmedStep ==
  ASSUME IInv, [Next]_vars
  PROVE  \A w \in Venues : tier[w] = "claimed" => owner'[w] = owner[w]
  <1>1. ASSUME NEW c \in Claims, NEW v \in Venues, CreateForVenue(c, v)
        PROVE  \A w \in Venues : tier[w] = "claimed" => owner'[w] = owner[w]
    BY <1>1, RequestShape DEF CreateForVenue, IInv, StillFree, HoldsVenue, AlreadyManaged,
           TypeOK, Venues, venueVars
  <1>2. ASSUME NEW c \in Claims, NEW r \in Records, CreateForRecord(c, r)
        PROVE  \A w \in Venues : tier[w] = "claimed" => owner'[w] = owner[w]
    BY <1>2, RequestShape DEF CreateForRecord, IInv, StillFree, HoldsVenue, AlreadyManaged,
           TypeOK, Venues, venueVars
  <1>3. ASSUME NEW q \in Requests, NEW c \in Claims, VerifyLoads(q, c)
        PROVE  \A w \in Venues : tier[w] = "claimed" => owner'[w] = owner[w]
    BY <1>3, RequestShape DEF VerifyLoads, IInv, StillFree, HoldsVenue, AlreadyManaged,
           TypeOK, Venues, venueVars
  <1>4. ASSUME NEW q \in Requests, VerifySaves(q)
        PROVE  \A w \in Venues : tier[w] = "claimed" => owner'[w] = owner[w]
    BY <1>4, RequestShape DEF VerifySaves, IInv, StillFree, HoldsVenue, AlreadyManaged,
           TypeOK, Venues, venueVars
  <1>5. ASSUME NEW q \in Requests, NEW c \in Claims, RejectLoads(q, c)
        PROVE  \A w \in Venues : tier[w] = "claimed" => owner'[w] = owner[w]
    BY <1>5, RequestShape DEF RejectLoads, IInv, StillFree, HoldsVenue, AlreadyManaged,
           TypeOK, Venues, venueVars
  <1>6. ASSUME NEW q \in Requests, RejectSaves(q)
        PROVE  \A w \in Venues : tier[w] = "claimed" => owner'[w] = owner[w]
    BY <1>6, RequestShape DEF RejectSaves, IInv, StillFree, HoldsVenue, AlreadyManaged,
           TypeOK, Venues, venueVars
  <1>7. ASSUME NEW q \in Requests, NEW c \in Claims, ApproveLoads(q, c)
        PROVE  \A w \in Venues : tier[w] = "claimed" => owner'[w] = owner[w]
    BY <1>7, RequestShape DEF ApproveLoads, IInv, StillFree, HoldsVenue, AlreadyManaged,
           TypeOK, Venues, venueVars
  <1>8. ASSUME NEW q \in Requests, ApproveLocksRecord(q)
        PROVE  \A w \in Venues : tier[w] = "claimed" => owner'[w] = owner[w]
    BY <1>8, RequestShape DEF ApproveLocksRecord, IInv, StillFree, HoldsVenue,
           AlreadyManaged, TypeOK, Venues, venueVars
  <1>9. ASSUME NEW q \in Requests, ApproveRefuses(q)
        PROVE  \A w \in Venues : tier[w] = "claimed" => owner'[w] = owner[w]
    BY <1>9, RequestShape DEF ApproveRefuses, IInv, StillFree, HoldsVenue, AlreadyManaged,
           TypeOK, Lists, Venues
  <1>10. ASSUME NEW q \in Requests, ApproveChecks(q)
        PROVE  \A w \in Venues : tier[w] = "claimed" => owner'[w] = owner[w]
    BY <1>10, RequestShape DEF ApproveChecks, IInv, StillFree, HoldsVenue, AlreadyManaged,
           TypeOK, Venues, venueVars
  <1>11. ASSUME NEW q \in Requests, ApproveCommits(q)
        PROVE  \A w \in Venues : tier[w] = "claimed" => owner'[w] = owner[w]
    <2>1. CASE request[q].venue = None
      <3>1. owner' = [owner EXCEPT ![made + 1] = request[q].claim] /\ made < MaxVenues
        BY <1>11, <2>1 DEF ApproveCommits, Granted, Lists
      <3>2. made \in Nat /\ made + 1 \in Venues
        BY <3>1, MadeVenues, TypeParts DEF IInv
      <3>3. tier[made + 1] = "none"
        BY <3>2 DEF IInv, TypeOK
      <3> QED  BY <3>1, <3>2, <3>3 DEF IInv, TypeOK
    <2>2. CASE request[q].venue # None
      <3>1. owner' = [owner EXCEPT ![request[q].venue] = request[q].claim]
        BY <1>11, <2>2 DEF ApproveCommits, Granted
      <3>2. tier[request[q].venue] # "claimed"
        BY <1>11, <2>2 DEF ApproveCommits, IInv, StillFree, HoldsVenue, AlreadyManaged
      <3> QED  BY <3>1, <3>2 DEF IInv, TypeOK
    <2> QED  BY <2>1, <2>2
  <1>12. ASSUME NEW q \in Requests, NEW v \in Venues, ConfirmLoads(q, v)
        PROVE  \A w \in Venues : tier[w] = "claimed" => owner'[w] = owner[w]
    BY <1>12, RequestShape DEF ConfirmLoads, IInv, StillFree, HoldsVenue, AlreadyManaged,
           TypeOK, Venues, venueVars
  <1>13. ASSUME NEW q \in Requests, ConfirmSaves(q)
        PROVE  \A w \in Venues : tier[w] = "claimed" => owner'[w] = owner[w]
    BY <1>13, RequestShape DEF ConfirmSaves, IInv, StillFree, HoldsVenue, AlreadyManaged,
           TypeOK, Venues
  <1>14. ASSUME NEW q \in Requests, NEW r \in Records, PublishAdds(q, r)
        PROVE  \A w \in Venues : tier[w] = "claimed" => owner'[w] = owner[w]
    BY <1>14, RequestShape DEF PublishAdds, IInv, StillFree, HoldsVenue, AlreadyManaged,
           TypeOK, Venues
  <1>15. ASSUME NEW q \in Requests, PublishLinks(q)
        PROVE  \A w \in Venues : tier[w] = "claimed" => owner'[w] = owner[w]
    BY <1>15, RequestShape DEF PublishLinks, IInv, StillFree, HoldsVenue, AlreadyManaged,
           TypeOK, Venues, venueVars
  <1>16. ASSUME NEW r \in Records, NEW out \in BOOLEAN, Decide(r, out)
        PROVE  \A w \in Venues : tier[w] = "claimed" => owner'[w] = owner[w]
    BY <1>16, RequestShape DEF Decide, IInv, StillFree, HoldsVenue, AlreadyManaged, TypeOK,
           Venues, venueVars
  <1>17. CASE UNCHANGED vars
    BY <1>17 DEF vars, venueVars
  <1> QED
    BY <1>1, <1>2, <1>3, <1>4, <1>5, <1>6, <1>7, <1>8, <1>9, <1>10, <1>11, <1>12, <1>13,
       <1>14, <1>15, <1>16, <1>17 DEF Next, ClaimStep, ApproveStep

\* The inductive invariant holds in every reachable state.
THEOREM Invariance == Spec => []IInv
  <1>1. IInv /\ [Next]_vars => IInv'
    BY RequestStep, DataStep, KnownStep, ClaimHeldStep, RecordHeldStep, VenueHeldStep,
       StillFreeStep, ApprovedStep DEF IInv, TypeOK, DataOK
  <1> QED  BY InitIInv, <1>1, PTL DEF Spec

\* Every row keeps a value the code can write.
THEOREM TypeCorrect == Spec => []TypeOK
  <1>1. IInv => TypeOK
    BY DEF IInv
  <1> QED  BY Invariance, <1>1, PTL

\* However many approvals overlap, a venue or an index record has one approved claim.
THEOREM OneEditor == Spec => []OneEditorPerJournal
  <1>1. IInv => OneEditorPerJournal
    BY DEF IInv
  <1> QED  BY Invariance, <1>1, PTL

\* An approved claim's editor owns the venue, whatever is approved afterwards.
THEOREM ApprovedOwns == Spec => []ApprovedClaimOwns
  <1>1. IInv => ApprovedClaimOwns
    BY DEF IInv
  <1> QED  BY Invariance, <1>1, PTL

\* A journal its editor has confirmed is never given to another editor.
THEOREM ConfirmedKept == Spec => ConfirmedKeepsEditor
  <1>1. IInv /\ [Next]_vars
        => [\A v \in Venues : tier[v] = "claimed" => owner'[v] = owner[v]]_vars
    BY ConfirmedStep
  <1> QED  BY Invariance, <1>1, PTL DEF Spec, ConfirmedKeepsEditor

=============================================================================
