------------------------- MODULE EditorialFlowProofs -------------------------
(***************************************************************************)
(* Proofs about EditorialFlow, for any number of handlers that overlap:    *)
(* the plans keep to SubmissionPlan, a new text empties every draft and    *)
(* spares what was planned, and only a declined packet is transferred.     *)
(***************************************************************************)
EXTENDS EditorialFlow, TLAPS

(***************************************************************************)
(* Packets, and what the handlers keep.                                    *)
(***************************************************************************)

Goals == {"submitted", "under_review"} \union DecisionStatuses
Ops == {"submitted", "under_review", "accepted", "declined", "revise_resubmit"}
Created == {s \in Subs : subStatus[s] # "none"}
Changing(w) == w.at \in {"change", "reset"}

Types ==
    /\ current \in 1..MaxVersion
    /\ link \in [Plans -> [Venues -> Subs \union {"none"}]]
    /\ subStatus \in [Subs -> SubStatuses]
    /\ subVersion \in [Subs -> 0..MaxVersion]
    /\ text \in [1..MaxVersion -> 0..MaxUploads]
    /\ uploads \in 1..MaxUploads
    /\ job \in [Subs -> {"none", "queued", "running"}]
    /\ request = [r \in Requests |-> request[r]]

\* A packet has a version, and may have a job, once it is created.
Packets ==
    \A s \in Subs : /\ s \notin Created => subVersion[s] = 0 /\ job[s] = "none"
                    /\ s \in Created => subVersion[s] \in 1..current

\* What a handler keeps between its transactions, at version n after so many
\* uploads, when the packets of created exist.
PlaceOK(w, n, files, created) ==
    /\ w.at \in {"idle", "save", "sync", "apply", "create", "change", "reset"}
    /\ w.at \in {"save", "sync", "apply"} => w.sub \in created
    /\ w.at \in {"save", "sync"} => w.goal \in Goals
    /\ (w.at \in {"save", "sync"} /\ w.goal = "submitted") => w.version \in 1..n
    /\ w.at = "apply" => w.plan \in Plans /\ w.op \in Ops
    /\ (w.at = "apply" /\ w.op = "submitted") => w.version \in 1..n
    /\ w.at = "create" => /\ w.sub \in Subs /\ w.version \in 1..n
                          /\ w.from \in created \union {"none"}
    /\ Changing(w) => /\ w.kind \in {"edit", "version"}
                      /\ files < MaxUploads
                      /\ w.kind = "version" => n < MaxVersion
    /\ w.at = "reset" => w.listed \subseteq created
Handlers == \A r \in Requests : PlaceOK(request[r], current, uploads, Created)

\* The row of the manuscript is held by one edit or upload.
RowHeld == \A q, r \in Requests : Changing(request[q]) /\ Changing(request[r]) => q = r

FlowInv == Types /\ Packets /\ Handlers /\ RowHeld

LEMMA FlowInit == Init => FlowInv
  <1> SUFFICES ASSUME Init PROVE FlowInv
    OBVIOUS
  <1>1. current = 1 /\ current \in 1..MaxVersion
    BY FlowAssumption DEF Init, Plan!Init
  <1>2. Types
    BY <1>1, FlowAssumption DEF Init, Types, SubStatuses
  <1>3. Packets
    BY DEF Init, Packets, Created
  <1>4. Handlers /\ RowHeld
    BY DEF Init, Handlers, PlaceOK, RowHeld, Changing, Idle
  <1> QED  BY <1>2, <1>3, <1>4 DEF FlowInv

\* More packets, and later versions when the handler holds no row, change
\* nothing for what a handler keeps.
LEMMA PlaceKept ==
    ASSUME NEW w, NEW n \in Nat, NEW m \in Nat, NEW f, NEW g, NEW old, NEW new,
           PlaceOK(w, n, f, old), old \subseteq new,
           n <= m, Changing(w) => n = m /\ f = g
    PROVE  PlaceOK(w, m, g, new)
  BY DEF PlaceOK

\* One handler goes on, the others keep what they have.
LEMMA HandlerGoes ==
    ASSUME FlowInv, NEW r \in Requests, NEW where, request' = [request EXCEPT ![r] = where],
           current' \in Nat, current <= current', Created \subseteq Created',
           PlaceOK(where, current', uploads', Created'),
           \A q \in Requests \ {r} : Changing(request[q]) => UNCHANGED <<current, uploads>> /\ ~Changing(where)
    PROVE  request' = [q \in Requests |-> request'[q]] /\ Handlers' /\ RowHeld'
  <1>1. /\ request' = [q \in Requests |-> request'[q]] /\ request'[r] = where
        /\ \A q \in Requests \ {r} : request'[q] = request[q]
    BY DEF FlowInv, Types
  <1>2. current \in Nat
    BY DEF FlowInv, Types
  <1>3. ASSUME NEW q \in Requests
        PROVE  PlaceOK(request'[q], current', uploads', Created')
    <2>1. CASE q = r
      BY <1>1, <2>1
    <2>2. CASE q # r
      <3>1. PlaceOK(request[q], current, uploads, Created)
        BY DEF FlowInv, Handlers
      <3>2. Changing(request[q]) => current = current' /\ uploads = uploads'
        BY <2>2
      <3> QED  BY <1>1, <1>2, <2>2, <3>1, <3>2, PlaceKept
    <2> QED  BY <2>1, <2>2
  <1>4. RowHeld'
    BY <1>1 DEF FlowInv, RowHeld
  <1> QED  BY <1>1, <1>3, <1>4 DEF Handlers

\* No handler goes on, and what they keep stays right.
LEMMA HandlersStay ==
    ASSUME FlowInv, UNCHANGED <<request, current, uploads>>, Created \subseteq Created'
    PROVE  request' = [q \in Requests |-> request'[q]] /\ Handlers' /\ RowHeld'
  <1>1. ASSUME NEW q \in Requests
        PROVE  PlaceOK(request'[q], current', uploads', Created')
    <2>1. PlaceOK(request[q], current, uploads, Created) /\ current \in Nat /\ current <= current
      BY DEF FlowInv, Handlers, Types
    <2> QED  BY <2>1, PlaceKept
  <1> QED  BY <1>1 DEF FlowInv, Types, Handlers, RowHeld

\* The author's own steps on the plan, and those of the sync, leave the version.
LEMMA PlanStepKeepsVersion ==
    ASSUME PlanStep \/ \E p \in Plans, s \in Subs, op \in Ops : \E n : PlanOperation(p, s, n, op)
    PROVE  current' = current
  BY DEF PlanStep, PlanOperation, Plan!CheckReadiness, Plan!GenerateMatches, Plan!BuildPlan,
     Plan!PositionStep, Plan!Stop, Plan!Start, Plan!MarkSubmitted, Plan!MarkUnderReview,
     Plan!ReportAccepted, Plan!ReportOutcome, Plan!Resubmit, Plan!AnswerUnchanged,
     Plan!AnswerRevised, Plan!Skip, Plan!manuscriptVars

\* A handler that only reads: it goes on, and nothing else changes.
LEMMA ReadStep ==
    ASSUME FlowInv, NEW r \in Requests, NEW where, Goto(r, where),
           UNCHANGED <<current, link, packetVars, textVars, job>>,
           PlaceOK(where, current, uploads, Created),
           \A q \in Requests \ {r} : Changing(request[q]) => ~Changing(where)
    PROVE  FlowInv'
  <1>1. Created' = Created /\ current' = current /\ uploads' = uploads /\ current \in Nat
    BY DEF Created, FlowInv, Types, packetVars, textVars
  <1>2. request' = [q \in Requests |-> request'[q]] /\ Handlers' /\ RowHeld'
    <2>1. request' = [request EXCEPT ![r] = where] /\ current' \in Nat /\ current <= current'
      BY <1>1 DEF Goto
    <2>2. PlaceOK(where, current', uploads', Created') /\ Created \subseteq Created'
      BY <1>1
    <2> QED  BY <1>1, <2>1, <2>2, HandlerGoes
  <1>3. Types' /\ Packets'
    BY <1>1, <1>2 DEF FlowInv, Types, Packets, packetVars, textVars
  <1> QED  BY <1>2, <1>3 DEF FlowInv

\* The handlers that read.
LEMMA ReadingSteps ==
    ASSUME FlowInv, NEW r \in Requests,
           \/ EditChecks(r) \/ UploadChecks(r) \/ ChangeLists(r) \/ SyncReads(r)
           \/ \E s \in Subs :
                 \/ CreateRead(r, s)
                 \/ \E t \in Subs : TransferRead(r, s, t)
                 \/ SubmitLoads(r, s) \/ StartReviewLoads(r, s)
                 \/ \E decision \in DecisionStatuses : DecisionLoads(r, s, decision)
    PROVE  FlowInv'
  <1>0. PlaceOK(request[r], current, uploads, Created)
    BY DEF FlowInv, Handlers
  <1>1. CASE EditChecks(r) \/ UploadChecks(r)
    <2>1. PICK kind \in {"edit", "version"} :
             Goto(r, AtChange(kind)) /\ (kind = "version" => current < MaxVersion)
      BY <1>1 DEF EditChecks, UploadChecks
    <2>2. PlaceOK(AtChange(kind), current, uploads, Created)
      BY <1>1, <2>1 DEF EditChecks, UploadChecks, PlaceOK, AtChange, Changing
    <2>3. \A q \in Requests : ~Changing(request[q])
      BY <1>1 DEF EditChecks, UploadChecks, RowUnlocked, Changing
    <2> QED  BY <1>1, <2>1, <2>2, <2>3, ReadStep DEF EditChecks, UploadChecks, planVars
  <1>2. CASE ChangeLists(r)
    <2> DEFINE where == AtReset(request[r].kind, {s \in Subs : Editable(s)})
    <2>1. PlaceOK(where, current, uploads, Created)
      BY <1>0, <1>2 DEF ChangeLists, PlaceOK, AtReset, Changing, Created, Editable, EditableStatuses
    <2>2. \A q \in Requests \ {r} : ~Changing(request[q])
      BY <1>2 DEF ChangeLists, FlowInv, RowHeld, Changing
    <2> QED  BY <1>2, <2>1, <2>2, ReadStep DEF ChangeLists, planVars
  <1>3. CASE SyncReads(r)
    <2> DEFINE w == request[r]
               op(p) == SyncOperation(w.goal, state[p][VenueOf[w.sub]])
    <2>1. \A p \in Plans : op(p) # "none" =>
             op(p) \in Ops /\ (op(p) = "submitted" => w.goal = "submitted")
      <3>1. \A goal \in DecisionStatuses : OutcomeOf[goal] \in Ops \ {"submitted"}
        BY DEF DecisionStatuses, OutcomeOf, Ops
      <3> QED  BY <3>1 DEF SyncOperation, Ops
    <2> HIDE DEF op
    <2>2. ASSUME NEW p \in Plans, op(p) # "none", Goto(r, AtApply(w, p, op(p)))
          PROVE  FlowInv'
      <3>1. PlaceOK(AtApply(w, p, op(p)), current, uploads, Created) /\ ~Changing(AtApply(w, p, op(p)))
        BY <1>0, <1>3, <2>1, <2>2 DEF SyncReads, PlaceOK, AtApply, Changing
      <3> QED  BY <1>3, <2>2, <3>1, ReadStep DEF SyncReads, planVars
    <2>3. CASE Goto(r, Idle)
      <3>1. PlaceOK(Idle, current, uploads, Created) /\ ~Changing(Idle)
        BY DEF PlaceOK, Idle, Changing
      <3> QED  BY <1>3, <2>3, <3>1, ReadStep DEF SyncReads, planVars
    <2> QED  BY <1>3, <2>2, <2>3 DEF SyncReads, op
  <1>4. ASSUME NEW s \in Subs, CreateRead(r, s)
        PROVE  FlowInv'
    <2>1. PlaceOK(AtCreate(s, current, "none"), current, uploads, Created) /\ ~Changing(AtCreate(s, current, "none"))
      BY DEF PlaceOK, AtCreate, Changing, FlowInv, Types
    <2> QED  BY <1>4, <2>1, ReadStep DEF CreateRead, planVars
  <1>5. ASSUME NEW s \in Subs, NEW t \in Subs, TransferRead(r, s, t)
        PROVE  FlowInv'
    <2>1. PlaceOK(AtCreate(t, current, s), current, uploads, Created) /\ ~Changing(AtCreate(t, current, s))
      BY <1>5 DEF TransferRead, PlaceOK, AtCreate, Changing, FlowInv, Types, Created
    <2> QED  BY <1>5, <2>1, ReadStep DEF TransferRead, planVars
  <1>6. ASSUME NEW s \in Subs, NEW goal \in Goals, NEW n, Goto(r, AtSave(s, n, goal)), subStatus[s] # "none",
               goal = "submitted" => n \in 1..current,
               UNCHANGED <<planVars, link, packetVars, textVars, job>>
        PROVE  FlowInv'
    <2>1. PlaceOK(AtSave(s, n, goal), current, uploads, Created) /\ ~Changing(AtSave(s, n, goal))
      BY <1>6 DEF PlaceOK, AtSave, Changing, Created
    <2> QED  BY <1>6, <2>1, ReadStep DEF planVars
  <1>7. ASSUME NEW s \in Subs,
               \/ SubmitLoads(r, s) \/ StartReviewLoads(r, s)
               \/ \E decision \in DecisionStatuses : DecisionLoads(r, s, decision)
        PROVE  FlowInv'
    <2>1. ASSUME SubmitLoads(r, s)
          PROVE  FlowInv'
      <3>1. subVersion[s] \in 1..current
        BY <2>1 DEF SubmitLoads, FlowInv, Packets, Created
      <3> QED  BY <1>6, <2>1, <3>1 DEF SubmitLoads, Goals
    <2>2. ASSUME StartReviewLoads(r, s)
          PROVE  FlowInv'
      BY <1>6, <2>2 DEF StartReviewLoads, Goals
    <2>3. ASSUME NEW decision \in DecisionStatuses, DecisionLoads(r, s, decision)
          PROVE  FlowInv'
      <3>1. decision \in Goals /\ decision # "submitted"
        BY DEF Goals, DecisionStatuses
      <3> QED  BY <1>6, <2>3, <3>1 DEF DecisionLoads
    <2> QED  BY <1>7, <2>1, <2>2, <2>3
  <1> QED  BY <1>1, <1>2, <1>3, <1>4, <1>5, <1>7

\* A packet that exists goes on existing.
LEMMA CreatedGrows ==
    ASSUME subStatus' \in [Subs -> SubStatuses], \A s \in Created : subStatus'[s] # "none"
    PROVE  Created \subseteq Created'
  BY DEF Created

LEMMA InsertStep ==
    ASSUME FlowInv, NEW r \in Requests, CreateInsert(r)
    PROVE  FlowInv'
  <1> DEFINE w == request[r]
  <1>0. PlaceOK(w, current, uploads, Created) /\ w.at = "create"
    BY DEF FlowInv, Handlers, CreateInsert
  <1>1. w.sub \in Subs /\ w.version \in 1..current /\ w.from \in Created \union {"none"}
    BY <1>0 DEF PlaceOK
  <1>2. UNCHANGED <<current, link, text, uploads, job>>
    BY DEF CreateInsert, planVars, textVars
  <1>3. current \in 1..MaxVersion /\ MaxVersion \in Nat
    BY FlowAssumption DEF FlowInv, Types
  <1>4. subStatus' \in [Subs -> SubStatuses] /\ subVersion' \in [Subs -> 0..MaxVersion]
    BY <1>0, <1>1, <1>3 DEF CreateInsert, FlowInv, Types, SubStatuses, EditableStatuses
  <1>5. \A s \in Subs : subStatus'[s] # "none" <=> s \in Created \union {w.sub}
    BY <1>0, FlowAssumption DEF CreateInsert, FlowInv, Types, PlaceOK, Created
  <1>6. Created' = Created \union {w.sub}
    BY <1>1, <1>5 DEF Created
  <1>7. Packets'
    <2>1. \A s \in Subs : subVersion'[s] = IF s = w.sub THEN w.version ELSE subVersion[s]
      BY <1>1 DEF CreateInsert, FlowInv, Types
    <2> QED  BY <1>1, <1>2, <1>6, <2>1 DEF FlowInv, Packets
  <1>8. request' = [q \in Requests |-> request'[q]] /\ Handlers' /\ RowHeld'
    <2>1. PlaceOK(Idle, current', uploads', Created') /\ ~Changing(Idle) /\ Created \subseteq Created'
      BY <1>6 DEF PlaceOK, Idle, Changing
    <2>2. current' \in Nat /\ current <= current'
      BY <1>2, <1>3
    <2> QED  BY <1>2, <2>1, <2>2, HandlerGoes DEF CreateInsert, Goto
  <1>9. Types'
    BY <1>2, <1>4, <1>8 DEF FlowInv, Types
  <1> QED  BY <1>7, <1>8, <1>9 DEF FlowInv

LEMMA SaveStep ==
    ASSUME FlowInv, NEW r \in Requests, Save(r)
    PROVE  FlowInv'
  <1> DEFINE w == request[r]
  <1>0. /\ w.sub \in Created /\ w.goal \in Goals /\ w.sub \in Subs
        /\ w.goal = "submitted" => w.version \in 1..current
    BY DEF FlowInv, Handlers, Save, PlaceOK, Created
  <1>1. UNCHANGED <<current, link, subVersion, text, uploads, job>>
    BY DEF Save, planVars, textVars
  <1>2. subStatus' = [subStatus EXCEPT ![w.sub] = w.goal] /\ w.goal \in SubStatuses \ {"none"}
    BY <1>0 DEF Save, Goals, SubStatuses, DecisionStatuses
  <1>3. subStatus' \in [Subs -> SubStatuses] /\ Created' = Created
    BY <1>0, <1>2 DEF FlowInv, Types, Created
  <1>4. request' = [q \in Requests |-> request'[q]] /\ Handlers' /\ RowHeld'
    <2>1. PlaceOK(AtSync(w), current', uploads', Created') /\ ~Changing(AtSync(w))
      BY <1>0, <1>1, <1>3 DEF PlaceOK, AtSync, Changing
    <2>2. current' \in Nat /\ current <= current' /\ Created \subseteq Created'
      BY <1>1, <1>3 DEF FlowInv, Types
    <2> QED  BY <1>1, <2>1, <2>2, HandlerGoes DEF Save, Goto
  <1>5. Types' /\ Packets'
    BY <1>1, <1>3, <1>4 DEF FlowInv, Types, Packets
  <1> QED  BY <1>4, <1>5 DEF FlowInv

\* Writing one entry of a table of two dimensions keeps its type, and the others.
LEMMA LinkUpdate ==
    ASSUME NEW P, NEW V, NEW R, NEW f \in [P -> [V -> R]], NEW p \in P, NEW v \in V, NEW x \in R
    PROVE  /\ [f EXCEPT ![p][v] = x] \in [P -> [V -> R]]
           /\ \A q \in P : \A u \in V :
                 [f EXCEPT ![p][v] = x][q][u] = IF q = p /\ u = v THEN x ELSE f[q][u]
  OBVIOUS

LEMMA ApplyStep ==
    ASSUME FlowInv, NEW r \in Requests, SyncApplies(r)
    PROVE  FlowInv'
  <1> DEFINE w == request[r]
  <1>0. w.sub \in Created /\ w.sub \in Subs /\ w.plan \in Plans /\ w.op \in Ops
    BY DEF FlowInv, Handlers, SyncApplies, PlaceOK, Created
  <1>1. /\ request' = [request EXCEPT ![r] = Idle]
        /\ UNCHANGED <<packetVars, textVars, job>>
        /\ PlanOperation(w.plan, w.sub, w.version, w.op) \/ UNCHANGED <<planVars, link>>
    BY DEF SyncApplies, Goto
  <1>2. current' = current
    BY <1>0, <1>1, PlanStepKeepsVersion DEF planVars
  <1>3. link' \in [Plans -> [Venues -> Subs \union {"none"}]]
    <2> DEFINE p == w.plan
               v == VenueOf[w.sub]
               x == w.sub
    <2>1. link' = [link EXCEPT ![p][v] = x] \/ link' = link
      BY <1>1 DEF PlanOperation
    <2>2. p \in Plans /\ v \in Venues /\ x \in Subs \union {"none"}
      BY <1>0, FlowAssumption
    <2>3. link \in [Plans -> [Venues -> Subs \union {"none"}]]
      BY DEF FlowInv, Types
    <2> HIDE DEF p, v, x
    <2>4. [link EXCEPT ![p][v] = x] \in [Plans -> [Venues -> Subs \union {"none"}]]
      BY <2>2, <2>3, LinkUpdate
    <2> QED  BY <2>1, <2>3, <2>4, Zenon
  <1>4. Created' = Created /\ uploads' = uploads /\ current \in Nat
    BY <1>1 DEF Created, packetVars, textVars, FlowInv, Types
  <1>5. request' = [q \in Requests |-> request'[q]] /\ Handlers' /\ RowHeld'
    <2>1. PlaceOK(Idle, current', uploads', Created') /\ ~Changing(Idle)
      BY DEF PlaceOK, Idle, Changing
    <2>2. current' \in Nat /\ current <= current' /\ Created \subseteq Created'
      BY <1>2, <1>4
    <2>3. \A q \in Requests \ {r} : Changing(request[q]) => UNCHANGED <<current, uploads>> /\ ~Changing(Idle)
      BY <1>2, <1>4, <2>1
    <2> QED  BY <1>1, <2>1, <2>2, <2>3, HandlerGoes
  <1>6. Types' /\ Packets'
    BY <1>1, <1>2, <1>3, <1>4, <1>5 DEF FlowInv, Types, Packets, packetVars, textVars
  <1> QED  BY <1>5, <1>6 DEF FlowInv

LEMMA CommitStep ==
    ASSUME FlowInv, NEW r \in Requests, ChangeCommits(r)
    PROVE  FlowInv'
  <1> DEFINE w == request[r]
             version == ChangedVersion(w.kind)
  <1>0. /\ PlaceOK(w, current, uploads, Created) /\ w.at = "reset" /\ Changing(w)
        /\ \A q \in Requests \ {r} : ~Changing(request[q])
    BY DEF FlowInv, Handlers, ChangeCommits, RowHeld, Changing
  <1>1. /\ w.listed \subseteq Created /\ w.kind \in {"edit", "version"} /\ uploads < MaxUploads
        /\ w.kind = "version" => current < MaxVersion
    BY <1>0 DEF PlaceOK
  <1>2. current \in 1..MaxVersion /\ MaxVersion \in Nat /\ uploads \in 1..MaxUploads /\ MaxUploads \in Nat
    BY FlowAssumption DEF FlowInv, Types
  <1>3. current' = version /\ version \in 1..MaxVersion /\ current <= version
    BY <1>1, <1>2 DEF ChangeCommits, ChangedVersion, Plan!AddVersion
  <1>4. uploads' = uploads + 1 /\ uploads' \in 1..MaxUploads
    BY <1>1, <1>2 DEF ChangeCommits
  <1>5. /\ \A s \in Subs : subStatus'[s] = IF s \in w.listed THEN "draft" ELSE subStatus[s]
        /\ \A s \in Subs : subVersion'[s] = IF s \in w.listed /\ w.kind = "version" THEN version ELSE subVersion[s]
        /\ subStatus' \in [Subs -> SubStatuses] /\ subVersion' \in [Subs -> 0..MaxVersion]
    BY <1>3 DEF ChangeCommits, FlowInv, Types, SubStatuses, EditableStatuses
  <1>6. Created' = Created
    BY <1>1, <1>5 DEF Created
  <1>7. text' \in [1..MaxVersion -> 0..MaxUploads] /\ UNCHANGED <<link, job>>
    <2>1. UNCHANGED <<link, job>>
      BY DEF ChangeCommits
    <2>3. text' = [text EXCEPT ![version] = uploads + 1] /\ uploads + 1 \in 0..MaxUploads
      BY <1>2, <1>4 DEF ChangeCommits
    <2> HIDE DEF version
    <2>4. text' \in [1..MaxVersion -> 0..MaxUploads]
      BY <2>3 DEF FlowInv, Types
    <2> QED  BY <2>1, <2>4
  <1>8. request' = [q \in Requests |-> request'[q]] /\ Handlers' /\ RowHeld'
    <2>1. PlaceOK(Idle, current', uploads', Created') /\ ~Changing(Idle)
      BY DEF PlaceOK, Idle, Changing
    <2>2. current' \in Nat /\ current <= current' /\ Created \subseteq Created'
      BY <1>3, <1>6
    <2> QED  BY <1>0, <2>1, <2>2, HandlerGoes DEF ChangeCommits, Goto
  <1>9. Types'
    BY <1>3, <1>4, <1>5, <1>7, <1>8 DEF FlowInv, Types
  <1>10. Packets'
    <2>1. \A s \in Subs : subVersion[s] \in 1..current => subVersion[s] \in 1..current'
      BY <1>2, <1>3
    <2>2. version \in 1..current'
      BY <1>3
    <2> QED  BY <1>1, <1>5, <1>6, <1>7, <2>1, <2>2 DEF FlowInv, Packets
  <1> QED  BY <1>8, <1>9, <1>10 DEF FlowInv

\* The assessment of a packet, and the author's own steps on the plan.
LEMMA AssessmentSteps ==
    ASSUME FlowInv, NEW s \in Subs, QueueAssessment(s) \/ WorkerStep(s)
    PROVE  FlowInv'
  <1>1. UNCHANGED <<current, link, subVersion, text, uploads, request>>
    BY DEF QueueAssessment, WorkerStep, AssessmentStarts, AssessmentFinishes, AssessmentStops,
       planVars, packetVars, textVars
  <1>2. s \in Created
    BY DEF QueueAssessment, WorkerStep, AssessmentStarts, AssessmentFinishes, AssessmentStops,
       Created, FlowInv, Packets
  <1>4. /\ job' \in [Subs -> {"none", "queued", "running"}] /\ subStatus' \in [Subs -> SubStatuses]
        /\ \A t \in Subs : t # s => job'[t] = job[t]
    <2>2. CASE QueueAssessment(s)
      BY <2>2 DEF FlowInv, Types, QueueAssessment, packetVars
    <2>3. CASE AssessmentStarts(s)
      BY <2>3 DEF FlowInv, Types, AssessmentStarts, packetVars
    <2>4. CASE AssessmentFinishes(s)
      BY <2>4 DEF FlowInv, Types, AssessmentFinishes, SubStatuses, EditableStatuses
    <2>5. CASE AssessmentStops(s)
      BY <2>5 DEF FlowInv, Types, AssessmentStops, packetVars
    <2> QED  BY <2>2, <2>3, <2>4, <2>5 DEF WorkerStep
  <1>5. Created' = Created
    BY DEF QueueAssessment, WorkerStep, AssessmentStarts, AssessmentFinishes, AssessmentStops, packetVars,
       FlowInv, Types, Created
  <1>6. request' = [q \in Requests |-> request'[q]] /\ Handlers' /\ RowHeld'
    BY <1>1, <1>5, HandlersStay
  <1>7. Types' /\ Packets'
    BY <1>1, <1>2, <1>4, <1>5, <1>6 DEF FlowInv, Types, Packets
  <1> QED  BY <1>6, <1>7 DEF FlowInv

LEMMA AuthorStep ==
    ASSUME FlowInv, AuthorPlans \/ UNCHANGED vars
    PROVE  FlowInv'
  <1>1. UNCHANGED <<current, link, packetVars, textVars, job, request>>
    BY PlanStepKeepsVersion DEF AuthorPlans, vars, planVars
  <1>2. Created' = Created /\ uploads' = uploads
    BY <1>1 DEF Created, packetVars, textVars
  <1>3. request' = [q \in Requests |-> request'[q]] /\ Handlers' /\ RowHeld'
    BY <1>1, <1>2, HandlersStay
  <1> QED  BY <1>1, <1>2, <1>3 DEF FlowInv, Types, Packets, packetVars, textVars

LEMMA FlowStep == FlowInv /\ [Next]_vars => FlowInv'
  BY ReadingSteps, InsertStep, SaveStep, ApplyStep, CommitStep, AssessmentSteps, AuthorStep
  DEF Next, RequestStep

\* What holds of packets and handlers, however many web workers there are.
THEOREM FlowInvariance == Spec => []FlowInv
  BY FlowInit, FlowStep, PTL DEF Spec

(***************************************************************************)
(* What the row locks keep as it was read.                                 *)
(***************************************************************************)

\* An edit or upload has listed every packet that is still unsent when it commits.
Emptied ==
    \A r \in Requests : request[r].at = "reset" =>
        \A s \in Subs : Editable(s) => s \in request[r].listed

\* Plans are built on versions that exist, and none is active on the text that
\* is being edited.
BuiltOn ==
    /\ status = [p \in Plans |-> status[p]]
    /\ builtOn \in [Plans -> 0..current]
Unplanned ==
    \A r \in Requests : Changing(request[r]) /\ request[r].kind = "edit" =>
        \A p \in Plans : status[p] = "active" => builtOn[p] # current

\* A draft is inserted once, and the packet it transfers is still declined.
Sources ==
    \A r \in Creating :
        /\ subStatus[request[r].sub] = "none"
        /\ request[r].from # "none" =>
              /\ subStatus[request[r].from] \in {"rejected", "revision_requested"}
              /\ ~Listed(request[r].from)
        /\ \A q \in Creating \ {r} :
              /\ request[q].sub # request[r].sub
              /\ request[q].from = request[r].from => request[r].from = "none"

HeldInv == Emptied /\ BuiltOn /\ Unplanned /\ Sources

LEMMA HeldInit == Init => HeldInv
  <1> SUFFICES ASSUME Init PROVE HeldInv
    OBVIOUS
  <1>1. \A r \in Requests : request[r].at = "idle"
    BY DEF Init, Idle
  <1>2. Emptied /\ Unplanned /\ Sources
    BY <1>1 DEF Emptied, Unplanned, Sources, Creating, Changing
  <1>3. BuiltOn
    BY DEF Init, Plan!Init, BuiltOn, Plans, Plan!Plans
  <1> QED  BY <1>2, <1>3 DEF HeldInv

\* A handler that goes on, seen from the others.
LEMMA OthersStay ==
    ASSUME FlowInv, NEW r \in Requests, NEW where, Goto(r, where)
    PROVE  request'[r] = where /\ \A q \in Requests \ {r} : request'[q] = request[q]
  BY DEF FlowInv, Types, Goto

\* Where the handlers go that draft and list nothing.
LEMMA OthersGo ==
    ASSUME NEW r \in Requests,
           \/ EditChecks(r) \/ UploadChecks(r) \/ SyncReads(r) \/ SyncApplies(r)
           \/ \E s \in Subs : \/ SubmitLoads(r, s) \/ StartReviewLoads(r, s)
                            \/ \E decision \in DecisionStatuses : DecisionLoads(r, s, decision)
    PROVE  \E where : /\ Goto(r, where) /\ where.at \notin {"create", "reset"}
                      /\ Changing(where) => EditChecks(r) \/ where.kind = "version"
  <1> DEFINE Fits(where) == /\ where.at \notin {"create", "reset"}
                            /\ Changing(where) => EditChecks(r) \/ where.kind = "version"
  <1>1. /\ EditChecks(r) => Fits(AtChange("edit"))
        /\ Fits(AtChange("version")) /\ Fits(Idle)
    BY DEF AtChange, Idle, Changing
  <1>2. /\ \A w, p, op : Fits(AtApply(w, p, op))
        /\ \A s, n, goal : Fits(AtSave(s, n, goal))
    BY DEF AtApply, AtSave, Changing
  <1> HIDE DEF Fits
  <1>3. CASE EditChecks(r) \/ UploadChecks(r)
    BY <1>1, <1>3 DEF EditChecks, UploadChecks, Fits
  <1>4. CASE SyncReads(r) \/ SyncApplies(r)
    <2>1. \/ Goto(r, Idle)
          \/ \E p, op : Goto(r, AtApply(request[r], p, op))
      BY <1>4 DEF SyncReads, SyncApplies
    <2> QED  BY <1>1, <1>2, <2>1 DEF Fits
  <1>5. CASE \E s \in Subs : \/ SubmitLoads(r, s) \/ StartReviewLoads(r, s)
                            \/ \E decision \in DecisionStatuses : DecisionLoads(r, s, decision)
    <2>1. \E s, n, goal : Goto(r, AtSave(s, n, goal))
      BY <1>5 DEF SubmitLoads, StartReviewLoads, DecisionLoads
    <2> QED  BY <1>2, <2>1 DEF Fits
  <1> QED  BY <1>3, <1>4, <1>5

\* The two that draft a packet.
LEMMA DraftersGo ==
    ASSUME NEW r \in Requests, NEW s \in Subs,
           CreateRead(r, s) \/ \E t \in Subs : TransferRead(r, s, t)
    PROVE  \E where : Goto(r, where) /\ where.at = "create"
  <1>1. \E t, n, from : Goto(r, AtCreate(t, n, from))
    BY DEF CreateRead, TransferRead
  <1>2. \A t, n, from : AtCreate(t, n, from).at = "create"
    BY DEF AtCreate
  <1> QED  BY <1>1, <1>2

LEMMA EmptiedStep ==
    ASSUME FlowInv, Emptied, [Next]_vars
    PROVE  Emptied'
  <1>1. ASSUME NEW r \in Requests, NEW where, Goto(r, where), subStatus' = subStatus,
               where.at = "reset" => \A s \in Subs : Editable(s) => s \in where.listed
        PROVE  Emptied'
    BY <1>1, OthersStay DEF Emptied, Editable
  <1>2. ASSUME NEW r \in Requests, ChangeLists(r)
        PROVE  Emptied'
    BY <1>1, <1>2 DEF ChangeLists, AtReset, packetVars
  <1>3. ASSUME NEW r \in Requests, CreateInsert(r)
        PROVE  Emptied'
    <2>1. \A q \in Requests : request'[q].at # "reset"
      BY <1>3, OthersStay DEF CreateInsert, RowUnlocked, Idle
    <2> QED  BY <2>1 DEF Emptied
  <1>4. ASSUME NEW r \in Requests, ChangeCommits(r)
        PROVE  Emptied'
    <2>1. \A q \in Requests : request'[q].at # "reset"
      BY <1>4, OthersStay DEF ChangeCommits, FlowInv, RowHeld, Changing, Idle
    <2> QED  BY <2>1 DEF Emptied
  <1>5. ASSUME NEW r \in Requests, Save(r)
        PROVE  Emptied'
    <2>1. request[r].goal \notin EditableStatuses
      BY <1>5 DEF Save, FlowInv, Handlers, PlaceOK, Goals, EditableStatuses, DecisionStatuses
    <2>2. \A s \in Subs : subStatus'[s] \in EditableStatuses => Editable(s)
      BY <1>5, <2>1 DEF Save, FlowInv, Types, Editable
    <2>3. request'[r].at # "reset" /\ \A q \in Requests \ {r} : request'[q] = request[q]
      BY <1>5, OthersStay DEF Save, AtSync
    <2> QED  BY <2>2, <2>3 DEF Emptied, Editable
  <1>6. ASSUME NEW s \in Subs, QueueAssessment(s) \/ WorkerStep(s)
        PROVE  Emptied'
    <2>1. request' = request /\ \A t \in Subs : subStatus'[t] \in EditableStatuses => Editable(t)
      BY <1>6 DEF QueueAssessment, WorkerStep, AssessmentStarts, AssessmentFinishes, AssessmentStops,
         packetVars, FlowInv, Types, Editable, EditableStatuses
    <2> QED  BY <2>1 DEF Emptied, Editable
  <1>7. CASE AuthorPlans \/ UNCHANGED vars
    BY <1>7 DEF AuthorPlans, vars, packetVars, Emptied, Editable
  <1>8. ASSUME NEW r \in Requests, EditChecks(r) \/ UploadChecks(r) \/ SyncReads(r)
        PROVE  Emptied'
    <2>1. PICK where : Goto(r, where) /\ where.at # "reset"
      BY <1>8, OthersGo
    <2> QED  BY <1>1, <1>8, <2>1 DEF EditChecks, UploadChecks, SyncReads, packetVars
  <1>9. ASSUME NEW r \in Requests, SyncApplies(r)
        PROVE  Emptied'
    BY <1>1, <1>9 DEF SyncApplies, packetVars, Idle
  <1>10. ASSUME NEW r \in Requests, NEW s \in Subs,
                \/ CreateRead(r, s)
                \/ \E t \in Subs : TransferRead(r, s, t)
                \/ SubmitLoads(r, s) \/ StartReviewLoads(r, s)
                \/ \E decision \in DecisionStatuses : DecisionLoads(r, s, decision)
         PROVE  Emptied'
    <2>1. PICK where : Goto(r, where) /\ where.at # "reset"
      BY <1>10, OthersGo, DraftersGo
    <2> QED  BY <1>1, <1>10, <2>1
             DEF CreateRead, TransferRead, SubmitLoads, StartReviewLoads, DecisionLoads, packetVars
  <1> QED  BY <1>2, <1>3, <1>4, <1>5, <1>6, <1>7, <1>8, <1>9, <1>10 DEF Next, RequestStep

\* Only the plan that is built becomes active, and it is built on the current version.
LEMMA ActivePlans ==
    ASSUME FlowInv, BuiltOn,
           PlanStep \/ \E p \in Plans, s \in Subs, op \in Ops : \E n : PlanOperation(p, s, n, op)
    PROVE  /\ BuiltOn'
           /\ ~RowUnlocked => \A p \in Plans : status'[p] = "active" =>
                                 status[p] = "active" /\ builtOn'[p] = builtOn[p]
  <1>0. current \in Nat /\ current' = current
    BY PlanStepKeepsVersion DEF FlowInv, Types
  <1>1. ASSUME NEW p \in Plans, NEW v,
               \/ Plan!Start(p, v) \/ (\E n : Plan!MarkSubmitted(p, v, n) \/ Plan!Resubmit(p, v, n))
               \/ Plan!MarkUnderReview(p, v) \/ Plan!ReportAccepted(p, v)
               \/ (\E outcome : Plan!ReportOutcome(p, v, outcome))
               \/ Plan!AnswerUnchanged(p, v) \/ (\E n, ranking : Plan!AnswerRevised(p, v, n, ranking))
               \/ Plan!Skip(p, v) \/ Plan!Stop(p)
        PROVE  /\ builtOn' = builtOn /\ status' = [q \in Plans |-> status'[q]]
               /\ \A q \in Plans : status'[q] = "active" => status[q] = "active"
    BY <1>1 DEF BuiltOn, Plan!Start, Plan!MarkSubmitted, Plan!MarkUnderReview, Plan!ReportAccepted,
       Plan!ReportOutcome, Plan!Resubmit, Plan!AnswerUnchanged, Plan!AnswerRevised, Plan!Skip, Plan!Stop
  <1>2. CASE \E p \in Plans, s \in Subs, op \in Ops : \E n : PlanOperation(p, s, n, op)
    BY <1>0, <1>1, <1>2 DEF PlanOperation, BuiltOn
  <1>3. CASE \E p \in Plans, v \in Venues : Plan!PositionStep(p, v)
    BY <1>0, <1>1, <1>3 DEF Plan!PositionStep, BuiltOn
  <1>4. CASE \E p \in Plans : Plan!Stop(p)
    BY <1>0, <1>1, <1>4 DEF BuiltOn
  <1>5. CASE Plan!CheckReadiness \/ Plan!GenerateMatches
    BY <1>0, <1>5 DEF Plan!CheckReadiness, Plan!GenerateMatches, Plan!planVars, BuiltOn
  <1>6. ASSUME NEW p \in Plans, NEW ranking, NEW replace, RowUnlocked, Plan!BuildPlan(p, ranking, replace)
        PROVE  BuiltOn'
    BY <1>0, <1>6 DEF Plan!BuildPlan, Plan!InPlaceOfActive, BuiltOn, Plans, Plan!Plans
  <1> QED  BY <1>2, <1>3, <1>4, <1>5, <1>6 DEF PlanStep

LEMMA UnplannedStep ==
    ASSUME FlowInv, BuiltOn, Unplanned, [Next]_vars
    PROVE  BuiltOn' /\ Unplanned'
  <1> DEFINE Safe(w) == Changing(w) /\ w.kind = "edit" =>
                           \A p \in Plans : status[p] = "active" => builtOn[p] # current
  <1>1. ASSUME NEW r \in Requests, NEW where, Goto(r, where), UNCHANGED <<current, status, builtOn>>,
               Safe(where)
        PROVE  BuiltOn' /\ Unplanned'
    BY <1>1, OthersStay DEF BuiltOn, Unplanned
  <1>2. ASSUME NEW r \in Requests, EditChecks(r)
        PROVE  BuiltOn' /\ Unplanned'
    <2>1. Safe(AtChange("edit"))
      BY <1>2 DEF EditChecks, VersionLocked
    <2> QED  BY <1>1, <1>2, <2>1 DEF EditChecks, planVars, positionVars
  <1>3. ASSUME NEW r \in Requests, ChangeLists(r)
        PROVE  BuiltOn' /\ Unplanned'
    <2> DEFINE where == AtReset(request[r].kind, {s \in Subs : Editable(s)})
    <2>1. Safe(where)
      BY <1>3 DEF ChangeLists, AtReset, Changing, Unplanned
    <2>2. Goto(r, where) /\ UNCHANGED <<current, status, builtOn>>
      BY <1>3 DEF ChangeLists, planVars, positionVars
    <2> HIDE DEF where, Safe
    <2> QED  BY <1>1, <2>1, <2>2
  <1>4. ASSUME NEW r \in Requests,
               \/ UploadChecks(r) \/ CreateInsert(r) \/ Save(r) \/ SyncReads(r)
               \/ \E s \in Subs :
                     \/ CreateRead(r, s)
                     \/ \E t \in Subs : TransferRead(r, s, t)
                     \/ SubmitLoads(r, s) \/ StartReviewLoads(r, s)
                     \/ \E decision \in DecisionStatuses : DecisionLoads(r, s, decision)
        PROVE  BuiltOn' /\ Unplanned'
    <2>1. PICK where : /\ Goto(r, where)
                       /\ (Changing(where) => where.kind = "version") \/ EditChecks(r)
      <3>1. CASE CreateInsert(r) \/ Save(r)
        <4>1. Goto(r, Idle) \/ Goto(r, AtSync(request[r]))
          BY <3>1 DEF CreateInsert, Save
        <4>2. ~Changing(Idle) /\ ~Changing(AtSync(request[r]))
          BY DEF Idle, AtSync, Changing
        <4> QED  BY <4>1, <4>2
      <3>2. CASE ~(CreateInsert(r) \/ Save(r))
        <4>1. \A where : where.at = "create" => ~Changing(where)
          BY DEF Changing
        <4> QED  BY <1>4, <3>2, <4>1, OthersGo, DraftersGo
      <3> QED  BY <3>1, <3>2
    <2>2. UNCHANGED <<current, status, builtOn>>
      BY <1>4 DEF UploadChecks, CreateInsert, Save, SyncReads, CreateRead, TransferRead, SubmitLoads,
         StartReviewLoads, DecisionLoads, planVars, positionVars
    <2> QED  BY <1>1, <1>2, <2>1, <2>2
  <1>5. ASSUME NEW r \in Requests, ChangeCommits(r)
        PROVE  BuiltOn' /\ Unplanned'
    <2>1. \A q \in Requests : ~Changing(request'[q])
      BY <1>5, OthersStay DEF ChangeCommits, FlowInv, RowHeld, Changing, Idle
    <2>2. UNCHANGED <<status, builtOn>> /\ current \in Nat /\ current' \in Nat /\ current <= current'
      BY <1>5 DEF ChangeCommits, Plan!AddVersion, Plan!planVars, positionVars, FlowInv, Types
    <2>3. BuiltOn'
      BY <2>2 DEF BuiltOn
    <2> QED  BY <2>1, <2>3 DEF Unplanned
  <1>6. ASSUME NEW r \in Requests, SyncApplies(r)
        PROVE  BuiltOn' /\ Unplanned'
    <2> DEFINE w == request[r]
    <2>1. w.sub \in Subs /\ w.plan \in Plans /\ w.op \in Ops
      BY <1>6 DEF FlowInv, Handlers, SyncApplies, PlaceOK, Created
    <2>2. CASE UNCHANGED planVars
      BY <1>1, <1>6, <2>2 DEF SyncApplies, Idle, Changing, planVars, positionVars
    <2>3. CASE PlanOperation(w.plan, w.sub, w.version, w.op)
      <3>1. \E p \in Plans, s \in Subs, op \in Ops : \E n : PlanOperation(p, s, n, op)
        BY <2>1, <2>3
      <3>2. current' = current
        BY <3>1, PlanStepKeepsVersion
      <3>3. \A q \in Requests : Changing(request'[q]) => request'[q] = request[q] /\ ~RowUnlocked
        BY <1>6, OthersStay DEF SyncApplies, Idle, Changing, RowUnlocked
      <3>4. BuiltOn' /\ (~RowUnlocked => \A p \in Plans : status'[p] = "active" =>
                            status[p] = "active" /\ builtOn'[p] = builtOn[p])
        BY <3>1, ActivePlans
      <3> QED  BY <3>2, <3>3, <3>4 DEF Unplanned
    <2> QED  BY <1>6, <2>2, <2>3 DEF SyncApplies
  <1>7. CASE AuthorPlans
    <2>1. request' = request /\ current' = current
      BY <1>7, PlanStepKeepsVersion DEF AuthorPlans
    <2>2. \A q \in Requests : Changing(request[q]) => ~RowUnlocked
      BY DEF Changing, RowUnlocked
    <2>3. BuiltOn' /\ (~RowUnlocked => \A p \in Plans : status'[p] = "active" =>
                          status[p] = "active" /\ builtOn'[p] = builtOn[p])
      BY <1>7, ActivePlans DEF AuthorPlans
    <2> QED  BY <2>1, <2>2, <2>3 DEF Unplanned
  <1>8. ASSUME NEW s \in Subs, QueueAssessment(s) \/ WorkerStep(s)
        PROVE  BuiltOn' /\ Unplanned'
    BY <1>8 DEF QueueAssessment, WorkerStep, AssessmentStarts, AssessmentFinishes, AssessmentStops,
       planVars, positionVars, BuiltOn, Unplanned
  <1>9. CASE UNCHANGED vars
    BY <1>9 DEF vars, planVars, positionVars, BuiltOn, Unplanned
  <1> HIDE DEF Safe
  <1> QED  BY <1>2, <1>3, <1>4, <1>5, <1>6, <1>7, <1>8, <1>9 DEF Next, RequestStep

LEMMA SourcesStep ==
    ASSUME FlowInv, Sources, [Next]_vars
    PROVE  Sources'
  <1>0. \A r \in Creating : request[r].sub \in Subs /\ request[r].from \in Created \union {"none"}
    BY DEF FlowInv, Handlers, PlaceOK, Creating
  \* Nothing is drafted anew, and what is being drafted or transferred stays as it is.
  <1>1. ASSUME NEW r \in Requests, NEW where, Goto(r, where), where.at # "create",
               \A q \in Creating \ {r} :
                  /\ subStatus'[request[q].sub] = subStatus[request[q].sub]
                  /\ request[q].from # "none" => subStatus'[request[q].from] = subStatus[request[q].from],
               where.at = "reset" => \A q \in Creating : request[q].from \notin where.listed
        PROVE  Sources'
    <2>1. request'[r] = where /\ \A q \in Requests \ {r} : request'[q] = request[q]
      BY <1>1, OthersStay
    <2>2. Creating' \subseteq Creating \ {r}
      BY <1>1, <2>1 DEF Creating
    <2>3. \A q \in Creating' : request'[q].from # "none" =>
             \A z \in Requests : request'[z].at = "reset" => request'[q].from \notin request'[z].listed
      BY <1>1, <2>1, <2>2 DEF Sources, Listed, Creating
    <2> QED  BY <1>1, <2>1, <2>2, <2>3 DEF Sources, Creating, Listed
  <1>2. ASSUME NEW r \in Requests, EditChecks(r) \/ UploadChecks(r) \/ SyncReads(r) \/ SyncApplies(r)
        PROVE  Sources'
    <2>1. PICK where : Goto(r, where) /\ where.at \notin {"create", "reset"}
      BY <1>2, OthersGo
    <2>2. subStatus' = subStatus
      BY <1>2 DEF EditChecks, UploadChecks, SyncReads, SyncApplies, packetVars
    <2> QED  BY <1>1, <2>1, <2>2
  <1>3. ASSUME NEW r \in Requests, NEW s \in Subs,
               \/ SubmitLoads(r, s) \/ StartReviewLoads(r, s)
               \/ \E decision \in DecisionStatuses : DecisionLoads(r, s, decision)
        PROVE  Sources'
    <2>1. PICK where : Goto(r, where) /\ where.at \notin {"create", "reset"}
      BY <1>3, OthersGo
    <2>2. subStatus' = subStatus
      BY <1>3 DEF SubmitLoads, StartReviewLoads, DecisionLoads, packetVars
    <2> QED  BY <1>1, <2>1, <2>2
  <1>4. ASSUME NEW r \in Requests, ChangeLists(r)
        PROVE  Sources'
    <2> DEFINE where == AtReset(request[r].kind, {s \in Subs : Editable(s)})
    <2>1. Goto(r, where) /\ subStatus' = subStatus /\ where.at = "reset"
      BY <1>4 DEF ChangeLists, AtReset, packetVars
    <2>2. \A q \in Creating : request[q].from \notin where.listed
      BY <1>0, FlowAssumption DEF AtReset, Sources, Editable, EditableStatuses
    <2> HIDE DEF where
    <2> QED  BY <1>1, <2>1, <2>2
  <1>5. ASSUME NEW r \in Requests, Save(r)
        PROVE  Sources'
    <2>1. Goto(r, AtSync(request[r])) /\ AtSync(request[r]).at \notin {"create", "reset"}
      BY <1>5 DEF Save, AtSync
    <2>2. subStatus[request[r].sub] # "none"
      BY <1>5 DEF Save, FlowInv, Handlers, PlaceOK, Created
    <2>3. \A q \in Creating : request[q].sub # request[r].sub /\ request[q].from # request[r].sub
      BY <1>5, <2>2 DEF Save, PacketUnlocked, Sources
    <2>4. \A s \in Subs : s # request[r].sub => subStatus'[s] = subStatus[s]
      BY <1>5 DEF Save, FlowInv, Types
    <2> QED  BY <1>0, <1>1, <2>1, <2>3, <2>4 DEF Created
  <1>6. ASSUME NEW r \in Requests, ChangeCommits(r)
        PROVE  Sources'
    <2>1. Goto(r, Idle) /\ Idle.at \notin {"create", "reset"}
      BY <1>6 DEF ChangeCommits, Idle
    <2>2. request[r].listed \subseteq Created
      BY <1>6 DEF ChangeCommits, FlowInv, Handlers, PlaceOK
    <2>3. \A q \in Creating : request[q].sub \notin request[r].listed /\
                              (request[q].from # "none" => request[q].from \notin request[r].listed)
      BY <1>6, <2>2 DEF ChangeCommits, Sources, Created, Listed
    <2>4. \A s \in Subs : s \notin request[r].listed => subStatus'[s] = subStatus[s]
      BY <1>6 DEF ChangeCommits
    <2> QED  BY <1>0, <1>1, <2>1, <2>3, <2>4 DEF Created
  <1>7. ASSUME NEW r \in Requests, CreateInsert(r)
        PROVE  Sources'
    <2>1. Goto(r, Idle) /\ Idle.at \notin {"create", "reset"} /\ r \in Creating
      BY <1>7 DEF CreateInsert, Idle, Creating
    <2>2. \A s \in Subs : s # request[r].sub /\ s # request[r].from => subStatus'[s] = subStatus[s]
      BY <1>7 DEF CreateInsert
    <2>3. \A q \in Creating \ {r} :
             /\ request[q].sub # request[r].sub /\ request[q].sub # request[r].from
             /\ request[q].from # "none" =>
                   request[q].from # request[r].sub /\ request[q].from # request[r].from
      BY <2>1, <1>0, FlowAssumption DEF Sources, Created
    <2> QED  BY <1>0, <1>1, <2>1, <2>2, <2>3 DEF Created
  <1>8. ASSUME NEW r \in Requests, NEW t \in Subs, NEW n, NEW from \in Subs \union {"none"}, Free(r),
               Goto(r, AtCreate(t, n, from)), NotCreated(t), subStatus' = subStatus,
               from # "none" => /\ subStatus[from] \in {"rejected", "revision_requested"}
                                /\ PacketUnlocked(from) /\ ~Listed(from)
        PROVE  Sources'
    <2> DEFINE where == AtCreate(t, n, from)
    <2>1. request'[r] = where /\ \A q \in Requests \ {r} : request'[q] = request[q]
      BY <1>8, OthersStay
    <2>2. where.at = "create" /\ where.sub = t /\ where.from = from
      BY DEF AtCreate
    <2>3. r \notin Creating /\ Creating' = Creating \union {r}
      BY <1>8, <2>1, <2>2 DEF Creating, Free, Idle
    <2>4. \A s : Listed(s)' => Listed(s)
      BY <2>1, <2>2 DEF Listed
    <2>5. \A q \in Creating : request[q].sub # t /\ (from # "none" => request[q].from # from)
      BY <1>8 DEF NotCreated, PacketUnlocked
    <2> HIDE DEF where
    <2>6. \A q \in Creating : request'[q] = request[q]
      BY <2>1, <2>3 DEF Creating
    <2>7. subStatus'[t] = "none"
      BY <1>8 DEF NotCreated
    <2> QED  BY <1>8, <2>1, <2>2, <2>3, <2>4, <2>5, <2>6, <2>7 DEF Sources
  <1>9. ASSUME NEW r \in Requests, NEW s \in Subs,
               CreateRead(r, s) \/ \E t \in Subs : TransferRead(r, s, t)
        PROVE  Sources'
    <2>1. CASE CreateRead(r, s)
      BY <1>8, <2>1 DEF CreateRead, packetVars
    <2>2. ASSUME NEW t \in Subs, TransferRead(r, s, t)
          PROVE  Sources'
      BY <1>8, <2>2 DEF TransferRead, packetVars
    <2> QED  BY <1>9, <2>1, <2>2
  <1>10. ASSUME NEW s \in Subs, QueueAssessment(s) \/ WorkerStep(s)
         PROVE  Sources'
    <2>1. /\ request' = request
          /\ \A t \in Subs : subStatus'[t] # subStatus[t] => subStatus[t] = "draft"
      BY <1>10 DEF QueueAssessment, WorkerStep, AssessmentStarts, AssessmentFinishes, AssessmentStops,
         packetVars, FlowInv, Types
    <2> QED  BY <1>0, <2>1 DEF Sources, Creating, Listed, Created
  <1>11. CASE AuthorPlans \/ UNCHANGED vars
    BY <1>11 DEF AuthorPlans, vars, packetVars, Sources, Creating, Listed
  <1> QED  BY <1>2, <1>3, <1>4, <1>5, <1>6, <1>7, <1>9, <1>10, <1>11 DEF Next, RequestStep

\* What a lock protects stays as its holder read it, however many handlers overlap.
THEOREM HeldInvariance == Spec => []HeldInv
  <1>1. FlowInv /\ HeldInv /\ [Next]_vars => HeldInv'
    BY EmptiedStep, UnplannedStep, SourcesStep DEF HeldInv
  <1> QED  BY <1>1, HeldInit, FlowInvariance, PTL DEF Spec

(***************************************************************************)
(* The plans of the flow are plans of SubmissionPlan.                      *)
(***************************************************************************)

\* What the sync asks of a plan is a step of the plan, for a version of the packet.
LEMMA OperationIsLegal ==
    ASSUME FlowInv, NEW p \in Plans, NEW s \in Created, NEW op \in Ops, NEW n,
           PlanOperation(p, s, n, op), op = "submitted" => n \in 1..current
    PROVE  Plan!Next
  <1>1. s \in Subs /\ VenueOf[s] \in Venues /\ p \in Plan!Plans
    BY FlowAssumption DEF Created, Plans, Plan!Plans
  <1>2. op = "submitted" => n \in Plan!Versions
    BY FlowAssumption DEF FlowInv, Types, Plan!Versions
  <1>3. Plan!PositionStep(p, VenueOf[s])
    BY <1>2 DEF PlanOperation, Plan!PositionStep
  <1> QED  BY <1>1, <1>3 DEF Plan!Next

LEMMA FlowStepIsLegal == FlowInv /\ Unplanned /\ [Next]_vars => [Plan!Next]_Plan!vars
  <1> SUFFICES ASSUME FlowInv, Unplanned, [Next]_vars PROVE Plan!Next \/ UNCHANGED planVars
    BY DEF planVars, positionVars, Plan!vars
  <1>1. ASSUME NEW r \in Requests, SyncApplies(r)
        PROVE  Plan!Next \/ UNCHANGED planVars
    <2>1. /\ request[r].plan \in Plans /\ request[r].sub \in Created /\ request[r].op \in Ops
          /\ request[r].op = "submitted" => request[r].version \in 1..current
      BY <1>1 DEF FlowInv, Handlers, PlaceOK, SyncApplies
    <2>2. \/ PlanOperation(request[r].plan, request[r].sub, request[r].version, request[r].op)
          \/ UNCHANGED planVars
      BY <1>1 DEF SyncApplies
    <2> QED  BY <2>1, <2>2, OperationIsLegal
  <1>2. ASSUME NEW r \in Requests, ChangeCommits(r)
        PROVE  Plan!Next
    <2>1. CASE request[r].kind = "version"
      BY <1>2, <2>1 DEF ChangeCommits, Plan!Next, Plan!ManuscriptStep
    <2>2. CASE request[r].kind # "version"
      <3>1. \A p \in Plans : status[p] = "active" => builtOn[p] # current
        BY <1>2, <2>2 DEF ChangeCommits, FlowInv, Handlers, PlaceOK, Changing, Unplanned
      <3>2. Plan!EditText
        BY <1>2, <2>2, <3>1
        DEF ChangeCommits, Plan!EditText, Plan!planVars, positionVars, Plans, Plan!Plans
      <3> QED  BY <3>2 DEF Plan!Next, Plan!ManuscriptStep
    <2> QED  BY <2>1, <2>2
  <1>3. CASE AuthorPlans
    BY <1>3 DEF AuthorPlans, PlanStep, Plan!Next, Plan!ManuscriptStep, Plans, Plan!Plans
  <1>4. ASSUME NEW r \in Requests, RequestStep(r), ~SyncApplies(r), ~ChangeCommits(r)
        PROVE  UNCHANGED planVars
    BY <1>4 DEF RequestStep, EditChecks, UploadChecks, ChangeLists, CreateInsert, Save, SyncReads,
       CreateRead, TransferRead, SubmitLoads, StartReviewLoads, DecisionLoads
  <1>5. ASSUME NEW s \in Subs, QueueAssessment(s) \/ WorkerStep(s)
        PROVE  UNCHANGED planVars
    BY <1>5 DEF QueueAssessment, WorkerStep, AssessmentStarts, AssessmentFinishes, AssessmentStops
  <1>6. CASE UNCHANGED vars
    BY <1>6 DEF vars
  <1> QED  BY <1>1, <1>2, <1>3, <1>4, <1>5, <1>6 DEF Next

\* However many handlers overlap, and however old what sync_from_submission
\* read, the plans take only steps of SubmissionPlan.
THEOREM PlanIsLegal == Spec => PlanStaysLegal
  <1>1. Init => Plan!Init
    BY DEF Init
  <1> QED  BY <1>1, FlowInvariance, HeldInvariance, FlowStepIsLegal, PTL DEF Spec, HeldInv, PlanStaysLegal, Plan!Spec

(***************************************************************************)
(* What SubmissionPlanProofs proves of a plan holds of the plans of the    *)
(* flow.  Its module is a second instance of SubmissionPlan.               *)
(***************************************************************************)
PlanProofs == INSTANCE SubmissionPlanProofs

LEMMA SameSteps == [Plan!Next]_Plan!vars => [PlanProofs!Next]_PlanProofs!vars
  BY Zenon
  DEF Plan!Next, Plan!ManuscriptStep, Plan!AddVersion, Plan!EditText, Plan!CheckReadiness,
      Plan!GenerateMatches, Plan!BuildPlan, Plan!ReadyToPlan, Plan!NextPlan, Plan!MayReplace,
      Plan!InPlaceOfActive, Plan!Rankings, Plan!PositionStep, Plan!Start, Plan!FirstQueued,
      Plan!MarkSubmitted, Plan!MarkUnderReview, Plan!ReportAccepted, Plan!ReportOutcome,
      Plan!OutcomeState, Plan!Resubmit, Plan!NewerVersion, Plan!Baseline, Plan!AnswerUnchanged,
      Plan!AnswerRevised, Plan!Reordered, Plan!Skip, Plan!Stop, Plan!HasState, Plan!Move,
      Plan!Plans, Plan!Versions, Plan!Orders, Plan!LiveStates, Plan!WithVenue,
      Plan!manuscriptVars, Plan!answerVars, Plan!planVars, Plan!vars,
      PlanProofs!Next, PlanProofs!ManuscriptStep, PlanProofs!AddVersion, PlanProofs!EditText,
      PlanProofs!CheckReadiness, PlanProofs!GenerateMatches, PlanProofs!BuildPlan,
      PlanProofs!ReadyToPlan, PlanProofs!NextPlan, PlanProofs!MayReplace,
      PlanProofs!InPlaceOfActive, PlanProofs!Rankings, PlanProofs!PositionStep, PlanProofs!Start,
      PlanProofs!FirstQueued, PlanProofs!MarkSubmitted, PlanProofs!MarkUnderReview,
      PlanProofs!ReportAccepted, PlanProofs!ReportOutcome, PlanProofs!OutcomeState,
      PlanProofs!Resubmit, PlanProofs!NewerVersion, PlanProofs!Baseline,
      PlanProofs!AnswerUnchanged, PlanProofs!AnswerRevised, PlanProofs!Reordered, PlanProofs!Skip,
      PlanProofs!Stop, PlanProofs!HasState, PlanProofs!Move, PlanProofs!Plans, PlanProofs!Versions,
      PlanProofs!Orders, PlanProofs!LiveStates, PlanProofs!WithVenue, PlanProofs!manuscriptVars,
      PlanProofs!answerVars, PlanProofs!planVars, PlanProofs!vars

\* The facts about plans that the flow needs.
PlanFacts ==
    /\ Plan!TypeOK

\* The inductive invariant of SubmissionPlan holds of the plans of the flow.
THEOREM PlansKeepInvariant == Spec => []PlanProofs!IInv
  <1>1. PlanProofs!BoundsAssumption
    BY FlowAssumption DEF PlanProofs!BoundsAssumption
  <1>2. Plan!Init => PlanProofs!Init
    BY DEF Plan!Init, PlanProofs!Init, Plan!Plans, PlanProofs!Plans
  <1> QED  BY <1>1, <1>2, SameSteps, PlanIsLegal, PlanProofs!Invariance, PTL
           DEF PlanProofs!Spec, Plan!Spec, PlanStaysLegal

LEMMA FactsOfPlans == PlanProofs!IInv => PlanFacts
  <1> SUFFICES ASSUME PlanProofs!IInv PROVE PlanFacts
    OBVIOUS
  <1>1. Plan!TypeOK
    BY Zenon DEF PlanProofs!IInv, PlanProofs!TypeOK, PlanProofs!Versions, PlanProofs!Plans, PlanProofs!Orders,
       PlanProofs!PlanStatuses, PlanProofs!PositionStates, PlanProofs!LiveStates, PlanProofs!DoneStates,
       PlanProofs!Answers, Plan!TypeOK, Plan!Versions, Plan!Plans, Plan!Orders,
       Plan!PlanStatuses, Plan!PositionStates, Plan!LiveStates, Plan!DoneStates, Plan!Answers
  <1> QED  BY <1>1 DEF PlanProofs!IInv, PlanProofs!OneActivePlan, PlanProofs!Bookkeeping,
              PlanProofs!Plans, Plans, PlanFacts

\* Every reachable state of the flow is well typed.
THEOREM TypeCorrect == Spec => []TypeOK
  <1>1. FlowInv /\ PlanFacts => TypeOK
    BY DEF FlowInv, PlanFacts, Types, Handlers, PlaceOK, TypeOK
  <1> QED  BY <1>1, FlowInvariance, PlansKeepInvariant, FactsOfPlans, PTL

(***************************************************************************)
(* What a new text and a transfer may do.                                  *)
(***************************************************************************)

\* Only the commit of an edit or upload writes a text.
LEMMA TextsAreCommitted ==
    ASSUME [Next]_vars, UNCHANGED textVars => FALSE
    PROVE  \E r \in Requests : ChangeCommits(r)
  BY DEF Next, RequestStep, EditChecks, UploadChecks, ChangeLists, CreateInsert, Save, SyncReads,
     SyncApplies, CreateRead, TransferRead, SubmitLoads, StartReviewLoads, DecisionLoads,
     QueueAssessment, WorkerStep, AssessmentStarts, AssessmentFinishes, AssessmentStops,
     AuthorPlans, vars

\* A new text takes every unsent packet with it (author_update_manuscript,
\* create_new_version), however many handlers overlap.
THEOREM DraftsAreEmptied == Spec => ChangeEmptiesDrafts
  <1>1. FlowInv /\ HeldInv /\ [Next]_vars =>
          [uploads' # uploads =>
              \A s \in Subs :
                 subStatus'[s] \in EditableStatuses =>
                    /\ subStatus'[s] = "draft"
                    /\ current' # current => subVersion'[s] = current']_vars
    <2> SUFFICES ASSUME FlowInv, HeldInv, [Next]_vars, uploads' # uploads,
                        NEW s \in Subs, subStatus'[s] \in EditableStatuses
                 PROVE  /\ subStatus'[s] = "draft"
                        /\ current' # current => subVersion'[s] = current'
      OBVIOUS
    <2>1. PICK r \in Requests : ChangeCommits(r)
      BY TextsAreCommitted DEF textVars
    <2>2. s \in request[r].listed
      BY <2>1 DEF ChangeCommits, HeldInv, Emptied, Editable
    <2>3. current' # current => request[r].kind = "version" /\ current' = ChangedVersion(request[r].kind)
      BY <2>1 DEF ChangeCommits, Plan!AddVersion, ChangedVersion
    <2> QED  BY <2>1, <2>2, <2>3 DEF ChangeCommits
  <1> QED  BY <1>1, FlowInvariance, HeldInvariance, PTL DEF Spec, ChangeEmptiesDrafts

\* The text of an active plan is never overwritten (version_locked under the
\* row lock that the plan's foreign key waits for).
THEOREM PlannedTextIsKept == Spec => PlannedTextStays
  <1>1. FlowInv /\ HeldInv /\ [Next]_vars =>
          [\A v \in 1..MaxVersion :
              text'[v] # text[v] =>
                 \A p \in Plans : ~(status[p] = "active" /\ builtOn[p] = v)]_vars
    <2> SUFFICES ASSUME FlowInv, HeldInv, [Next]_vars, NEW v \in 1..MaxVersion, text'[v] # text[v],
                        NEW p \in Plans, status[p] = "active", builtOn[p] = v
                 PROVE  FALSE
      OBVIOUS
    <2>1. PICK r \in Requests : ChangeCommits(r)
      BY TextsAreCommitted DEF textVars
    <2>2. v = ChangedVersion(request[r].kind)
      BY <2>1 DEF ChangeCommits, FlowInv, Types
    <2>3. builtOn[p] <= current /\ current \in Nat
      BY DEF HeldInv, BuiltOn, FlowInv, Types
    <2>4. Changing(request[r]) /\ request[r].kind \in {"edit", "version"}
      BY <2>1 DEF ChangeCommits, FlowInv, Handlers, PlaceOK, Changing
    <2> QED  BY <2>2, <2>3, <2>4 DEF HeldInv, Unplanned, ChangedVersion
  <1> QED  BY <1>1, FlowInvariance, HeldInvariance, PTL DEF Spec, PlannedTextStays

\* Only a packet that is declined, or has to be revised, is transferred
\* (author_transfer_submission under the row lock).
THEOREM TransfersAreOfDeclined == Spec => OnlyDeclinedTransfers
  <1>1. FlowInv /\ HeldInv /\ [Next]_vars =>
          [\A s \in Subs :
              subStatus[s] # "transferred" /\ subStatus'[s] = "transferred" =>
                 subStatus[s] \in {"rejected", "revision_requested"}]_vars
    <2> SUFFICES ASSUME FlowInv, HeldInv, [Next]_vars, NEW s \in Subs,
                        subStatus[s] # "transferred", subStatus'[s] = "transferred"
                 PROVE  subStatus[s] \in {"rejected", "revision_requested"}
      OBVIOUS
    <2>1. ASSUME NEW r \in Requests, CreateInsert(r)
          PROVE  subStatus[s] \in {"rejected", "revision_requested"}
      <3>1. r \in Creating /\ s = request[r].from
        BY <2>1 DEF CreateInsert, Creating
      <3> QED  BY <3>1, FlowAssumption DEF HeldInv, Sources
    <2>2. ASSUME NEW r \in Requests, Save(r)
          PROVE  FALSE
      <3>1. request[r].goal # "transferred"
        BY <2>2 DEF Save, FlowInv, Handlers, PlaceOK, Goals, DecisionStatuses
      <3> QED  BY <2>2, <3>1 DEF Save, FlowInv, Types
    <2>3. ASSUME NEW r \in Requests, ChangeCommits(r)
          PROVE  FALSE
      BY <2>3 DEF ChangeCommits
    <2>4. ASSUME NEW t \in Subs, AssessmentFinishes(t)
          PROVE  FALSE
      BY <2>4 DEF AssessmentFinishes, FlowInv, Types
    <2> QED  BY <2>1, <2>2, <2>3, <2>4
             DEF Next, RequestStep, EditChecks, UploadChecks, ChangeLists, SyncReads, SyncApplies,
                 CreateRead, TransferRead, SubmitLoads, StartReviewLoads, DecisionLoads,
                 QueueAssessment, WorkerStep, AssessmentStarts, AssessmentStops, AuthorPlans, vars, packetVars
  <1> QED  BY <1>1, FlowInvariance, HeldInvariance, PTL DEF Spec, OnlyDeclinedTransfers
=============================================================================
