------------------------ MODULE SubmissionPlanProofs ------------------------
(***************************************************************************)
(* Proofs about SubmissionPlan for every set of venues and every bound.    *)
(***************************************************************************)
EXTENDS SubmissionPlan, TLAPS, WellFoundedInduction

(***************************************************************************)
(* The inductive invariant: the checked invariants, and what ties a        *)
(* position's submitted version and its plan's status to its state.        *)
(***************************************************************************)

NeverSent == {"absent", "queued", "preparing", "skipped"}

Bookkeeping ==
    \A p \in Plans :
        /\ status[p] = "none" => \A v \in Venues : state[p][v] = "absent"
        /\ \A v \in Venues : submitted[p][v] > 0 <=> state[p][v] \notin NeverSent

IInv ==
    /\ TypeOK
    /\ OneLivePosition
    /\ OneActivePlan
    /\ QueueKeepsItsOrder
    /\ CompletedMeansAccepted
    /\ DeclineIsAnswered
    /\ Bookkeeping

USE DEF Plans, Versions, Orders

\* Initially every position is absent and every number is zero or one.
LEMMA InitEstablishes == Init => IInv
  <1> SUFFICES ASSUME Init PROVE IInv
    OBVIOUS
  <1>1. ready \in BOOLEAN
    BY DEF Init
  <1>2. TypeOK
    BY <1>1, BoundsAssumption DEF Init, TypeOK, PlanStatuses, PositionStates, Answers
  <1>3. OneLivePosition /\ OneActivePlan /\ QueueKeepsItsOrder
    BY DEF Init, OneLivePosition, OneActivePlan, QueueKeepsItsOrder, LiveStates, Tried, DoneStates
  <1>4. CompletedMeansAccepted /\ DeclineIsAnswered /\ Bookkeeping
    BY DEF Init, CompletedMeansAccepted, DeclineIsAnswered, Bookkeeping, HasState, NeverSent
  <1> QED  BY <1>2, <1>3, <1>4 DEF IInv

\* Writing one entry of a table keeps its type, and changes nothing else.
LEMMA TableUpdate ==
  ASSUME NEW P, NEW V, NEW R, NEW f \in [P -> [V -> R]],
         NEW p \in P, NEW v \in V, NEW x \in R
  PROVE  /\ [f EXCEPT ![p][v] = x] \in [P -> [V -> R]]
         /\ \A q \in P : \A u \in V :
              [f EXCEPT ![p][v] = x][q][u] = IF q = p /\ u = v THEN x ELSE f[q][u]
  OBVIOUS

\* Versions are versions or the zero that stands for none.
LEMMA VersionValues == \A n \in Versions : n \in 0..MaxVersion /\ n > 0
  BY BoundsAssumption

\* The type of the states a step leads to.
LEMMA TypeStep == TypeOK /\ [Next]_vars => TypeOK'
  <1> SUFFICES ASSUME TypeOK, [Next]_vars PROVE TypeOK'
    OBVIOUS
  <1> USE DEF manuscriptVars, planVars, answerVars
  <1>1. CASE ManuscriptStep
    <2>1. current' \in Versions
      BY <1>1, BoundsAssumption
      DEF TypeOK, ManuscriptStep, AddVersion, EditText, CheckReadiness, GenerateMatches
    <2>2. ready' \in BOOLEAN /\ matched' \subseteq Versions
      BY <1>1 DEF TypeOK, ManuscriptStep, AddVersion, EditText, CheckReadiness, GenerateMatches
    <2>3. UNCHANGED planVars
      BY <1>1 DEF ManuscriptStep, AddVersion, EditText, CheckReadiness, GenerateMatches
    <2> QED
      BY <2>1, <2>2, <2>3 DEF TypeOK
  <1>2. ASSUME NEW p \in Plans, NEW ranking \in Rankings, NEW replace \in BOOLEAN,
               BuildPlan(p, ranking, replace)
        PROVE  TypeOK'
    <2>1. ranking \in [Venues -> Orders]
      BY DEF Rankings
    <2>2. status' \in [Plans -> PlanStatuses]
      BY <1>2 DEF BuildPlan, InPlaceOfActive, TypeOK, PlanStatuses
    <2>3. state' \in [Plans -> [Venues -> PositionStates]]
      BY <1>2 DEF BuildPlan, InPlaceOfActive, TypeOK, PositionStates
    <2>4. order' \in [Plans -> [Venues -> Orders]]
      BY <1>2, <2>1 DEF BuildPlan, InPlaceOfActive, TypeOK
    <2>5. builtOn' \in [Plans -> 0..MaxVersion]
      BY <1>2, VersionValues DEF BuildPlan, InPlaceOfActive, TypeOK
    <2> QED
      BY <1>2, <2>2, <2>3, <2>4, <2>5 DEF BuildPlan, InPlaceOfActive, TypeOK
  <1>3. ASSUME NEW p \in Plans, NEW v \in Venues, PositionStep(p, v)
        PROVE  TypeOK'
    <2> DEFINE Moved == \E to \in PositionStates : Move(p, v, to)
    <2>0. Moved => state' \in [Plans -> [Venues -> PositionStates]]
      <3> SUFFICES ASSUME NEW to \in PositionStates, Move(p, v, to)
                   PROVE  state' \in [Plans -> [Venues -> PositionStates]]
        OBVIOUS
      <3> QED  BY TableUpdate DEF TypeOK, Move
    <2> HIDE DEF Moved
    <2>1. CASE Start(p, v)
      <3>1. Moved  BY <2>1 DEF Moved, Start, PositionStates, LiveStates
      <3> QED  BY <2>0, <2>1, <3>1 DEF Start, TypeOK
    <2>2. ASSUME NEW version \in Versions,
                 MarkSubmitted(p, v, version) \/ Resubmit(p, v, version)
          PROVE  TypeOK'
      <3>1. Moved
        BY <2>2 DEF Moved, MarkSubmitted, Resubmit, PositionStates, LiveStates
      <3>2. submitted' = [submitted EXCEPT ![p][v] = version]
        BY <2>2 DEF MarkSubmitted, Resubmit
      <3>3. version \in 0..MaxVersion
        BY VersionValues
      <3>4. submitted' \in [Plans -> [Venues -> 0..MaxVersion]]
        BY <3>2, <3>3, TableUpdate DEF TypeOK
      <3> QED  BY <2>0, <2>2, <3>1, <3>4 DEF MarkSubmitted, Resubmit, TypeOK
    <2>3. CASE MarkUnderReview(p, v)
      <3>1. Moved  BY <2>3 DEF Moved, MarkUnderReview, PositionStates, LiveStates
      <3> QED  BY <2>0, <2>3, <3>1 DEF MarkUnderReview, TypeOK
    <2>4. CASE ReportAccepted(p, v)
      <3>1. Moved  BY <2>4 DEF Moved, ReportAccepted, PositionStates, DoneStates
      <3>2. status' \in [Plans -> PlanStatuses]
        BY <2>4 DEF ReportAccepted, TypeOK, PlanStatuses
      <3> QED  BY <2>0, <2>4, <3>1, <3>2 DEF ReportAccepted, TypeOK
    <2>5. ASSUME NEW outcome \in DOMAIN OutcomeState, ReportOutcome(p, v, outcome)
          PROVE  TypeOK'
      <3>0. outcome \in {"revise_resubmit", "declined", "withdrawn"}
        BY DEF OutcomeState
      <3>1. OutcomeState[outcome] \in PositionStates
        BY <3>0 DEF OutcomeState, PositionStates, LiveStates, DoneStates
      <3>2. Moved  BY <2>5, <3>1 DEF Moved, ReportOutcome
      <3> QED  BY <2>0, <2>5, <3>2 DEF ReportOutcome, TypeOK
    <2>6. CASE AnswerUnchanged(p, v)
      <3>1. Moved  BY <2>6 DEF Moved, AnswerUnchanged, PositionStates, DoneStates
      <3>2. answer' \in [Plans -> [Venues -> Answers]]
        BY <2>6, TableUpdate DEF AnswerUnchanged, TypeOK, Answers
      <3> QED  BY <2>0, <2>6, <3>1, <3>2 DEF AnswerUnchanged, TypeOK
    <2>7. ASSUME NEW version \in Versions, NEW ranking \in Rankings,
                 AnswerRevised(p, v, version, ranking)
          PROVE  TypeOK'
      <3>1. state' \in [Plans -> [Venues -> PositionStates]]
        BY <2>7 DEF AnswerRevised, TypeOK, PositionStates, DoneStates
      <3>2. order' \in [Plans -> [Venues -> Orders]]
        BY <2>7 DEF AnswerRevised, Reordered, TypeOK
      <3>3. answer' \in [Plans -> [Venues -> Answers]]
        BY <2>7, TableUpdate DEF AnswerRevised, TypeOK, Answers
      <3>4. revision' \in [Plans -> [Venues -> 0..MaxVersion]]
        BY <2>7, VersionValues, TableUpdate DEF AnswerRevised, TypeOK
      <3> QED  BY <2>7, <3>1, <3>2, <3>3, <3>4 DEF AnswerRevised, TypeOK
    <2>8. CASE Skip(p, v)
      <3>1. Moved  BY <2>8 DEF Moved, Skip, PositionStates, DoneStates
      <3> QED  BY <2>0, <2>8, <3>1 DEF Skip, TypeOK
    <2> QED
      BY <1>3, <2>1, <2>2, <2>3, <2>4, <2>5, <2>6, <2>7, <2>8 DEF PositionStep
  <1>4. ASSUME NEW p \in Plans, Stop(p) PROVE TypeOK'
    BY <1>4 DEF Stop, TypeOK, PlanStatuses
  <1>5. CASE UNCHANGED vars
    BY <1>5 DEF vars, TypeOK
  <1> QED
    BY <1>1, <1>2, <1>3, <1>4, <1>5 DEF Next

(***************************************************************************)
(* What a step does to the positions, one by one.                          *)
(***************************************************************************)

\* Only the state of one position changes.
PositionEffect(p, v, to) ==
    \A q \in Plans : \A u \in Venues :
        state'[q][u] = IF q = p /\ u = v THEN to ELSE state[q][u]

LEMMA MoveEffect ==
  ASSUME TypeOK, NEW p \in Plans, NEW v \in Venues, NEW to \in PositionStates, Move(p, v, to)
  PROVE  PositionEffect(p, v, to)
  BY TableUpdate DEF TypeOK, Move, PositionEffect

\* The states of the positions after each step of one position.
LEMMA MovingSteps ==
  ASSUME TypeOK, NEW p \in Plans, NEW v \in Venues
  PROVE  /\ Start(p, v) => PositionEffect(p, v, "preparing")
         /\ \A version \in Versions :
              MarkSubmitted(p, v, version) \/ Resubmit(p, v, version)
                => PositionEffect(p, v, "submitted")
         /\ MarkUnderReview(p, v) => PositionEffect(p, v, "under_review")
         /\ ReportAccepted(p, v) => PositionEffect(p, v, "accepted")
         /\ \A outcome \in DOMAIN OutcomeState :
              ReportOutcome(p, v, outcome) =>
                 /\ OutcomeState[outcome] \in {"revise_resubmit", "awaiting_author", "withdrawn"}
                 /\ PositionEffect(p, v, OutcomeState[outcome])
         /\ AnswerUnchanged(p, v) => PositionEffect(p, v, "closed")
         /\ Skip(p, v) => PositionEffect(p, v, "skipped")
  <1>1. ASSUME NEW to \in PositionStates, Move(p, v, to) PROVE PositionEffect(p, v, to)
    BY <1>1, MoveEffect
  <1>2. {"preparing", "submitted", "under_review", "revise_resubmit", "awaiting_author",
         "accepted", "withdrawn", "closed", "skipped"} \subseteq PositionStates
    BY DEF PositionStates, LiveStates, DoneStates
  <1>3. \A outcome \in DOMAIN OutcomeState :
          OutcomeState[outcome] \in {"revise_resubmit", "awaiting_author", "withdrawn"}
    BY DEF OutcomeState
  <1> QED
    BY <1>1, <1>2, <1>3
    DEF Start, MarkSubmitted, Resubmit, MarkUnderReview, ReportAccepted, ReportOutcome,
        AnswerUnchanged, Skip

\* A quiet step brings nothing into play: it adds no live position, queues
\* nothing, tries nothing new, and leaves the places as they are.
Quiet ==
    /\ order' = order
    /\ \A q \in Plans : \A u \in Venues :
         /\ state'[q][u] \in LiveStates => state[q][u] \in LiveStates
         /\ state'[q][u] = "queued" => state[q][u] = "queued"
         /\ state'[q][u] # "absent" => state[q][u] # "absent"
         /\ state'[q][u] \in Tried => state[q][u] \in Tried

\* Every step is quiet but the start of a venue, the answer that re-checks the
\* queue, and the building of a plan.
LEMMA QuietSteps ==
  ASSUME TypeOK, [Next]_vars
  PROVE  \/ Quiet
         \/ \E p \in Plans, v \in Venues : Start(p, v)
         \/ \E p \in Plans, v \in Venues, version \in Versions, ranking \in Rankings :
               AnswerRevised(p, v, version, ranking)
         \/ \E p \in Plans, ranking \in Rankings, replace \in BOOLEAN :
               BuildPlan(p, ranking, replace)
  <1> USE DEF Tried, LiveStates, DoneStates, WithVenue
  <1>1. CASE ManuscriptStep
    BY <1>1 DEF ManuscriptStep, AddVersion, EditText, CheckReadiness, GenerateMatches, planVars, Quiet
  <1>2. ASSUME NEW p \in Plans, NEW v \in Venues, PositionStep(p, v),
               ~Start(p, v),
               ~\E version \in Versions, ranking \in Rankings :
                   AnswerRevised(p, v, version, ranking)
        PROVE  Quiet
    <2>1. ASSUME NEW version \in Versions,
                 MarkSubmitted(p, v, version) \/ Resubmit(p, v, version)
          PROVE  Quiet
      <3>1. PositionEffect(p, v, "submitted")  BY <2>1, MovingSteps
      <3> QED  BY <2>1, <3>1 DEF PositionEffect, MarkSubmitted, Resubmit, Quiet
    <2>2. CASE MarkUnderReview(p, v)
      <3>1. PositionEffect(p, v, "under_review")  BY <2>2, MovingSteps
      <3> QED  BY <2>2, <3>1 DEF PositionEffect, MarkUnderReview, Quiet
    <2>3. CASE ReportAccepted(p, v)
      <3>1. PositionEffect(p, v, "accepted")  BY <2>3, MovingSteps
      <3> QED  BY <2>3, <3>1 DEF PositionEffect, ReportAccepted, Quiet
    <2>4. ASSUME NEW outcome \in DOMAIN OutcomeState, ReportOutcome(p, v, outcome)
          PROVE  Quiet
      <3>1. /\ OutcomeState[outcome] \in {"revise_resubmit", "awaiting_author", "withdrawn"}
            /\ PositionEffect(p, v, OutcomeState[outcome])
        BY <2>4, MovingSteps
      <3> QED  BY <2>4, <3>1 DEF PositionEffect, ReportOutcome, Quiet
    <2>5. CASE AnswerUnchanged(p, v)
      <3>1. PositionEffect(p, v, "closed")  BY <2>5, MovingSteps
      <3> QED  BY <2>5, <3>1 DEF PositionEffect, AnswerUnchanged, Quiet
    <2>6. CASE Skip(p, v)
      <3>1. PositionEffect(p, v, "skipped")  BY <2>6, MovingSteps
      <3> QED  BY <2>6, <3>1 DEF PositionEffect, Skip, Quiet
    <2> QED
      BY <1>2, <2>1, <2>2, <2>3, <2>4, <2>5, <2>6 DEF PositionStep
  <1>3. ASSUME NEW p \in Plans, Stop(p) PROVE Quiet
    BY <1>3 DEF Stop, Quiet
  <1>4. CASE UNCHANGED vars
    BY <1>4 DEF vars, Quiet
  <1> QED
    BY <1>1, <1>2, <1>3, <1>4 DEF Next

\* The re-check of the queue: the answered position closes, queued ones stay
\* queued or are skipped, and those that stay keep the same set of places.
LEMMA AnswerRevisedEffect ==
  ASSUME TypeOK, NEW p \in Plans, NEW v \in Venues, NEW version \in Versions,
         NEW ranking \in Rankings, AnswerRevised(p, v, version, ranking)
  PROVE  /\ state[p][v] = "awaiting_author"
         /\ \A q \in Plans : q # p => state'[q] = state[q] /\ order'[q] = order[q]
         /\ \A u \in Venues :
              state'[p][u] = IF u = v THEN "closed"
                             ELSE IF state[p][u] = "queued" /\ ranking[u] = 0 THEN "skipped"
                             ELSE state[p][u]
         /\ \A u \in Venues :
              ~(state[p][u] = "queued" /\ ranking[u] > 0) => order'[p][u] = order[p][u]
         /\ \A u \in Venues :
              state[p][u] = "queued" /\ ranking[u] > 0 =>
                 \E w \in Venues : /\ state[p][w] = "queued" /\ ranking[w] > 0
                                   /\ order'[p][u] = order[p][w]
         /\ \A u, w \in Venues :
              /\ state[p][u] = "queued" /\ ranking[u] > 0
              /\ state[p][w] = "queued" /\ ranking[w] > 0
              /\ ranking[u] < ranking[w]
              => order'[p][u] < order'[p][w]
  <1>0. ranking \in [Venues -> Orders]
    BY DEF Rankings
  <1>1. \A u \in Venues : ranking[u] \in Nat
    BY <1>0, BoundsAssumption
  <1> DEFINE queued == {u \in Venues : state[p][u] = "queued"}
             kept == {u \in queued : ranking[u] > 0}
  <1>2. PICK new \in Reordered(order[p], kept, ranking) : order' = [order EXCEPT ![p] = new]
    BY DEF AnswerRevised
  <1>3. order'[p] = new /\ \A q \in Plans : q # p => order'[q] = order[q]
    BY <1>2 DEF TypeOK
  <1>4. state'[p] = [u \in Venues |-> IF u = v THEN "closed"
                                      ELSE IF u \in queued \ kept THEN "skipped"
                                      ELSE state[p][u]]
    BY DEF AnswerRevised, TypeOK
  <1>5. \A q \in Plans : q # p => state'[q] = state[q]
    BY DEF AnswerRevised, TypeOK
  <1>6. state[p][v] = "awaiting_author"
    BY DEF AnswerRevised
  <1>7. \A u \in Venues :
          state'[p][u] = IF u = v THEN "closed"
                         ELSE IF state[p][u] = "queued" /\ ranking[u] = 0 THEN "skipped"
                         ELSE state[p][u]
    BY <1>1, <1>4
  <1>8. /\ \A u \in Venues \ kept : new[u] = order[p][u]
        /\ \A u \in kept : \E w \in kept : new[u] = order[p][w]
        /\ \A u, w \in kept : ranking[u] < ranking[w] => new[u] < new[w]
    BY <1>2 DEF Reordered
  <1> QED
    BY <1>3, <1>5, <1>6, <1>7, <1>8

(***************************************************************************)
(* The invariants, one by one.                                             *)
(***************************************************************************)

\* One venue at a time: only Start makes a position live, and only when the
\* plan has no live position.
LEMMA OneLiveStep == TypeOK /\ OneLivePosition /\ [Next]_vars => OneLivePosition'
  <1> SUFFICES ASSUME TypeOK, OneLivePosition, [Next]_vars PROVE OneLivePosition'
    OBVIOUS
  <1>1. CASE Quiet
    BY <1>1 DEF Quiet, OneLivePosition
  <1>2. ASSUME NEW p \in Plans, NEW v \in Venues, Start(p, v) PROVE OneLivePosition'
    <2>1. PositionEffect(p, v, "preparing")
      BY <1>2, MovingSteps
    <2>2. \A u \in Venues : state[p][u] \notin LiveStates
      BY <1>2 DEF Start, HasState
    <2> QED
      BY <2>1, <2>2 DEF PositionEffect, OneLivePosition
  <1>3. ASSUME NEW p \in Plans, NEW v \in Venues, NEW version \in Versions,
               NEW ranking \in Rankings, AnswerRevised(p, v, version, ranking)
        PROVE  OneLivePosition'
    <2>1. \A q \in Plans : \A u \in Venues :
             state'[q][u] \in LiveStates => state[q][u] \in LiveStates
      BY <1>3, AnswerRevisedEffect DEF LiveStates
    <2> QED
      BY <2>1 DEF OneLivePosition
  <1>4. ASSUME NEW p \in Plans, NEW ranking \in Rankings, NEW replace \in BOOLEAN,
               BuildPlan(p, ranking, replace)
        PROVE  OneLivePosition'
    <2>1. \A q \in Plans : \A u \in Venues :
             state'[q][u] \in LiveStates => state[q][u] \in LiveStates
      BY <1>4 DEF BuildPlan, InPlaceOfActive, TypeOK, LiveStates
    <2> QED
      BY <2>1 DEF OneLivePosition
  <1> QED
    BY <1>1, <1>2, <1>3, <1>4, QuietSteps

\* The order of a plan: Start takes the head of the queue, the re-check permutes
\* the queue within its own places, and a ranking has distinct places.
LEMMA OrderStep ==
    TypeOK /\ QueueKeepsItsOrder /\ [Next]_vars => QueueKeepsItsOrder'
  <1> SUFFICES ASSUME TypeOK, QueueKeepsItsOrder, [Next]_vars PROVE QueueKeepsItsOrder'
    OBVIOUS
  <1>0. \A p \in Plans : \A u \in Venues : order[p][u] \in Nat
    BY BoundsAssumption DEF TypeOK
  <1>1. CASE Quiet
    BY <1>1 DEF Quiet, QueueKeepsItsOrder
  <1>2. ASSUME NEW p \in Plans, NEW v \in Venues, Start(p, v) PROVE QueueKeepsItsOrder'
    <2>1. PositionEffect(p, v, "preparing") /\ order' = order
      BY <1>2, MovingSteps DEF Start
    <2>2. state[p][v] = "queued"
          /\ \A u \in Venues : state[p][u] = "queued" => order[p][v] <= order[p][u]
      BY <1>2 DEF Start, FirstQueued
    <2>3. \A u \in Venues : u # v /\ state[p][u] = "queued" => order[p][v] < order[p][u]
      BY <2>2, <1>0 DEF QueueKeepsItsOrder
    <2>4. \A q \in Plans : \A u, w \in Venues :
            state'[q][u] # "absent" /\ state'[q][w] # "absent" /\ order'[q][u] = order'[q][w]
              => u = w
      BY <2>1, <2>2 DEF PositionEffect, QueueKeepsItsOrder
    <2>5. \A q \in Plans : \A u, w \in Venues :
            state'[q][u] \in Tried /\ state'[q][w] = "queued" => order'[q][u] < order'[q][w]
      BY <2>1, <2>2, <2>3 DEF PositionEffect, QueueKeepsItsOrder
    <2> QED
      BY <2>4, <2>5 DEF QueueKeepsItsOrder
  <1>3. ASSUME NEW p \in Plans, NEW v \in Venues, NEW version \in Versions,
               NEW ranking \in Rankings, AnswerRevised(p, v, version, ranking)
        PROVE  QueueKeepsItsOrder'
    <2> DEFINE kept(u) == state[p][u] = "queued" /\ ranking[u] > 0
    <2>0. \A u \in Venues : ranking[u] \in Nat
      <3>1. ranking \in [Venues -> Orders]  BY DEF Rankings
      <3> QED  BY <3>1, BoundsAssumption
    <2>1. \A q \in Plans : q # p => state'[q] = state[q] /\ order'[q] = order[q]
      BY <1>3, AnswerRevisedEffect
    <2>2. \A u \in Venues :
             /\ state'[p][u] = "queued" => kept(u)
             /\ state'[p][u] # "absent" => state[p][u] # "absent"
             /\ state'[p][u] \in Tried => state[p][u] \in Tried /\ ~kept(u)
      BY <1>3, <2>0, AnswerRevisedEffect DEF Tried, LiveStates, DoneStates
    <2>3. \A u \in Venues : ~kept(u) => order'[p][u] = order[p][u]
      BY <1>3, AnswerRevisedEffect
    <2>4. \A u \in Venues : kept(u) =>
             \E w \in Venues : kept(w) /\ order'[p][u] = order[p][w]
      BY <1>3, AnswerRevisedEffect
    <2>5. \A u, w \in Venues : kept(u) /\ kept(w) /\ order'[p][u] = order'[p][w] => u = w
      <3> SUFFICES ASSUME NEW u \in Venues, NEW w \in Venues, kept(u), kept(w),
                          order'[p][u] = order'[p][w], u # w
                   PROVE  FALSE
        OBVIOUS
      <3>1. order'[p][u] \in Nat /\ order'[p][w] \in Nat
        BY <2>4, <1>0
      <3>2. ranking[u] # ranking[w]
        BY DEF Rankings
      <3>3. ranking[u] < ranking[w] \/ ranking[w] < ranking[u]
        BY <3>2, <2>0
      <3>4. order'[p][u] < order'[p][w] \/ order'[p][w] < order'[p][u]
        BY <3>3, <1>3, AnswerRevisedEffect
      <3> QED
        BY <3>1, <3>4
    <2>6. \A u, w \in Venues :
             state'[p][u] # "absent" /\ state'[p][w] # "absent" /\ order'[p][u] = order'[p][w]
               => u = w
      BY <2>2, <2>3, <2>4, <2>5 DEF QueueKeepsItsOrder
    <2>7. \A u, w \in Venues :
             state'[p][u] \in Tried /\ state'[p][w] = "queued" => order'[p][u] < order'[p][w]
      BY <2>2, <2>3, <2>4 DEF QueueKeepsItsOrder
    <2> QED
      BY <2>1, <2>6, <2>7 DEF QueueKeepsItsOrder
  <1>4. ASSUME NEW p \in Plans, NEW ranking \in Rankings, NEW replace \in BOOLEAN,
               BuildPlan(p, ranking, replace)
        PROVE  QueueKeepsItsOrder'
    <2>1. /\ \A q \in Plans : q # p => state'[q] = state[q] /\ order'[q] = order[q]
          /\ order'[p] = ranking
          /\ \A u \in Venues : state'[p][u] = IF ranking[u] > 0 THEN "queued" ELSE "absent"
      BY <1>4 DEF BuildPlan, InPlaceOfActive, TypeOK
    <2>2. \A u, w \in Venues : ranking[u] = ranking[w] /\ ranking[u] > 0 => u = w
      BY DEF Rankings
    <2> QED
      BY <2>1, <2>2 DEF QueueKeepsItsOrder, Tried, LiveStates, DoneStates
  <1> QED
    BY <1>1, <1>2, <1>3, <1>4, QuietSteps

\* At most one active plan: a plan becomes active only when BuildPlan stops the
\* active one in the same step.
LEMMA OneActiveStep == TypeOK /\ OneActivePlan /\ [Next]_vars => OneActivePlan'
  <1> SUFFICES ASSUME TypeOK, OneActivePlan, [Next]_vars PROVE OneActivePlan'
    OBVIOUS
  <1> DEFINE Shrinks == \A q \in Plans : status'[q] = "active" => status[q] = "active"
  <1>1. Shrinks => OneActivePlan'
    BY DEF OneActivePlan
  <1>2. ASSUME NEW p \in Plans, NEW ranking \in Rankings, NEW replace \in BOOLEAN,
               BuildPlan(p, ranking, replace)
        PROVE  OneActivePlan'
    BY <1>2 DEF BuildPlan, InPlaceOfActive, OneActivePlan, TypeOK
  <1>3. ASSUME NEW p \in Plans, NEW v \in Venues, PositionStep(p, v) PROVE Shrinks
    BY <1>3 DEF PositionStep, Start, MarkSubmitted, MarkUnderReview, ReportAccepted,
         ReportOutcome, Resubmit, AnswerUnchanged, AnswerRevised, Skip, TypeOK
  <1>4. ASSUME NEW p \in Plans, Stop(p) PROVE Shrinks
    BY <1>4 DEF Stop, TypeOK
  <1>5. CASE ManuscriptStep \/ UNCHANGED vars
    <2>1. status' = status
      BY <1>5 DEF ManuscriptStep, AddVersion, EditText, CheckReadiness, GenerateMatches, planVars, vars
    <2> QED  BY <2>1, <1>1
  <1> QED
    BY <1>1, <1>2, <1>3, <1>4, <1>5 DEF Next

\* A completed plan is an accepted one: ReportAccepted writes both, nothing else
\* writes either, and by OneLivePosition nothing else of the plan is live then.
LEMMA CompletedStep ==
    IInv /\ [Next]_vars => CompletedMeansAccepted'
  <1> SUFFICES ASSUME IInv, [Next]_vars PROVE CompletedMeansAccepted'
    OBVIOUS
  <1> USE DEF IInv
  <1> DEFINE Before(q) == /\ status'[q] = "completed" <=> status[q] = "completed"
                          /\ \A u \in Venues :
                               /\ state'[q][u] = "accepted" <=> state[q][u] = "accepted"
                               /\ status[q] = "completed" /\ state'[q][u] \in LiveStates
                                    => state[q][u] \in LiveStates
  <1>1. (\A q \in Plans : Before(q)) => CompletedMeansAccepted'
    BY DEF CompletedMeansAccepted, HasState
  <1> HIDE DEF Before, IInv
  <1>2. CASE ManuscriptStep \/ UNCHANGED vars
    BY <1>2, <1>1
    DEF Before, ManuscriptStep, AddVersion, EditText, CheckReadiness, GenerateMatches, planVars, vars
  <1>3. ASSUME NEW p \in Plans, NEW v \in Venues, PositionStep(p, v)
        PROVE  CompletedMeansAccepted'
    <2>0. TypeOK
      BY DEF IInv
    <2> USE DEF LiveStates, WithVenue
    <2>1. CASE Start(p, v)
      <3>1. PositionEffect(p, v, "preparing")  BY <2>0, <2>1, MovingSteps
      <3>2. status' = status /\ status[p] = "active"  BY <2>1 DEF Start
      <3>3. state[p][v] = "queued"  BY <2>1 DEF Start, FirstQueued
      <3>4. \A q \in Plans : \A u \in Venues :
               state'[q][u] = "accepted" <=> state[q][u] = "accepted"
        BY <3>1, <3>3 DEF PositionEffect
      <3>5. \A q \in Plans : \A u \in Venues :
               status[q] = "completed" /\ state'[q][u] \in LiveStates
                 => state[q][u] \in LiveStates
        BY <3>1, <3>2 DEF PositionEffect
      <3> QED  BY <1>1, <3>2, <3>4, <3>5 DEF Before
    <2>2. ASSUME NEW version \in Versions,
                 MarkSubmitted(p, v, version) \/ Resubmit(p, v, version)
          PROVE  CompletedMeansAccepted'
      <3>1. PositionEffect(p, v, "submitted")  BY <2>0, <2>2, MovingSteps
      <3> QED  BY <1>1, <2>2, <3>1 DEF Before, PositionEffect, MarkSubmitted, Resubmit
    <2>3. CASE MarkUnderReview(p, v)
      <3>1. PositionEffect(p, v, "under_review")  BY <2>0, <2>3, MovingSteps
      <3> QED  BY <1>1, <2>3, <3>1 DEF Before, PositionEffect, MarkUnderReview
    <2>4. CASE ReportAccepted(p, v)
      <3>1. PositionEffect(p, v, "accepted")  BY <2>0, <2>4, MovingSteps
      <3>2. \A u \in Venues : state[p][u] \in LiveStates => u = v
        BY <2>4 DEF ReportAccepted, OneLivePosition, IInv
      <3>3. status' = [status EXCEPT ![p] = "completed"]
        BY <2>4 DEF ReportAccepted
      <3>4. status'[p] = "completed" /\ state'[p][v] = "accepted"
            /\ \A u \in Venues : state'[p][u] \notin LiveStates
        BY <2>0, <3>1, <3>2, <3>3 DEF TypeOK, PositionEffect
      <3>5. \A q \in Plans : q # p => status'[q] = status[q]
                                      /\ \A u \in Venues : state'[q][u] = state[q][u]
        BY <2>0, <3>1, <3>3 DEF TypeOK, PositionEffect
      <3> QED
        BY <3>4, <3>5 DEF IInv, CompletedMeansAccepted, HasState
    <2>5. ASSUME NEW outcome \in DOMAIN OutcomeState, ReportOutcome(p, v, outcome)
          PROVE  CompletedMeansAccepted'
      <3>1. /\ OutcomeState[outcome] \in {"revise_resubmit", "awaiting_author", "withdrawn"}
            /\ PositionEffect(p, v, OutcomeState[outcome])
        BY <2>0, <2>5, MovingSteps
      <3> QED  BY <1>1, <2>5, <3>1 DEF Before, PositionEffect, ReportOutcome
    <2>6. CASE AnswerUnchanged(p, v)
      <3>1. PositionEffect(p, v, "closed")  BY <2>0, <2>6, MovingSteps
      <3> QED  BY <1>1, <2>6, <3>1 DEF Before, PositionEffect, AnswerUnchanged
    <2>7. ASSUME NEW version \in Versions, NEW ranking \in Rankings,
                 AnswerRevised(p, v, version, ranking)
          PROVE  CompletedMeansAccepted'
      <3>1. status' = status
        BY <2>7 DEF AnswerRevised
      <3>2. \A q \in Plans : \A u \in Venues :
               /\ state'[q][u] = "accepted" <=> state[q][u] = "accepted"
               /\ state'[q][u] \in LiveStates => state[q][u] \in LiveStates
        BY <2>0, <2>7, AnswerRevisedEffect
      <3> QED  BY <1>1, <3>1, <3>2 DEF Before
    <2>8. CASE Skip(p, v)
      <3>1. PositionEffect(p, v, "skipped")  BY <2>0, <2>8, MovingSteps
      <3> QED  BY <1>1, <2>8, <3>1 DEF Before, PositionEffect, Skip
    <2> QED
      BY <1>3, <2>1, <2>2, <2>3, <2>4, <2>5, <2>6, <2>7, <2>8 DEF PositionStep
  <1>4. ASSUME NEW p \in Plans, NEW ranking \in Rankings, NEW replace \in BOOLEAN,
               BuildPlan(p, ranking, replace)
        PROVE  CompletedMeansAccepted'
    <2>1. status[p] = "none" /\ \A u \in Venues : state[p][u] = "absent"
      BY <1>4 DEF BuildPlan, InPlaceOfActive, NextPlan, IInv, Bookkeeping
    <2>2. /\ \A q \in Plans : q # p => state'[q] = state[q]
          /\ \A u \in Venues : state'[p][u] \in {"queued", "absent"}
          /\ \A q \in Plans : status'[q] = "completed" <=> status[q] = "completed"
      BY <1>4, <2>1 DEF BuildPlan, InPlaceOfActive, IInv, TypeOK
    <2> QED
      BY <1>1, <2>1, <2>2 DEF Before, LiveStates
  <1>5. ASSUME NEW p \in Plans, Stop(p) PROVE CompletedMeansAccepted'
    BY <1>1, <1>5 DEF Before, Stop, IInv, TypeOK
  <1> QED
    BY <1>2, <1>3, <1>4, <1>5 DEF Next

\* The answers and the submitted versions, which the same steps maintain.
Records == DeclineIsAnswered /\ Bookkeeping

\* A step that writes no plan record but the state of position (p, v), between
\* two states that agree on being closed and on having been sent.
Relabels(p, v, to) ==
    /\ PositionEffect(p, v, to)
    /\ \A q \in Plans : status'[q] = "none" <=> status[q] = "none"
    /\ status[p] = "active"
    /\ UNCHANGED <<submitted, answer, revision>>
    /\ to # "closed" /\ state[p][v] # "closed"
    /\ to \in NeverSent <=> state[p][v] \in NeverSent

LEMMA RelabelsKeepsRecords ==
  ASSUME TypeOK, Records, NEW p \in Plans, NEW v \in Venues, NEW to \in PositionStates,
         Relabels(p, v, to)
  PROVE  Records'
  <1>1. DeclineIsAnswered'
    <2>1. \A q \in Plans : \A u \in Venues : state'[q][u] = "closed" <=> state[q][u] = "closed"
      BY DEF Relabels, PositionEffect
    <2> QED  BY <2>1 DEF Relabels, Records, DeclineIsAnswered
  <1>2. Bookkeeping'
    <2>1. \A q \in Plans : \A u \in Venues :
             state'[q][u] \in NeverSent <=> state[q][u] \in NeverSent
      BY DEF Relabels, PositionEffect
    <2>2. \A q \in Plans : status'[q] = "none" =>
             \A u \in Venues : state'[q][u] = "absent"
      BY DEF Relabels, PositionEffect, Records, Bookkeeping
    <2> QED  BY <2>1, <2>2 DEF Relabels, Records, Bookkeeping
  <1> QED
    BY <1>1, <1>2 DEF Records

\* A venue is sent a version: the position was not sent before, or asked for a
\* newer one; it is not closed either way.
LEMMA SentKeepsRecords ==
  ASSUME TypeOK, Records, NEW p \in Plans, NEW v \in Venues, NEW version \in Versions,
         MarkSubmitted(p, v, version) \/ Resubmit(p, v, version)
  PROVE  Records'
  <1>1. PositionEffect(p, v, "submitted")
    BY MovingSteps
  <1>2. state[p][v] \in {"preparing", "revise_resubmit"} /\ status[p] = "active"
        /\ UNCHANGED <<status, answer, revision>>
    BY DEF MarkSubmitted, Resubmit, answerVars
  <1>3. submitted' = [submitted EXCEPT ![p][v] = version]
    BY DEF MarkSubmitted, Resubmit
  <1>4. \A q \in Plans : \A u \in Venues :
           submitted'[q][u] = IF q = p /\ u = v THEN version ELSE submitted[q][u]
    BY <1>3, VersionValues, TableUpdate DEF TypeOK
  <1>5. DeclineIsAnswered'
    <2>1. answer[p][v] = "none"
      BY <1>2 DEF Records, DeclineIsAnswered
    <2>2. \A q \in Plans : \A u \in Venues : state'[q][u] = "closed" <=> state[q][u] = "closed"
      BY <1>1, <1>2 DEF PositionEffect
    <2> QED  BY <1>2, <1>4, <2>1, <2>2 DEF Records, DeclineIsAnswered
  <1>6. Bookkeeping'
    <2>1. version > 0 /\ "submitted" \notin NeverSent
      BY VersionValues DEF NeverSent
    <2>2. \A q \in Plans : \A u \in Venues :
             submitted'[q][u] > 0 <=> state'[q][u] \notin NeverSent
      BY <1>1, <1>4, <2>1 DEF PositionEffect, Records, Bookkeeping
    <2>3. \A q \in Plans : status'[q] = "none" =>
             \A u \in Venues : state'[q][u] = "absent"
      BY <1>1, <1>2 DEF PositionEffect, Records, Bookkeeping
    <2> QED  BY <2>2, <2>3 DEF Bookkeeping
  <1> QED
    BY <1>5, <1>6 DEF Records

\* The author's answers close the position they answer.
LEMMA AnswerKeepsRecords ==
  ASSUME TypeOK, Records, NEW p \in Plans, NEW v \in Venues,
         \/ AnswerUnchanged(p, v)
         \/ \E version \in Versions, ranking \in Rankings : AnswerRevised(p, v, version, ranking)
  PROVE  Records'
  <1>0. \A q \in Plans : \A u \in Venues : submitted[q][u] \in Nat
    BY BoundsAssumption DEF TypeOK
  <1>1. CASE AnswerUnchanged(p, v)
    <2>1. PositionEffect(p, v, "closed") /\ state[p][v] = "awaiting_author"
          /\ status[p] = "active" /\ UNCHANGED <<status, submitted, revision>>
      BY <1>1, MovingSteps DEF AnswerUnchanged
    <2>5. answer \in [Plans -> [Venues -> Answers]] /\ "unchanged" \in Answers
      BY DEF TypeOK, Answers
    <2>2. \A q \in Plans : \A u \in Venues :
             answer'[q][u] = IF q = p /\ u = v THEN "unchanged" ELSE answer[q][u]
      BY <1>1, <2>5, TableUpdate DEF AnswerUnchanged
    <2>3. DeclineIsAnswered'
      BY <2>1, <2>2 DEF PositionEffect, Records, DeclineIsAnswered
    <2>4. Bookkeeping'
      BY <2>1 DEF PositionEffect, Records, Bookkeeping, NeverSent
    <2> QED  BY <2>3, <2>4 DEF Records
  <1>2. ASSUME NEW version \in Versions, NEW ranking \in Rankings,
               AnswerRevised(p, v, version, ranking)
        PROVE  Records'
    <2>1. state[p][v] = "awaiting_author"
          /\ status[p] = "active" /\ UNCHANGED <<status, submitted>>
      BY <1>2 DEF AnswerRevised
    <2>2. \A q \in Plans : \A u \in Venues :
             state'[q][u] = IF q = p /\ u = v THEN "closed"
                            ELSE IF q = p /\ state[q][u] = "queued" /\ ranking[u] = 0
                                 THEN "skipped"
                            ELSE state[q][u]
      BY <1>2, AnswerRevisedEffect
    <2>3. /\ \A q \in Plans : \A u \in Venues :
               answer'[q][u] = IF q = p /\ u = v THEN "revised" ELSE answer[q][u]
          /\ \A q \in Plans : \A u \in Venues :
               revision'[q][u] = IF q = p /\ u = v THEN version ELSE revision[q][u]
      BY <1>2, VersionValues, TableUpdate DEF AnswerRevised, TypeOK, Answers
    <2>4. submitted[p][v] > 0 /\ version > submitted[p][v]
      BY <1>2, <2>1 DEF Records, Bookkeeping, NeverSent, AnswerRevised, NewerVersion, Baseline
    <2>5. \A q \in Plans : \A u \in Venues :
             state'[q][u] = "closed" <=> answer'[q][u] # "none"
      BY <2>1, <2>2, <2>3 DEF Records, DeclineIsAnswered
    <2>6. \A q \in Plans : \A u \in Venues :
             answer'[q][u] = "revised" => revision'[q][u] > submitted'[q][u]
                                          /\ submitted'[q][u] > 0
      BY <2>1, <2>3, <2>4 DEF Records, DeclineIsAnswered
    <2>7. Bookkeeping'
      BY <2>1, <2>2 DEF Records, Bookkeeping, NeverSent
    <2> QED  BY <2>5, <2>6, <2>7 DEF Records, DeclineIsAnswered
  <1> QED
    BY <1>1, <1>2

LEMMA RecordsStep == TypeOK /\ Records /\ [Next]_vars => Records'
  <1> SUFFICES ASSUME TypeOK, Records, [Next]_vars PROVE Records'
    OBVIOUS
  <1>1. CASE ManuscriptStep \/ UNCHANGED vars
    <2>1. UNCHANGED <<status, state, submitted, answer, revision>>
      BY <1>1 DEF ManuscriptStep, AddVersion, EditText, CheckReadiness, GenerateMatches, planVars, vars
    <2> QED  BY <2>1 DEF Records, DeclineIsAnswered, Bookkeeping
  <1>2. ASSUME NEW p \in Plans, NEW v \in Venues, PositionStep(p, v) PROVE Records'
    <2> USE DEF NeverSent, WithVenue, answerVars
    <2>1. CASE Start(p, v)
      <3>1. PositionEffect(p, v, "preparing")  BY <2>1, MovingSteps
      <3>2. Relabels(p, v, "preparing")  BY <2>1, <3>1 DEF Start, FirstQueued, Relabels
      <3> QED  BY <3>2, RelabelsKeepsRecords DEF PositionStates, LiveStates
    <2>2. ASSUME NEW version \in Versions,
                 MarkSubmitted(p, v, version) \/ Resubmit(p, v, version)
          PROVE  Records'
      BY <2>2, SentKeepsRecords
    <2>3. CASE MarkUnderReview(p, v)
      <3>1. PositionEffect(p, v, "under_review")  BY <2>3, MovingSteps
      <3>2. Relabels(p, v, "under_review")  BY <2>3, <3>1 DEF MarkUnderReview, Relabels
      <3> QED  BY <3>2, RelabelsKeepsRecords DEF PositionStates, LiveStates
    <2>4. CASE ReportAccepted(p, v)
      <3>1. PositionEffect(p, v, "accepted")  BY <2>4, MovingSteps
      <3>2. \A q \in Plans : status'[q] = "none" <=> status[q] = "none"
        BY <2>4 DEF ReportAccepted, TypeOK
      <3>3. Relabels(p, v, "accepted")  BY <2>4, <3>1, <3>2 DEF ReportAccepted, Relabels
      <3> QED  BY <3>3, RelabelsKeepsRecords DEF PositionStates, DoneStates
    <2>5. ASSUME NEW outcome \in DOMAIN OutcomeState, ReportOutcome(p, v, outcome)
          PROVE  Records'
      <3> DEFINE to == OutcomeState[outcome]
      <3>1. to \in {"revise_resubmit", "awaiting_author", "withdrawn"}
            /\ PositionEffect(p, v, to)
        BY <2>5, MovingSteps
      <3> HIDE DEF to
      <3>2. Relabels(p, v, to)  BY <2>5, <3>1 DEF ReportOutcome, Relabels
      <3> QED  BY <3>1, <3>2, RelabelsKeepsRecords DEF PositionStates, LiveStates, DoneStates
    <2>6. CASE Skip(p, v)
      <3>1. PositionEffect(p, v, "skipped")  BY <2>6, MovingSteps
      <3>2. Relabels(p, v, "skipped")  BY <2>6, <3>1 DEF Skip, Relabels
      <3> QED  BY <3>2, RelabelsKeepsRecords DEF PositionStates, DoneStates
    <2> QED
      BY <1>2, <2>1, <2>2, <2>3, <2>4, <2>5, <2>6, AnswerKeepsRecords DEF PositionStep
  <1>3. ASSUME NEW p \in Plans, NEW ranking \in Rankings, NEW replace \in BOOLEAN,
               BuildPlan(p, ranking, replace)
        PROVE  Records'
    <2>1. status[p] = "none" /\ \A u \in Venues : state[p][u] = "absent"
      BY <1>3 DEF BuildPlan, InPlaceOfActive, NextPlan, Records, Bookkeeping
    <2>2. /\ \A q \in Plans : q # p => state'[q] = state[q]
          /\ \A u \in Venues : state'[p][u] \in {"queued", "absent"}
          /\ \A q \in Plans : status'[q] = "none" => status[q] = "none" /\ q # p
          /\ UNCHANGED <<submitted, answer, revision>>
      BY <1>3, <2>1 DEF BuildPlan, InPlaceOfActive, TypeOK, answerVars
    <2>3. DeclineIsAnswered'
      BY <2>1, <2>2 DEF Records, DeclineIsAnswered
    <2>4. Bookkeeping'
      BY <2>1, <2>2 DEF Records, Bookkeeping, NeverSent
    <2> QED  BY <2>3, <2>4 DEF Records
  <1>4. ASSUME NEW p \in Plans, Stop(p) PROVE Records'
    <2>1. /\ UNCHANGED <<state, submitted, answer, revision>>
          /\ \A q \in Plans : status'[q] = "none" => status[q] = "none"
      BY <1>4 DEF Stop, TypeOK, answerVars
    <2> QED  BY <2>1 DEF Records, DeclineIsAnswered, Bookkeeping
  <1> QED
    BY <1>1, <1>2, <1>3, <1>4 DEF Next

(***************************************************************************)
(* The theorems.                                                           *)
(***************************************************************************)

\* IInv holds in every reachable state: the whole inductive argument.
THEOREM Invariance == Spec => []IInv
  <1>1. IInv /\ [Next]_vars => IInv'
    <2> SUFFICES ASSUME IInv, [Next]_vars PROVE IInv'
      OBVIOUS
    <2>1. TypeOK' /\ OneLivePosition' /\ QueueKeepsItsOrder' /\ OneActivePlan'
      BY TypeStep, OneLiveStep, OrderStep, OneActiveStep DEF IInv
    <2>2. CompletedMeansAccepted'
      BY CompletedStep
    <2>3. Records'
      BY RecordsStep DEF IInv, Records
    <2> QED
      BY <2>1, <2>2, <2>3 DEF IInv, Records
  <1> QED
    BY InitEstablishes, <1>1, PTL DEF Spec

\* Every field of every plan and position keeps the values the models allow.
THEOREM TypeCorrect == Spec => []TypeOK
  <1>1. IInv => TypeOK
    BY DEF IInv
  <1> QED  BY Invariance, <1>1, PTL

\* No simultaneous submission within a plan, for any number of venues and plans.
THEOREM OneVenueOfAPlan == Spec => []OneLivePosition
  <1>1. IInv => OneLivePosition
    BY DEF IInv
  <1> QED  BY Invariance, <1>1, PTL

\* A manuscript never has two plans that accept steps.
THEOREM OneActive == Spec => []OneActivePlan
  <1>1. IInv => OneActivePlan
    BY DEF IInv
  <1> QED  BY Invariance, <1>1, PTL

\* The venues tried come before the venues still queued, through every skip and
\* every re-check against a revised version.
THEOREM OrderIsKept == Spec => []QueueKeepsItsOrder
  <1>1. IInv => QueueKeepsItsOrder
    BY DEF IInv
  <1> QED  BY Invariance, <1>1, PTL

\* A plan with a queued venue has a first one: the natural numbers are well
\* founded, so some queued place is preceded by no other.
LEMMA FirstExists ==
  ASSUME TypeOK, NEW p \in Plans, HasState(p, {"queued"})
  PROVE  \E v \in Venues : FirstQueued(p, v)
  <1> DEFINE Places == {order[p][v] : v \in {u \in Venues : state[p][u] = "queued"}}
             Before == {d \in Nat \X Nat : d[1] < d[2]}
  <1>1. Places \subseteq Nat /\ Places # {}
    BY BoundsAssumption DEF TypeOK, HasState
  <1>2. IsWellFoundedOn(Before, Nat)
    BY NatLessThanWellFounded DEF OpToRel
  <1>3. PICK n \in Places : \A m \in Places : <<m, n>> \notin Before
    <2> HIDE DEF Places, Before
    <2> QED  BY <1>1, <1>2, WFMin
  <1>4. PICK v \in Venues : state[p][v] = "queued" /\ order[p][v] = n
    BY <1>3
  <1>5. ASSUME NEW u \in Venues, state[p][u] = "queued" PROVE order[p][v] <= order[p][u]
    <2>1. order[p][u] \in Places
      BY <1>5
    <2>2. n \in Nat /\ order[p][u] \in Nat
      BY <1>1, <2>1
    <2>3. ~(order[p][u] < n)
      <3> HIDE DEF Places
      <3> QED  BY <1>3, <2>1, <2>2
    <2> QED  BY <1>4, <2>2, <2>3
  <1> QED  BY <1>4, <1>5 DEF FirstQueued

\* An active plan with venues left and nothing in progress has exactly one venue
\* that may be started: its places are distinct, and one of them is the first.
THEOREM NextVenueDefinite == Spec => []NextVenueIsDefinite
  <1>1. IInv => NextVenueIsDefinite
    <2> SUFFICES ASSUME IInv, NEW p \in Plans, status[p] = "active",
                        ~HasState(p, LiveStates), HasState(p, {"queued"})
                 PROVE  \E v \in Venues :
                           MayStart(p, v) /\ \A u \in Venues : MayStart(p, u) => u = v
      BY DEF NextVenueIsDefinite
    <2>1. PICK v \in Venues : FirstQueued(p, v)
      BY FirstExists DEF IInv
    <2>2. ASSUME NEW u \in Venues, FirstQueued(p, u) PROVE u = v
      <3>1. order[p][u] \in Nat /\ order[p][v] \in Nat
        BY BoundsAssumption DEF IInv, TypeOK
      <3>2. order[p][u] = order[p][v]
        BY <2>1, <2>2, <3>1 DEF FirstQueued
      <3> QED  BY <2>1, <2>2, <3>2 DEF FirstQueued, IInv, QueueKeepsItsOrder
    <2> QED  BY <2>1, <2>2 DEF MayStart
  <1> QED  BY Invariance, <1>1, PTL

\* A plan is completed exactly when a venue of it accepted, with nothing live.
THEOREM CompletedIsAccepted == Spec => []CompletedMeansAccepted
  <1>1. IInv => CompletedMeansAccepted
    BY DEF IInv
  <1> QED  BY Invariance, <1>1, PTL

\* A closed position carries its answer, and a revision is newer than what was declined.
THEOREM DeclinesAreAnswered == Spec => []DeclineIsAnswered
  <1>1. IInv => DeclineIsAnswered
    BY DEF IInv
  <1> QED  BY Invariance, <1>1, PTL

\* What a venue saw only ever gets newer.
THEOREM SeenVersionGrows == Spec => SeenVersionOnlyGrows
  <1> DEFINE Grows ==
        \A p \in Plans : \A v \in Venues :
          /\ submitted'[p][v] >= submitted[p][v]
          /\ state[p][v] = "revise_resubmit" /\ state'[p][v] = "submitted"
               => submitted'[p][v] > submitted[p][v]
  <1>1. IInv /\ [Next]_vars => [Grows]_vars
    <2> SUFFICES ASSUME IInv, [Next]_vars PROVE Grows \/ UNCHANGED vars
      OBVIOUS
    <2>0. TypeOK /\ Bookkeeping /\ \A q \in Plans : \A u \in Venues : submitted[q][u] \in Nat
      BY BoundsAssumption DEF IInv, TypeOK
    <2> HIDE DEF Grows
    <2> DEFINE Same == /\ submitted' = submitted
                       /\ \A q \in Plans : \A u \in Venues :
                            state'[q][u] = "submitted" => state[q][u] # "revise_resubmit"
    <2>1. Same => Grows
      BY <2>0 DEF Grows
    <2> HIDE DEF Same
    <2>2. CASE ManuscriptStep
      BY <2>1, <2>2
      DEF Same, ManuscriptStep, AddVersion, EditText, CheckReadiness, GenerateMatches, planVars
    <2>3. ASSUME NEW p \in Plans, NEW v \in Venues, PositionStep(p, v) PROVE Grows
      <3>1. CASE Start(p, v)
        <4>1. PositionEffect(p, v, "preparing")  BY <2>0, <3>1, MovingSteps
        <4> QED  BY <2>1, <3>1, <4>1 DEF Same, PositionEffect, Start
      <3>2. ASSUME NEW version \in Versions, MarkSubmitted(p, v, version) PROVE Grows
        <4>1. PositionEffect(p, v, "submitted") /\ state[p][v] = "preparing"
          BY <2>0, <3>2, MovingSteps DEF MarkSubmitted
        <4>2. \A q \in Plans : \A u \in Venues :
                 submitted'[q][u] = IF q = p /\ u = v THEN version ELSE submitted[q][u]
          <5>1. submitted' = [submitted EXCEPT ![p][v] = version]
            BY <3>2 DEF MarkSubmitted
          <5> QED  BY <2>0, <5>1, VersionValues, TableUpdate DEF TypeOK
        <4>3. submitted[p][v] = 0
          BY <2>0, <4>1 DEF Bookkeeping, NeverSent
        <4> QED  BY <2>0, <4>1, <4>2, <4>3, VersionValues DEF Grows, PositionEffect
      <3>3. CASE MarkUnderReview(p, v)
        <4>1. PositionEffect(p, v, "under_review")  BY <2>0, <3>3, MovingSteps
        <4> QED  BY <2>1, <3>3, <4>1 DEF Same, PositionEffect, MarkUnderReview
      <3>4. CASE ReportAccepted(p, v)
        <4>1. PositionEffect(p, v, "accepted")  BY <2>0, <3>4, MovingSteps
        <4> QED  BY <2>1, <3>4, <4>1 DEF Same, PositionEffect, ReportAccepted
      <3>5. ASSUME NEW outcome \in DOMAIN OutcomeState, ReportOutcome(p, v, outcome)
            PROVE  Grows
        <4>1. /\ OutcomeState[outcome] \in {"revise_resubmit", "awaiting_author", "withdrawn"}
              /\ PositionEffect(p, v, OutcomeState[outcome])
          BY <2>0, <3>5, MovingSteps
        <4> QED  BY <2>1, <3>5, <4>1 DEF Same, PositionEffect, ReportOutcome
      <3>6. ASSUME NEW version \in Versions, Resubmit(p, v, version) PROVE Grows
        <4>1. PositionEffect(p, v, "submitted") /\ state[p][v] = "revise_resubmit"
          BY <2>0, <3>6, MovingSteps DEF Resubmit
        <4>2. \A q \in Plans : \A u \in Venues :
                 submitted'[q][u] = IF q = p /\ u = v THEN version ELSE submitted[q][u]
          <5>1. submitted' = [submitted EXCEPT ![p][v] = version]
            BY <3>6 DEF Resubmit
          <5> QED  BY <2>0, <5>1, VersionValues, TableUpdate DEF TypeOK
        <4>3. version > submitted[p][v]
          BY <2>0, <3>6, <4>1 DEF Resubmit, NewerVersion, Baseline, Bookkeeping, NeverSent
        <4> QED  BY <2>0, <4>1, <4>2, <4>3, VersionValues DEF Grows, PositionEffect
      <3>7. CASE AnswerUnchanged(p, v)
        <4>1. PositionEffect(p, v, "closed")  BY <2>0, <3>7, MovingSteps
        <4> QED  BY <2>1, <3>7, <4>1 DEF Same, PositionEffect, AnswerUnchanged
      <3>8. ASSUME NEW version \in Versions, NEW ranking \in Rankings,
                   AnswerRevised(p, v, version, ranking)
            PROVE  Grows
        <4>1. \A q \in Plans : \A u \in Venues :
                 state'[q][u] = "submitted" => state[q][u] = "submitted"
          BY <2>0, <3>8, AnswerRevisedEffect
        <4> QED  BY <2>1, <3>8, <4>1 DEF Same, AnswerRevised
      <3>9. CASE Skip(p, v)
        <4>1. PositionEffect(p, v, "skipped")  BY <2>0, <3>9, MovingSteps
        <4> QED  BY <2>1, <3>9, <4>1 DEF Same, PositionEffect, Skip
      <3> QED
        BY <2>3, <3>1, <3>2, <3>3, <3>4, <3>5, <3>6, <3>7, <3>8, <3>9 DEF PositionStep
    <2>4. ASSUME NEW p \in Plans, NEW ranking \in Rankings, NEW replace \in BOOLEAN,
                 BuildPlan(p, ranking, replace)
          PROVE  Grows
      <3>1. \A q \in Plans : \A u \in Venues :
               state'[q][u] = "submitted" => state[q][u] = "submitted"
        BY <2>0, <2>4 DEF BuildPlan, InPlaceOfActive, TypeOK
      <3> QED  BY <2>1, <2>4, <3>1 DEF Same, BuildPlan, InPlaceOfActive
    <2>5. ASSUME NEW p \in Plans, Stop(p) PROVE Grows
      BY <2>1, <2>5 DEF Same, Stop
    <2> QED
      BY <2>2, <2>3, <2>4, <2>5 DEF Next
  <1> QED
    BY Invariance, <1>1, PTL DEF Spec, SeenVersionOnlyGrows

(***************************************************************************)
(* A plan implements OneAtATime.                                           *)
(***************************************************************************)

\* What the abstract plan sees of a plan and its positions is the same before
\* and after: the step is a stutter of it.
SameView(p) == /\ status'[p] = status[p]
               /\ \A u \in Venues : state'[p][u] = state[p][u]

LEMMA SameViewStutters ==
  ASSUME NEW p \in Plans, SameView(p)
  PROVE  PromiseStep(p)
  BY DEF SameView, PromiseStep, Promise!vars, Phase, VenuesIn

\* Every step of the plans is, for each plan, a step of OneAtATime or a stutter.
LEMMA PromiseSimulation ==
  ASSUME IInv, IInv', [Next]_vars, NEW p \in Plans
  PROVE  PromiseStep(p)
  <1>0. TypeOK /\ OneLivePosition /\ Bookkeeping /\ OneActivePlan
    BY DEF IInv
  <1> USE DEF LiveStates, WithVenue
  <1>1. CASE ManuscriptStep \/ UNCHANGED vars
    <2>1. SameView(p)
      BY <1>1 DEF SameView, ManuscriptStep, AddVersion, EditText, CheckReadiness, GenerateMatches,
           planVars, vars
    <2> QED  BY <2>1, SameViewStutters
  <1>2. ASSUME NEW q \in Plans, NEW v \in Venues, PositionStep(q, v), q # p
        PROVE  SameView(p)
    <2>1. status'[p] = status[p]
      BY <1>0, <1>2
      DEF TypeOK, PositionStep, Start, MarkSubmitted, MarkUnderReview, ReportAccepted,
          ReportOutcome, Resubmit, AnswerUnchanged, AnswerRevised, Skip
    <2>2. \A u \in Venues : state'[p][u] = state[p][u]
      BY <1>0, <1>2
      DEF TypeOK, PositionStep, Move, Start, MarkSubmitted, MarkUnderReview, ReportAccepted,
          ReportOutcome, Resubmit, AnswerUnchanged, AnswerRevised, Skip
    <2> QED  BY <2>1, <2>2 DEF SameView
  <1>3. ASSUME NEW v \in Venues, PositionStep(p, v) PROVE PromiseStep(p)
    <2> USE DEF PromiseStep, Promise!vars, Promise!Next, Phase, VenuesIn
    <2>1. CASE Start(p, v)
      <3>1. PositionEffect(p, v, "preparing")  BY <1>0, <2>1, MovingSteps
      <3>2. status' = status /\ status[p] = "active" /\ state[p][v] = "queued"
            /\ \A u \in Venues : state[p][u] \notin LiveStates
        BY <2>1 DEF Start, FirstQueued, HasState
      <3>3. VenuesIn(p, {"queued"})' = VenuesIn(p, {"queued"}) \ {v}
        BY <3>1, <3>2 DEF PositionEffect
      <3>4. VenuesIn(p, LiveStates) = {} /\ VenuesIn(p, LiveStates)' = {v}
        BY <3>1, <3>2 DEF PositionEffect
      <3>5. VenuesIn(p, {"awaiting_author"})' = VenuesIn(p, {"awaiting_author"})
        BY <3>1, <3>2 DEF PositionEffect
      <3>6. Phase(p) = "open" /\ Phase(p)' = Phase(p) /\ v \in VenuesIn(p, {"queued"})
        BY <3>2
      <3>7. Promise(p)!Try
        BY <3>3, <3>4, <3>5, <3>6 DEF Promise!Try
      <3> QED  BY <3>7
    <2>2. ASSUME NEW to \in PositionStates, PositionEffect(p, v, to), status' = status,
                 state[p][v] \in LiveStates \ {"awaiting_author"},
                 to \in LiveStates \ {"awaiting_author"}
          PROVE  PromiseStep(p)
      <3>1. VenuesIn(p, {"queued"})' = VenuesIn(p, {"queued"})
        BY <2>2 DEF PositionEffect
      <3>2. VenuesIn(p, LiveStates)' = VenuesIn(p, LiveStates)
        BY <2>2 DEF PositionEffect
      <3>3. VenuesIn(p, {"awaiting_author"})' = VenuesIn(p, {"awaiting_author"})
        BY <2>2 DEF PositionEffect
      <3>4. Phase(p)' = Phase(p)
        BY <2>2
      <3> QED  BY <3>1, <3>2, <3>3, <3>4
    <2>3. ASSUME NEW version \in Versions,
                 MarkSubmitted(p, v, version) \/ Resubmit(p, v, version)
          PROVE  PromiseStep(p)
      <3>1. PositionEffect(p, v, "submitted")  BY <1>0, <2>3, MovingSteps
      <3>2. status' = status /\ state[p][v] \in {"preparing", "revise_resubmit"}
        BY <2>3 DEF MarkSubmitted, Resubmit
      <3> QED  BY <2>2, <3>1, <3>2 DEF PositionStates
    <2>4. CASE MarkUnderReview(p, v)
      <3>1. PositionEffect(p, v, "under_review")  BY <1>0, <2>4, MovingSteps
      <3>2. status' = status /\ state[p][v] = "submitted"
        BY <2>4 DEF MarkUnderReview
      <3> QED  BY <2>2, <3>1, <3>2 DEF PositionStates
    \* By OneLivePosition the venue that reports is the one the plan is at.
    <2>5. ASSUME state[p][v] \in LiveStates
          PROVE  /\ VenuesIn(p, LiveStates) = {v}
                 /\ VenuesIn(p, {"awaiting_author"}) =
                       IF state[p][v] = "awaiting_author" THEN {v} ELSE {}
      <3>1. \A u \in Venues : state[p][u] \in LiveStates => u = v
        BY <1>0, <2>5 DEF OneLivePosition
      <3> QED  BY <2>5, <3>1
    <2>6. CASE ReportAccepted(p, v)
      <3>1. PositionEffect(p, v, "accepted")  BY <1>0, <2>6, MovingSteps
      <3>2. status[p] = "active" /\ status'[p] = "completed" /\ state[p][v] \in WithVenue
        BY <1>0, <2>6 DEF ReportAccepted, TypeOK
      <3>3. VenuesIn(p, LiveStates) = {v} /\ VenuesIn(p, {"awaiting_author"}) = {}
        BY <2>5, <3>2
      <3>4. \A u \in Venues : state'[p][u] \in LiveStates => state[p][u] \in LiveStates /\ u # v
        BY <3>1 DEF PositionEffect
      <3>5. VenuesIn(p, LiveStates)' = {}
        BY <3>3, <3>4
      <3>6. VenuesIn(p, {"awaiting_author"})' = {}
        BY <3>5
      <3>7. VenuesIn(p, {"queued"})' = VenuesIn(p, {"queued"})
        BY <3>1, <3>2 DEF PositionEffect
      <3>8. Phase(p) = "open" /\ Phase(p)' = "won"
        BY <3>2
      <3>9. Promise(p)!Win
        BY <3>3, <3>5, <3>6, <3>7, <3>8 DEF Promise!Win
      <3> QED  BY <3>9
    <2>7. ASSUME NEW outcome \in DOMAIN OutcomeState, ReportOutcome(p, v, outcome)
          PROVE  PromiseStep(p)
      <3> DEFINE to == OutcomeState[outcome]
      <3>1. to \in {"revise_resubmit", "awaiting_author", "withdrawn"}
            /\ PositionEffect(p, v, to)
        BY <1>0, <2>7, MovingSteps
      <3> HIDE DEF to
      <3>2. status[p] = "active" /\ status' = status /\ state[p][v] \in WithVenue
        BY <2>7 DEF ReportOutcome
      <3>3. VenuesIn(p, LiveStates) = {v} /\ VenuesIn(p, {"awaiting_author"}) = {}
        BY <2>5, <3>2
      <3>4. VenuesIn(p, {"queued"})' = VenuesIn(p, {"queued"})
        BY <3>1, <3>2 DEF PositionEffect
      <3>5. Phase(p) = "open" /\ Phase(p)' = Phase(p)
        BY <3>2
      <3>6. CASE to = "revise_resubmit"
        BY <2>2, <3>1, <3>2, <3>6 DEF PositionStates
      <3>7. CASE to = "awaiting_author"
        <4>1. VenuesIn(p, LiveStates)' = VenuesIn(p, LiveStates)
          BY <3>1, <3>2, <3>7 DEF PositionEffect
        <4>2. \A u \in Venues : state'[p][u] = "awaiting_author" <=> u = v
          BY <3>1, <3>3, <3>7 DEF PositionEffect
        <4>3. VenuesIn(p, {"awaiting_author"})' = {v}
          BY <4>2
        <4>4. Promise(p)!Decline
          BY <3>3, <3>4, <3>5, <4>1, <4>3 DEF Promise!Decline
        <4> QED  BY <4>4
      <3>8. CASE to = "withdrawn"
        <4>1. \A u \in Venues :
                 state'[p][u] \in LiveStates => state[p][u] \in LiveStates /\ u # v
          BY <3>1, <3>8 DEF PositionEffect
        <4>2. VenuesIn(p, LiveStates)' = {} /\ VenuesIn(p, {"awaiting_author"})' = {}
          BY <3>3, <4>1
        <4>3. Promise(p)!Withdraw
          BY <3>3, <3>4, <3>5, <4>2 DEF Promise!Withdraw
        <4> QED  BY <4>3
      <3> QED  BY <3>1, <3>6, <3>7, <3>8
    \* Either answer closes the position; a re-check may shorten the queue.
    <2>8. ASSUME status[p] = "active", status' = status, state[p][v] = "awaiting_author",
                 \A u \in Venues :
                    /\ state'[p][u] \in LiveStates => state[p][u] \in LiveStates /\ u # v
                    /\ state'[p][u] = "queued" => state[p][u] = "queued"
          PROVE  PromiseStep(p)
      <3>1. VenuesIn(p, LiveStates) = {v} /\ VenuesIn(p, {"awaiting_author"}) = {v}
        BY <2>5, <2>8
      <3>2. VenuesIn(p, LiveStates)' = {} /\ VenuesIn(p, {"awaiting_author"})' = {}
        BY <2>8, <3>1
      <3>3. VenuesIn(p, {"queued"})' \in SUBSET VenuesIn(p, {"queued"})
        BY <2>8
      <3>4. Phase(p) = "open" /\ Phase(p)' = Phase(p)
        BY <2>8
      <3>5. Promise(p)!Answer
        BY <3>1, <3>2, <3>3, <3>4 DEF Promise!Answer
      <3> QED  BY <3>5
    <2>9. CASE AnswerUnchanged(p, v)
      <3>1. PositionEffect(p, v, "closed")  BY <1>0, <2>9, MovingSteps
      <3>2. status[p] = "active" /\ status' = status /\ state[p][v] = "awaiting_author"
        BY <2>9 DEF AnswerUnchanged
      <3> QED  BY <2>8, <3>1, <3>2 DEF PositionEffect
    <2>10. ASSUME NEW version \in Versions, NEW ranking \in Rankings,
                  AnswerRevised(p, v, version, ranking)
           PROVE  PromiseStep(p)
      <3>1. status[p] = "active" /\ status' = status /\ state[p][v] = "awaiting_author"
        BY <2>10 DEF AnswerRevised
      <3>2. \A u \in Venues :
               /\ state'[p][u] \in LiveStates => state[p][u] \in LiveStates /\ u # v
               /\ state'[p][u] = "queued" => state[p][u] = "queued"
        BY <1>0, <2>10, AnswerRevisedEffect
      <3> QED  BY <2>8, <3>1, <3>2
    <2>11. CASE Skip(p, v)
      <3>1. PositionEffect(p, v, "skipped")  BY <1>0, <2>11, MovingSteps
      <3>2. status[p] = "active" /\ status' = status /\ state[p][v] = "queued"
        BY <2>11 DEF Skip
      <3>3. VenuesIn(p, {"queued"})' = VenuesIn(p, {"queued"}) \ {v}
        BY <3>1, <3>2 DEF PositionEffect
      <3>4. VenuesIn(p, LiveStates)' = VenuesIn(p, LiveStates)
            /\ VenuesIn(p, {"awaiting_author"})' = VenuesIn(p, {"awaiting_author"})
        BY <3>1, <3>2 DEF PositionEffect
      <3>5. Phase(p) = "open" /\ Phase(p)' = Phase(p) /\ v \in VenuesIn(p, {"queued"})
        BY <3>2
      <3>6. Promise(p)!Drop
        BY <3>3, <3>4, <3>5 DEF Promise!Drop
      <3> QED  BY <3>6
    <2> QED
      BY <1>3, <2>1, <2>3, <2>4, <2>6, <2>7, <2>9, <2>10, <2>11 DEF PositionStep
  <1>4. ASSUME NEW q \in Plans, NEW ranking \in Rankings, NEW replace \in BOOLEAN,
               BuildPlan(q, ranking, replace)
        PROVE  PromiseStep(p)
    <2> USE DEF PromiseStep, Promise!vars, Promise!Next, Phase, VenuesIn
    <2>1. CASE q = p
      <3>1. status[p] = "none" /\ \A u \in Venues : state[p][u] = "absent"
        BY <1>0, <1>4, <2>1 DEF BuildPlan, InPlaceOfActive, NextPlan, Bookkeeping
      <3>2. /\ status'[p] = "active"
            /\ \A u \in Venues : state'[p][u] = IF ranking[u] > 0 THEN "queued" ELSE "absent"
            /\ \E u \in Venues : ranking[u] > 0
        BY <1>0, <1>4, <2>1 DEF BuildPlan, InPlaceOfActive, TypeOK
      <3>3. VenuesIn(p, {"queued"})' \in SUBSET Venues /\ VenuesIn(p, {"queued"})' # {}
        BY <3>2
      <3>4. /\ VenuesIn(p, LiveStates) = {} /\ VenuesIn(p, LiveStates)' = {}
            /\ VenuesIn(p, {"awaiting_author"}) = {} /\ VenuesIn(p, {"awaiting_author"})' = {}
        BY <3>1, <3>2
      <3>5. Phase(p) = "none" /\ Phase(p)' = "open"
        BY <3>1, <3>2
      <3>6. Promise(p)!Build
        BY <3>3, <3>4, <3>5 DEF Promise!Build
      <3> QED  BY <3>6
    <2>2. CASE q # p /\ status[p] = "active"
      <3>1. status'[p] = "stopped" /\ state'[p] = state[p]
        BY <1>0, <1>4, <2>2 DEF BuildPlan, InPlaceOfActive, TypeOK
      <3>2. Promise(p)!Stop
        BY <2>2, <3>1 DEF Promise!Stop
      <3> QED  BY <3>2
    <2>3. CASE q # p /\ status[p] # "active"
      <3>1. SameView(p)
        BY <1>0, <1>4, <2>3 DEF BuildPlan, InPlaceOfActive, TypeOK, SameView
      <3> QED  BY <3>1, SameViewStutters
    <2> QED  BY <2>1, <2>2, <2>3
  <1>5. ASSUME NEW q \in Plans, Stop(q) PROVE PromiseStep(p)
    <2>1. state' = state /\ status[q] = "active" /\ status' = [status EXCEPT ![q] = "stopped"]
      BY <1>5 DEF Stop
    <2>2. CASE q = p
      <3>1. status[p] = "active" /\ status'[p] = "stopped" /\ state' = state
        BY <1>0, <2>1, <2>2 DEF TypeOK
      <3>2. Promise(p)!Stop
        BY <3>1 DEF Promise!Stop, Phase, VenuesIn
      <3> QED  BY <3>2 DEF PromiseStep, Promise!Next
    <2>3. CASE q # p
      <3>1. SameView(p)
        BY <1>0, <2>1, <2>3 DEF TypeOK, SameView
      <3> QED  BY <3>1, SameViewStutters
    <2> QED  BY <2>2, <2>3
  <1> QED
    BY <1>1, <1>2, <1>3, <1>4, <1>5, SameViewStutters DEF Next

\* The implementation of submission plans keeps the promise of a plan.
THEOREM KeepsThePromise == Spec => KeepsPromise
  <1>1. Init => \A p \in Plans : Promise(p)!Init
    BY DEF Init, Promise!Init, Phase, VenuesIn, LiveStates
  <1>2. IInv /\ IInv' /\ [Next]_vars => [\A p \in Plans : PromiseStep(p)]_vars
    BY PromiseSimulation
  <1> QED
    BY Invariance, <1>1, <1>2, PTL DEF Spec, KeepsPromise
=============================================================================
