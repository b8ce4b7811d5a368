----------------------------- MODULE VenueConfigs -----------------------------
(***************************************************************************)
(* The configurations of one venue agent (VenueAgentConfig): versions that *)
(* people post, that discovery reads from the official pages, and drafts   *)
(* made of the active version and the feedback of editors.  A person may   *)
(* activate any of them.  Each of these requests is a transaction that     *)
(* locks the row of the venue first and reads the versions after it; no    *)
(* constraint of the database says that one version is active.             *)
(*                                                                         *)
(* The content of a version is, for every field, who wrote it last: a      *)
(* feedback, or a person or a page (0).                                    *)
(*                                                                         *)
(* Bounds: Requests at once, MaxVersion, MaxFeedback (feedback is numbered *)
(* in the order it was given), Fields (those a draft may change).          *)
(***************************************************************************)
EXTENDS Naturals, Sequences

CONSTANTS Requests, Fields, MaxVersion, MaxFeedback

VARIABLES
    configs,   \* the versions: active, content, the feedback a draft was made of
    feedback,  \* EditorFeedback in the order it was given: field, applied_to_config (0: none)
    changed,   \* the discovered venue has changes that wait to be applied
    at         \* per request: the handler that holds the lock, and what it has read

vars == <<configs, feedback, changed, at>>

Idle == [handler |-> "none"]
Versions == 1..Len(configs)
ActiveOf(versions) == {v \in DOMAIN versions : versions[v].active}

\* Feedback on the assessment itself ("other") cannot modify the rules of the venue.
Draftable(f) == f.field \in Fields

Init ==
    /\ configs = <<>>
    /\ feedback = <<>>
    /\ changed = FALSE
    /\ at = [q \in Requests |-> Idle]

\* Mutant: the row of the venue is read without a lock.
NeverLocked == FALSE

\* Venue.objects.select_for_update() waits for the transaction that has the row.
Locked == \E q \in Requests : at[q].handler # "none"

Lock(q, handler) ==
    /\ at[q].handler = "none" /\ ~Locked
    /\ at' = [at EXCEPT ![q] = [handler |-> handler, configs |-> configs, feedback |-> feedback]]

Answer(q) == at' = [at EXCEPT ![q] = Idle]

(***************************************************************************)
(* The handlers, from the lock to the commit.                              *)
(***************************************************************************)

\* Mutant: the versions that were active stay so.
NothingDeactivated(versions, seen) == versions

\* filter(active=True).update(active=False), of the versions the handler sees.
Deactivated(versions, seen) ==
    [v \in DOMAIN versions |-> [versions[v] EXCEPT !.active = @ /\ v \notin ActiveOf(seen)]]

\* The version after the latest; the unique constraint refuses one that exists.
IsNext(q) == Len(configs) = Len(at[q].configs)
Version(active, content, from) == [active |-> active, content |-> content, from |-> from]

\* admin_venue_config: a person posts a configuration, which is active at once.
Post(q) ==
    /\ at[q].handler = "post"
    /\ IF IsNext(q)
       THEN configs' = Append(Deactivated(configs, at[q].configs), Version(TRUE, [f \in Fields |-> 0], {}))
       ELSE UNCHANGED configs
    /\ Answer(q)
    /\ UNCHANGED <<feedback, changed>>

\* apply_discovered_changes: so is what discovery read, once.
ApplyChanges(q) ==
    /\ at[q].handler = "apply"
    /\ IF changed /\ IsNext(q)
       THEN /\ configs' = Append(Deactivated(configs, at[q].configs), Version(TRUE, [f \in Fields |-> 0], {}))
            /\ changed' = FALSE
       ELSE UNCHANGED <<configs, changed>>
    /\ Answer(q)
    /\ UNCHANGED feedback

\* Each field takes the last of the chosen feedback about it.
Updated(content, chosen) ==
    [f \in Fields |->
        LET about == {i \in chosen : feedback[i].field = f}
        IN  IF about = {} THEN content[f] ELSE CHOOSE i \in about : \A k \in about : k <= i]

\* admin_feedback_draft_config: a draft of the active version and chosen feedback,
\* all of it not applied yet and about fields of the configuration.
Draft(q) ==
    /\ at[q].handler = "draft"
    /\ LET seen == at[q]
           usable == {i \in DOMAIN seen.feedback : seen.feedback[i].applied = 0 /\ Draftable(seen.feedback[i])}
       IN  \/ \E chosen \in SUBSET usable \ {{}}, v \in ActiveOf(seen.configs) :
                 /\ \A w \in ActiveOf(seen.configs) : w <= v
                 /\ IsNext(q)
                 /\ configs' = Append(configs, Version(FALSE, Updated(seen.configs[v].content, chosen), chosen))
                 /\ feedback' = [i \in DOMAIN feedback |->
                                    IF i \in chosen THEN [feedback[i] EXCEPT !.applied = Len(configs) + 1]
                                    ELSE feedback[i]]
           \/ UNCHANGED <<configs, feedback>>
    /\ Answer(q)
    /\ UNCHANGED changed

\* admin_activate_venue_config
Activate(q) ==
    /\ at[q].handler = "activate"
    /\ \E v \in DOMAIN at[q].configs :
          configs' = [Deactivated(configs, at[q].configs) EXCEPT ![v].active = TRUE]
    /\ Answer(q)
    /\ UNCHANGED <<feedback, changed>>

(***************************************************************************)
(* Requests that take no lock.                                             *)
(***************************************************************************)

\* admin_editor_feedback
GiveFeedback ==
    /\ Len(feedback) < MaxFeedback
    /\ \E f \in Fields \union {"other"} : feedback' = Append(feedback, [field |-> f, applied |-> 0])
    /\ UNCHANGED <<configs, changed, at>>

\* A discovery run reads the pages of the live venue again, and they differ.
ReadChanges ==
    /\ configs # <<>> /\ ~changed
    /\ changed' = TRUE
    /\ UNCHANGED <<configs, feedback, at>>

Next ==
    \/ GiveFeedback \/ ReadChanges
    \/ \E q \in Requests :
          \/ /\ \/ Len(configs) < MaxVersion /\ \E handler \in {"post", "draft"} : Lock(q, handler)
                \/ Len(configs) < MaxVersion /\ changed /\ Lock(q, "apply")
                \/ configs # <<>> /\ Lock(q, "activate")
             /\ UNCHANGED <<configs, feedback, changed>>
          \/ Post(q) \/ ApplyChanges(q) \/ Draft(q) \/ Activate(q)

Spec == Init /\ [][Next]_vars

(***************************************************************************)
(* Properties.                                                             *)
(***************************************************************************)

\* A version is made of feedback that was given, and a request has one place.
TypeOK ==
    /\ configs \in Seq([active : BOOLEAN, content : [Fields -> 0..MaxFeedback], from : SUBSET (1..MaxFeedback)])
    /\ feedback \in Seq([field : Fields \union {"other"}, applied : 0..MaxVersion])
    /\ changed \in BOOLEAN
    /\ \A q \in Requests : at[q].handler \in {"none", "post", "apply", "draft", "activate"}

\* The readers take "the" active configuration of a venue: from the first version
\* on there is one, however posts, drafts, readings and activations interleave.
OneActiveConfig == configs # <<>> => \E v \in Versions : ActiveOf(configs) = {v}

\* A feedback is applied once: the draft it is marked with is the only one made of
\* it, and that draft says what the feedback says unless a later one of its own
\* feedback is about the same field.
FeedbackAppliedOnce ==
    /\ \A i \in DOMAIN feedback, v \in Versions : i \in configs[v].from <=> feedback[i].applied = v
    /\ \A i \in DOMAIN feedback :
          feedback[i].applied > 0 =>
              LET draft == configs[feedback[i].applied]
                  kept == draft.content[feedback[i].field]
              IN  kept \in draft.from /\ kept >= i
=============================================================================
