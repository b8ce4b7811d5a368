----------------------------- MODULE StorageQuota -----------------------------
(***************************************************************************)
(* The bytes authors may store (storage_quota.py), for the requests that   *)
(* store them: a new manuscript, an edit of the working copy, a new        *)
(* version, and a file that a venue requires with a submission.  Each      *)
(* looks at what it will replace, passes the guard and writes; the guard   *)
(* holds one row for all authors from its check to the commit.  The        *)
(* retention sweep removes content without asking the guard.               *)
(*                                                                         *)
(* Owner is the author of a manuscript, or of an attachment: a requirement *)
(* of one submission of a manuscript.  Bounds: Manuscripts, Attachments,   *)
(* Requests at once, Sizes, AuthorLimit, TotalLimit.                       *)
(***************************************************************************)
EXTENDS Naturals, FiniteSetsExt

CONSTANTS Authors, Manuscripts, Attachments, Owner, Requests, Sizes, AuthorLimit, TotalLimit

VARIABLES
    bytes,     \* of the working copy of a manuscript, or of an attachment; 0 if there is none
    earlier,   \* of the versions of a manuscript before the current one
    gone,      \* the content was purged: content_purged_at, retention_purged_at
    sent,      \* the attachment's packet was formally submitted
    changed,   \* an attachment was changed after that
    at         \* per request: where it is, and what it read

vars == <<bytes, earlier, gone, sent, changed, at>>

Files == Manuscripts \union Attachments
Idle == [at |-> "idle"]
Goto(q, where) == at' = [at EXCEPT ![q] = where]

Init ==
    /\ bytes = [f \in Files |-> 0]
    /\ earlier = [m \in Manuscripts |-> 0]
    /\ gone = [f \in Files |-> FALSE]
    /\ sent = [f \in Attachments |-> FALSE]
    /\ changed = {}
    /\ at = [q \in Requests |-> Idle]

\* storage_usage: current files of what is not purged, and earlier versions.
Kept(owners) == {f \in Files : Owner[f] \in owners /\ ~gone[f]}
Versioned(owners) == {m \in Manuscripts : Owner[m] \in owners}
Usage(owners) ==
    MapThenSumSet(LAMBDA f : bytes[f], Kept(owners))
    + MapThenSumSet(LAMBDA m : earlier[m], Versioned(owners))

(***************************************************************************)
(* What a request reads before the guard.                                  *)
(***************************************************************************)

Loaded(kind, f, incoming, replacing) ==
    [at |-> "loaded", kind |-> kind, file |-> f, incoming |-> incoming, replacing |-> replacing]

\* author_manuscripts
LoadCreate(q, m, incoming) ==
    /\ at[q].at = "idle" /\ bytes[m] = 0 /\ ~gone[m]
    /\ \A r \in Requests : at[r].at # "idle" => at[r].file # m
    /\ Goto(q, Loaded("create", m, incoming, 0))

\* author_update_manuscript
LoadEdit(q, m, incoming) ==
    /\ at[q].at = "idle" /\ bytes[m] > 0 /\ ~gone[m]
    /\ Goto(q, Loaded("edit", m, incoming, bytes[m]))

\* author_manuscript_versions: the version before stays, so nothing is replaced.
LoadVersion(q, m, incoming) ==
    /\ at[q].at = "idle" /\ bytes[m] > 0 /\ ~gone[m]
    /\ Goto(q, Loaded("version", m, incoming, 0))

\* author_upload_submission_requirement
LoadAttachment(q, f, incoming) ==
    /\ at[q].at = "idle" /\ ~sent[f]
    /\ Goto(q, Loaded("attachment", f, incoming, bytes[f]))

(***************************************************************************)
(* storage_quota_guard.                                                    *)
(***************************************************************************)

\* The row 'global' of StorageQuotaState is locked until the transaction ends.
Guarded == \E r \in Requests : at[r].at = "guarded"

\* Mutant: what is stored already does not count.
FitsAlone(used, net, limit) == net <= limit

Fits(used, net, limit) == used + net <= limit

\* What the upload adds, never less than nothing.
NetNew(r) == IF r.incoming > r.replacing THEN r.incoming - r.replacing ELSE 0

EnterGuard(q) ==
    /\ at[q].at = "loaded" /\ ~Guarded
    /\ LET net == NetNew(at[q])
       IN  IF Fits(Usage(Authors), net, TotalLimit) /\ Fits(Usage({Owner[at[q].file]}), net, AuthorLimit)
           THEN Goto(q, [at[q] EXCEPT !.at = "guarded"])
           ELSE Goto(q, Idle)
    /\ UNCHANGED <<bytes, earlier, gone, sent, changed>>

\* Writing under the guard.  An edit looks again whether the content was purged; a
\* new version and an attachment do not.
WriteCreate(q) ==
    /\ at[q].at = "guarded" /\ at[q].kind = "create"
    /\ bytes' = [bytes EXCEPT ![at[q].file] = at[q].incoming]
    /\ Goto(q, Idle)
    /\ UNCHANGED <<earlier, gone, sent, changed>>

WriteEdit(q) ==
    /\ at[q].at = "guarded" /\ at[q].kind = "edit"
    /\ bytes' = IF gone[at[q].file] THEN bytes ELSE [bytes EXCEPT ![at[q].file] = at[q].incoming]
    /\ Goto(q, Idle)
    /\ UNCHANGED <<earlier, gone, sent, changed>>

WriteVersion(q) ==
    /\ at[q].at = "guarded" /\ at[q].kind = "version"
    /\ LET m == at[q].file
       IN  /\ earlier' = [earlier EXCEPT ![m] = @ + bytes[m]]
           /\ bytes' = [bytes EXCEPT ![m] = at[q].incoming]
    /\ Goto(q, Idle)
    /\ UNCHANGED <<gone, sent, changed>>

WriteAttachment(q) ==
    /\ at[q].at = "guarded" /\ at[q].kind = "attachment"
    /\ bytes' = [bytes EXCEPT ![at[q].file] = at[q].incoming]
    /\ changed' = IF sent[at[q].file] THEN changed \union {at[q].file} ELSE changed
    /\ Goto(q, Idle)
    /\ UNCHANGED <<earlier, gone, sent>>

\* Refused for another reason (a limit of versions, a running analysis, a text that
\* was sent in between), or the process dies: the transaction writes nothing.
Refuse(q) ==
    /\ at[q].at # "idle"
    /\ Goto(q, Idle)
    /\ UNCHANGED <<bytes, earlier, gone, sent, changed>>

(***************************************************************************)
(* Others.                                                                 *)
(***************************************************************************)

\* author_submit_packet: the packet of the attachment goes to the venue.
Submit(f) ==
    /\ ~sent[f]
    /\ sent' = [sent EXCEPT ![f] = TRUE]
    /\ UNCHANGED <<bytes, earlier, gone, changed, at>>

\* sweep_retention_task: a submission's attachments and, when no copy is
\* retained, the manuscript with its versions.
PurgeAttachment(f) ==
    /\ sent[f] /\ ~gone[f]
    /\ gone' = [gone EXCEPT ![f] = TRUE]
    /\ bytes' = [bytes EXCEPT ![f] = 0]
    /\ UNCHANGED <<earlier, sent, changed, at>>

PurgeEarlier(m) ==
    /\ earlier[m] > 0
    /\ earlier' = [earlier EXCEPT ![m] = 0]
    /\ UNCHANGED <<bytes, gone, sent, changed, at>>

PurgeManuscript(m) ==
    /\ bytes[m] > 0 /\ ~gone[m]
    /\ gone' = [gone EXCEPT ![m] = TRUE]
    /\ bytes' = [bytes EXCEPT ![m] = 0]
    /\ earlier' = [earlier EXCEPT ![m] = 0]
    /\ UNCHANGED <<sent, changed, at>>

Load ==
    /\ \E q \in Requests :
          \/ \E m \in Manuscripts, size \in Sizes :
                LoadCreate(q, m, size) \/ LoadEdit(q, m, size) \/ LoadVersion(q, m, size)
          \/ \E f \in Attachments, size \in Sizes \union {0} : LoadAttachment(q, f, size)
    /\ UNCHANGED <<bytes, earlier, gone, sent, changed>>

Next ==
    \/ Load
    \/ \E q \in Requests :
          EnterGuard(q) \/ WriteCreate(q) \/ WriteEdit(q) \/ WriteVersion(q) \/ WriteAttachment(q) \/ Refuse(q)
    \/ \E f \in Attachments : Submit(f) \/ PurgeAttachment(f)
    \/ \E m \in Manuscripts : PurgeEarlier(m) \/ PurgeManuscript(m)

Spec == Init /\ [][Next]_vars

(***************************************************************************)
(* Properties.                                                             *)
(***************************************************************************)

\* The bytes are those of uploads, and a request has one place.
TypeOK ==
    /\ bytes \in [Files -> {0} \union Sizes]
    /\ earlier \in [Manuscripts -> Nat]
    /\ gone \in [Files -> BOOLEAN]
    /\ sent \in [Attachments -> BOOLEAN]
    /\ changed \subseteq Attachments
    /\ \A q \in Requests : at[q].at \in {"idle", "loaded", "guarded"}

\* The bytes that an upload replaces are read before the guard and may be fewer by
\* the time it writes, so the limits can be passed; but by at most one file, of
\* an author and of all, however many uploads, versions and purges interleave:
\* above a limit no upload fits.
PassedByAtMostAFile ==
    /\ \E size \in Sizes \union {0} : Usage(Authors) <= TotalLimit + size
    /\ \A a \in Authors : \E size \in Sizes \union {0} : Usage({a}) <= AuthorLimit + size

\* "Submission requirement files can only be changed before formal submission."
SentAttachmentsStay == changed = {}
=============================================================================
