------------------------------ MODULE Retention ------------------------------
(***************************************************************************)
(* The stored files of one manuscript and the retention sweep: which file  *)
(* the working copy and each version point at, how an edit and the upload  *)
(* of a version change that (src/review/author_api.py and                  *)
(* manuscript_versions.py), and how sweep_retention_task removes what the  *)
(* venues no longer retain (src/review/tasks.py).                          *)
(*                                                                         *)
(* The sweep handles one packet per transaction and holds the manuscript   *)
(* row while it does, but a file is deleted from the disk before the rows  *)
(* are committed: a crash in between leaves rows that name a deleted file. *)
(* An edit and an upload check the manuscript before they take its row; an *)
(* edit deletes the file it replaced after its commit.  Packets are draft  *)
(* (draft or packet_ready) or sent; what they go through besides is in     *)
(* EditorialFlow.                                                          *)
(*                                                                         *)
(* Bounds: MaxVersion, MaxFiles (files ever stored).                       *)
(***************************************************************************)
EXTENDS Naturals

CONSTANTS Subs, MaxVersion, MaxFiles, Requests

ASSUME BoundsAssumption == MaxVersion \in Nat \ {0} /\ MaxFiles \in Nat \ {0}

VARIABLES
    current,    \* number of the current version
    workFile,   \* manuscript_file of the working copy; 0 when it was removed
    file,       \* file of each version; 0 when it has none
    purged,     \* content_purged_at of the manuscript is set
    verPurged,  \* the versions whose content_purged_at is set
    files,      \* number of files stored so far
    stored,     \* the files on the disk
    status,     \* "none", "draft" or "sent" for each packet
    version,    \* its version
    limited,    \* the packets whose venue set retention_days
    due,        \* the packets whose retention_expires_at has passed
    subPurged,  \* the packets whose retention_purged_at is set
    request,    \* what each web worker is doing
    sweep       \* what the sweep is doing

fileVars == <<files, stored>>
rowVars == <<current, workFile, file, purged, verPurged>>
packetVars == <<status, version, limited>>
vars == <<rowVars, fileVars, packetVars, due, subPurged, request, sweep>>

Versions == 1..MaxVersion
Existing == 1..current

Idle == [at |-> "idle"]
AtEdit(old) == [at |-> "edit", old |-> old]
AtClean(old) == [at |-> "clean", old |-> old]
AtUpload == [at |-> "upload"]
AtNext(listed) == [at |-> "next", listed |-> listed]
AtCommit(s, listed) == [at |-> "commit", sub |-> s, listed |-> listed]

Free(r) == request[r] = Idle
Goto(r, where) == request' = [request EXCEPT ![r] = where]
RowUnlocked == sweep.at # "commit"

Init ==
    /\ current = 1
    /\ workFile = 1
    /\ file = [v \in Versions |-> IF v = 1 THEN 1 ELSE 0]
    /\ purged = FALSE
    /\ verPurged = {}
    /\ files = 1 /\ stored = {1}
    /\ status = [s \in Subs |-> "none"]
    /\ version = [s \in Subs |-> 0]
    /\ limited = {} /\ due = {} /\ subPurged = {}
    /\ request = [r \in Requests |-> Idle]
    /\ sweep = Idle

(***************************************************************************)
(* Packets.                                                                *)
(***************************************************************************)

\* author_create_submission, for the current version.
Draft(s) ==
    /\ status[s] = "none"
    /\ RowUnlocked
    /\ status' = [status EXCEPT ![s] = "draft"]
    /\ version' = [version EXCEPT ![s] = current]
    /\ UNCHANGED <<rowVars, fileVars, limited, due, subPurged, request, sweep>>

\* author_submit_packet: the packet was assessed from the file of its version,
\* and the venue's retention window is fixed now.
Submit(s, days) ==
    /\ status[s] = "draft"
    /\ file[version[s]] \in stored
    /\ status' = [status EXCEPT ![s] = "sent"]
    /\ limited' = IF days THEN limited \union {s} ELSE limited
    /\ UNCHANGED <<rowVars, fileVars, version, due, subPurged, request, sweep>>

\* The window ends.
Expires(s) ==
    /\ s \in limited \ due
    /\ due' = due \union {s}
    /\ UNCHANGED <<rowVars, fileVars, packetVars, subPurged, request, sweep>>

(***************************************************************************)
(* The author changes the text.                                            *)
(***************************************************************************)

\* A packet of the current version was sent.
VersionLocked == \E s \in Subs : status[s] = "sent" /\ version[s] = current

\* Mutant: only the working copies count.
WorkFileInUse(f) == f = workFile

\* file_in_use: a version or the working copy points at the file.
FileInUse(f) == f = workFile \/ \E v \in Existing : file[v] = f

\* author_update_manuscript with a file: checked, and the name of the file it
\* will replace read, before the row is locked ...
EditLoads(r) ==
    /\ Free(r)
    /\ ~purged /\ ~VersionLocked
    /\ Goto(r, AtEdit(workFile))
    /\ UNCHANGED <<rowVars, fileVars, packetVars, due, subPurged, sweep>>

\* ... checked again under the lock; the new file replaces that of the working
\* copy and of the current version ...
EditCommits(r) ==
    /\ request[r].at = "edit"
    /\ RowUnlocked
    /\ ~purged /\ ~VersionLocked
    /\ files < MaxFiles
    /\ files' = files + 1
    /\ stored' = stored \union {files + 1}
    /\ workFile' = files + 1
    /\ file' = [file EXCEPT ![current] = files + 1]
    /\ Goto(r, AtClean(request[r].old))
    /\ UNCHANGED <<current, purged, verPurged, packetVars, due, subPurged, sweep>>

\* ... and after the commit the old file is deleted, unless it is in use.
EditCleans(r) ==
    /\ request[r].at = "clean"
    /\ stored' = IF FileInUse(request[r].old) THEN stored ELSE stored \ {request[r].old}
    /\ Goto(r, Idle)
    /\ UNCHANGED <<rowVars, files, packetVars, due, subPurged, sweep>>

\* author_manuscript_versions: the purge is checked before the row is locked.
UploadLoads(r) ==
    /\ Free(r)
    /\ ~purged
    /\ current < MaxVersion
    /\ Goto(r, AtUpload)
    /\ UNCHANGED <<rowVars, fileVars, packetVars, due, subPurged, sweep>>

\* create_new_version: the outgoing version keeps the file of the working copy,
\* and the drafts move to the new one.
UploadCommits(r) ==
    /\ request[r].at = "upload"
    /\ RowUnlocked
    /\ current < MaxVersion /\ files < MaxFiles
    /\ current' = current + 1
    /\ files' = files + 1
    /\ stored' = stored \union {files + 1}
    /\ workFile' = files + 1
    /\ file' = [file EXCEPT ![current] = workFile, ![current + 1] = files + 1]
    /\ version' = [s \in Subs |-> IF status[s] = "draft" THEN current + 1 ELSE version[s]]
    /\ Goto(r, Idle)
    /\ UNCHANGED <<purged, verPurged, status, limited, due, subPurged, sweep>>

\* A handler is refused under the lock, or its worker dies.
Gives(r) ==
    /\ ~Free(r)
    /\ Goto(r, Idle)
    /\ UNCHANGED <<rowVars, fileVars, packetVars, due, subPurged, sweep>>

(***************************************************************************)
(* sweep_retention_task.                                                   *)
(***************************************************************************)

\* Mutant: a manuscript that is purged already is skipped.
SweepListsUnpurged ==
    /\ sweep = Idle
    /\ due \ subPurged # {} /\ ~purged
    /\ sweep' = AtNext(due \ subPurged)
    /\ UNCHANGED <<rowVars, fileVars, packetVars, due, subPurged, request>>

\* The packets whose window has ended and that are not purged.
SweepLists ==
    /\ sweep = Idle
    /\ due \ subPurged # {}
    /\ sweep' = AtNext(due \ subPurged)
    /\ UNCHANGED <<rowVars, fileVars, packetVars, due, subPurged, request>>

\* Once s is purged: the packets still retained, of a version and at all.
RetainedOf(s, v) == {t \in Subs \ (subPurged \union {s}) : status[t] # "none" /\ version[t] = v}
Retained(s) == {t \in Subs \ (subPurged \union {s}) : status[t] # "none"}

\* The shared content goes when no packet is retained, unless the author's
\* newer version has not been sent anywhere yet.
PurgesShared(s) ==
    /\ Retained(s) = {} /\ ~purged
    /\ \E t \in Subs : status[t] # "none" /\ version[t] = current

\* Mutant: the shared content goes without that of the versions.
PurgedOwn(s) ==
    IF version[s] # current /\ RetainedOf(s, version[s]) = {} THEN {version[s]} \ verPurged ELSE {}

\* The versions whose content is removed with the packet: its own when it is an
\* earlier one and no packet retains it, and all of them with the shared content.
PurgedWith(s) ==
    (IF version[s] # current /\ RetainedOf(s, version[s]) = {} THEN {version[s]} \ verPurged ELSE {})
        \union (IF PurgesShared(s) THEN Existing \ verPurged ELSE {})

\* Mutant: whether a file is in use is asked before the rows are cleared.
FilesInUseStay(s) == {f \in {file[v] : v \in PurgedWith(s)} : ~FileInUse(f)}

\* The files deleted: those of the versions purged and of the working copy, when
\* nothing that stays points at them.
FilesOf(s) ==
    LET kept == {file[v] : v \in Existing \ PurgedWith(s)}
                    \union (IF PurgesShared(s) THEN {} ELSE {workFile})
    IN  {f \in {file[v] : v \in PurgedWith(s)} : f \notin kept}
            \union (IF PurgesShared(s) THEN {workFile} ELSE {})

\* One packet: under the locks of its row and of the manuscript, the files are
\* deleted ...
SweepDeletes(s) ==
    /\ sweep.at = "next" /\ s \in sweep.listed
    /\ stored' = stored \ FilesOf(s)
    /\ sweep' = AtCommit(s, sweep.listed \ {s})
    /\ UNCHANGED <<rowVars, files, packetVars, due, subPurged, request>>

\* ... and then the rows are committed.
SweepCommits ==
    /\ sweep.at = "commit"
    /\ LET s == sweep.sub
       IN  /\ subPurged' = subPurged \union {s}
           /\ verPurged' = verPurged \union PurgedWith(s)
           /\ file' = [v \in Versions |-> IF v \in PurgedWith(s) THEN 0 ELSE file[v]]
           /\ IF PurgesShared(s)
              THEN workFile' = 0 /\ purged' = TRUE
              ELSE UNCHANGED <<workFile, purged>>
    /\ sweep' = AtNext(sweep.listed)
    /\ UNCHANGED <<current, fileVars, packetVars, due, request>>

SweepEnds ==
    /\ sweep = AtNext({})
    /\ sweep' = Idle
    /\ UNCHANGED <<rowVars, fileVars, packetVars, due, subPurged, request>>

\* The worker dies; the transaction is rolled back, the deleted files are not.
SweepDies ==
    /\ sweep # Idle
    /\ sweep' = Idle
    /\ UNCHANGED <<rowVars, fileVars, packetVars, due, subPurged, request>>

(***************************************************************************)
(* The specification.                                                      *)
(***************************************************************************)

RequestStep(r) ==
    EditLoads(r) \/ EditCommits(r) \/ EditCleans(r) \/ UploadLoads(r) \/ UploadCommits(r)
    \/ Gives(r)

SweepPacket == \E s \in Subs : SweepDeletes(s)
SweepStep == SweepLists \/ SweepPacket \/ SweepCommits \/ SweepEnds

Next ==
    \/ \E s \in Subs : Draft(s) \/ Expires(s) \/ \E days \in BOOLEAN : Submit(s, days)
    \/ \E r \in Requests : RequestStep(r)
    \/ SweepStep \/ SweepDies

Spec == Init /\ [][Next]_vars

\* The hourly schedule runs the sweep again and again, and it does not die at
\* the same point every time.
Fairness == SF_vars(SweepLists) /\ SF_vars(SweepPacket) /\ SF_vars(SweepCommits) /\ WF_vars(SweepEnds)
FairSpec == Spec /\ Fairness

(***************************************************************************)
(* Properties.                                                             *)
(***************************************************************************)

\* Every field has a value the code can write; the working copy and the current
\* version are one text.
TypeOK ==
    /\ current \in Versions
    /\ workFile \in 0..files
    /\ file \in [Versions -> 0..files]
    /\ workFile = file[current]
    /\ purged \in BOOLEAN
    /\ verPurged \subseteq Existing
    /\ files \in 1..MaxFiles /\ stored \subseteq 1..files
    /\ status \in [Subs -> {"none", "draft", "sent"}]
    /\ version \in [Subs -> 0..current]
    /\ due \subseteq limited /\ limited \subseteq Subs /\ subPurged \subseteq due
    /\ \A r \in Requests : request[r].at \in {"idle", "edit", "clean", "upload"}
    /\ sweep.at \in {"idle", "next", "commit"}

\* "an unexpired or no-expiry venue copy prevents premature deletion": the file
\* of what a venue received stays on the disk until its window has ended.
SentCopyStays ==
    \A s \in Subs : status[s] = "sent" /\ s \notin due =>
        file[version[s]] # 0 /\ file[version[s]] \in stored

\* "it is theirs to keep": the file of a current version that no packet has is
\* on the disk, whatever expired around it.
UnsentVersionStays ==
    (\A s \in Subs : version[s] # current) /\ ~purged => workFile \in stored

\* The purge takes no file that a venue retains or that was sent nowhere.
CopiesStay == SentCopyStays /\ UnsentVersionStays

\* What the sweep clears from the rows is gone from the disk as well.
PurgeRemovesFiles ==
    [][\A v \in Versions : file[v] # 0 /\ file'[v] = 0 => file[v] \notin stored']_vars

\* Every packet whose window has ended is purged, however often the sweep dies.
ExpiredIsPurged == \A s \in Subs : s \in due ~> s \in subPurged

\* The purge of an expired packet comes about, and it is one of the disk, too.
PurgeCompletes == PurgeRemovesFiles /\ ExpiredIsPurged

\* The venue can open what it received until its window has ended: its download
\* answers 410 once content_purged_at of the manuscript is set.
SentCopyOpens ==
    \A s \in Subs : status[s] = "sent" /\ s \notin due => ~purged /\ version[s] \notin verPurged
=============================================================================
