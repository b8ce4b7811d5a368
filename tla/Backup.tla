-------------------------------- MODULE Backup --------------------------------
(***************************************************************************)
(* The backups of the database and the stored files, and their restoration *)
(* (backup_utils.py and the commands backup_production and                 *)
(* restore_production_backup), while the application goes on to store and  *)
(* delete files.  An attempt writes a bundle into a directory of its own,  *)
(* renames it, removes the bundles that are past their retention and then  *)
(* writes the manifest once more.  A restore replaces the database first   *)
(* and the directory of the files, by two renames, last.                   *)
(*                                                                         *)
(* A file is its content, so a name is used once.  Bounds: Files,          *)
(* MaxBackups (attempts; two may overlap), MaxRestores.                    *)
(***************************************************************************)
EXTENDS Naturals

CONSTANTS Files, MaxBackups, MaxRestores

VARIABLES
    rows,      \* the files that the rows of the database name
    media,     \* the files in MEDIA_ROOT
    root,      \* the directory MEDIA_ROOT exists
    kept,      \* the contents of the .pre-restore- directories
    attempt,   \* per attempt of a backup: what it does next
    bundle,    \* its bundle: where it is, what it holds, its manifest
    old,       \* the bundles past BACKUP_RETENTION_DAYS
    restore,   \* what the restore does next, with which bundle and what it has staged
    restores   \* how many were begun

vars == <<rows, media, root, kept, attempt, bundle, old, restore, restores>>
appVars == <<rows, media, root>>

Attempts == 1..MaxBackups
NoBundle == [place |-> "none", rows |-> {}, media |-> {}, manifest |-> "none"]
Final == {b \in Attempts : bundle[b].place = "final"}
Idle == [at |-> "idle"]
NextIs(b, step) == attempt' = [attempt EXCEPT ![b] = step]
Bundled(b, fields) == bundle' = [bundle EXCEPT ![b] = fields]

Init ==
    /\ rows = {} /\ media = {} /\ root = TRUE
    /\ kept = {}
    /\ attempt = [b \in Attempts |-> "dump"]
    /\ bundle = [b \in Attempts |-> NoBundle]
    /\ old = {}
    /\ restore = Idle /\ restores = 0

(***************************************************************************)
(* The application.                                                        *)
(***************************************************************************)

\* An upload creates the directory if there is none.
Upload(f) ==
    /\ f \notin rows \union media \union UNION kept
    /\ \A b \in Attempts : f \notin bundle[b].rows \union bundle[b].media
    /\ rows' = rows \union {f} /\ media' = media \union {f} /\ root' = TRUE
    /\ UNCHANGED <<kept, attempt, bundle, old, restore, restores>>

\* An edit or a purge.
Remove(f) ==
    /\ f \in rows
    /\ rows' = rows \ {f} /\ media' = media \ {f}
    /\ UNCHANGED <<root, kept, attempt, bundle, old, restore, restores>>

(***************************************************************************)
(* create_backup.                                                          *)
(***************************************************************************)

\* dump_postgres: a snapshot of the database.  The attempts are numbered as they begin.
Dump(b) ==
    /\ attempt[b] = "dump" /\ \A c \in 1..(b - 1) : attempt[c] # "dump"
    /\ Bundled(b, [NoBundle EXCEPT !.place = "partial", !.rows = rows])
    /\ NextIs(b, "archive")
    /\ UNCHANGED <<appVars, kept, old, restore, restores>>

\* archive_media: the files listed at its start; one that is gone when its turn
\* comes fails the attempt.
Archive(b) ==
    /\ attempt[b] = "archive"
    /\ Bundled(b, [bundle[b] EXCEPT !.media = media])
    /\ NextIs(b, "verify")
    /\ UNCHANGED <<appVars, kept, old, restore, restores>>

\* write_manifest, verify_bundle
Verify(b) ==
    /\ attempt[b] = "verify"
    /\ Bundled(b, [bundle[b] EXCEPT !.manifest = "verified"])
    /\ NextIs(b, "rename")
    /\ UNCHANGED <<appVars, kept, old, restore, restores>>

Rename(b) ==
    /\ attempt[b] = "rename"
    /\ Bundled(b, [bundle[b] EXCEPT !.place = "final"])
    /\ NextIs(b, "purge")
    /\ UNCHANGED <<appVars, kept, old, restore, restores>>

Without(S) == [b \in Attempts |-> IF b \in S THEN NoBundle ELSE bundle[b]]

\* Mutant: the old bundles are removed before there is a new one.
PurgeFirst(b) ==
    /\ attempt[b] = "archive"
    /\ bundle' = Without((Final \intersect old) \ {b})
    /\ NextIs(b, "archive")
    /\ UNCHANGED <<appVars, kept, old, restore, restores>>

\* purge_old_backups
Purge(b) ==
    /\ attempt[b] = "purge"
    /\ bundle' = Without((Final \intersect old) \ {b})
    /\ NextIs(b, "report")
    /\ UNCHANGED <<appVars, kept, old, restore, restores>>

\* write_manifest truncates the manifest of the completed bundle and fills it.
Truncate(b) ==
    /\ attempt[b] = "report"
    /\ Bundled(b, [bundle[b] EXCEPT !.manifest = "torn"])
    /\ NextIs(b, "write")
    /\ UNCHANGED <<appVars, kept, old, restore, restores>>

Report(b) ==
    /\ attempt[b] = "write"
    /\ Bundled(b, [bundle[b] EXCEPT !.manifest = "verified"])
    /\ NextIs(b, "done")
    /\ UNCHANGED <<appVars, kept, old, restore, restores>>

\* An exception removes the directory of the attempt, unless it was renamed.
Fail(b) ==
    /\ attempt[b] \notin {"dump", "done", "over"}
    /\ bundle' = IF bundle[b].place = "partial" THEN Without({b}) ELSE bundle
    /\ NextIs(b, "over")
    /\ UNCHANGED <<appVars, kept, old, restore, restores>>

Dies(b) ==
    /\ attempt[b] \notin {"dump", "done", "over"}
    /\ NextIs(b, "over")
    /\ UNCHANGED <<appVars, kept, bundle, old, restore, restores>>

\* The month of a bundle passes, never while it is made.
Expires(b) ==
    /\ b \in Final \ old /\ attempt[b] \in {"done", "over"}
    /\ old' = old \union {b}
    /\ UNCHANGED <<appVars, kept, attempt, bundle, restore, restores>>

(***************************************************************************)
(* restore_production_backup --restore-media, over the current database.   *)
(***************************************************************************)

\* The bundle is verified, its files are unpacked beside MEDIA_ROOT.
Stage(b) ==
    /\ restore = Idle /\ restores < MaxRestores
    /\ b \in Final /\ bundle[b].manifest = "verified"
    /\ restore' = [at |-> "database", bundle |-> b, staged |-> bundle[b].media]
    /\ restores' = restores + 1
    /\ UNCHANGED <<appVars, kept, attempt, bundle, old>>

RestoreDatabase ==
    /\ restore.at = "database" /\ restore.bundle \in Final
    /\ rows' = bundle[restore.bundle].rows
    /\ restore' = [restore EXCEPT !.at = "aside"]
    /\ UNCHANGED <<media, root, kept, attempt, bundle, old, restores>>

\* Mutant: the directory is removed, not renamed.
RemoveRoot ==
    /\ restore.at = "aside"
    /\ media' = {} /\ root' = FALSE
    /\ restore' = [restore EXCEPT !.at = "place"]
    /\ UNCHANGED <<rows, kept, attempt, bundle, old, restores>>

\* swap_media_restore: MEDIA_ROOT is put aside, if it exists ...
PutAside ==
    /\ restore.at = "aside"
    /\ kept' = IF root THEN kept \union {media} ELSE kept
    /\ media' = {} /\ root' = FALSE
    /\ restore' = [at |-> "place", staged |-> restore.staged, aside |-> root, previous |-> media]
    /\ UNCHANGED <<rows, attempt, bundle, old, restores>>

\* ... and the unpacked files take its place, unless an upload has created it anew.
PutInPlace ==
    /\ restore.at = "place" /\ media = {}
    /\ media' = restore.staged /\ root' = TRUE
    /\ restore' = Idle
    /\ UNCHANGED <<rows, kept, attempt, bundle, old, restores>>

\* If that fails, MEDIA_ROOT is put back, unless it exists again.
PutBack ==
    /\ restore.at = "place"
    /\ IF restore.aside /\ ~root
       THEN kept' = kept \ {restore.previous} /\ media' = restore.previous /\ root' = TRUE
       ELSE UNCHANGED <<kept, media, root>>
    /\ restore' = Idle
    /\ UNCHANGED <<rows, attempt, bundle, old, restores>>

\* The database is restored in part or not at all, or the process dies.
Interrupted ==
    /\ restore # Idle
    /\ rows' \in IF restore.at = "database" THEN {rows, {}} ELSE {rows}
    /\ restore' = Idle
    /\ UNCHANGED <<media, root, kept, attempt, bundle, old, restores>>

Next ==
    \/ \E f \in Files : Upload(f) \/ Remove(f)
    \/ \E b \in Attempts :
          \/ Dump(b) \/ Archive(b) \/ Verify(b) \/ Rename(b) \/ Purge(b) \/ Truncate(b) \/ Report(b)
          \/ Fail(b) \/ Dies(b) \/ Expires(b) \/ Stage(b)
    \/ RestoreDatabase \/ PutAside \/ PutInPlace \/ PutBack \/ Interrupted

Spec == Init /\ [][Next]_vars

(***************************************************************************)
(* Properties.                                                             *)
(***************************************************************************)

\* Every bundle is where an attempt puts it, and only a directory has files.
TypeOK ==
    /\ rows \subseteq Files /\ media \subseteq Files /\ kept \subseteq SUBSET Files
    /\ root \in BOOLEAN /\ (media # {} => root)
    /\ attempt \in [Attempts -> {"dump", "archive", "verify", "rename", "purge", "report", "write", "done", "over"}]
    /\ bundle \in [Attempts -> [place : {"none", "partial", "final"}, rows : SUBSET Files,
                                media : SUBSET Files, manifest : {"none", "verified", "torn"}]]
    /\ old \subseteq Attempts
    /\ restore.at \in {"idle", "database", "aside", "place"} /\ restores \in 0..MaxRestores

OnDisk == media \union UNION kept

\* "removed only after a new successful backup", "renamed ... rather than silently
\* destroyed": from the first backup that succeeded on there are complete archives of
\* one, and a restore takes no file from the disk, whichever attempt or restore is
\* broken off, and whatever is uploaded meanwhile.
NothingDestroyed ==
    [][/\ Final # {} => Final' # {}
       /\ restore' # restore => OnDisk \subseteq OnDisk']_vars

\* One of the bundles can be restored, too.
ABundleCanBeRestored ==
    (\E b \in Attempts : attempt[b] = "done") => \E b \in Final : bundle[b].manifest = "verified"

\* A restored row names a file that was restored with it.
RestoredRowsHaveFiles ==
    \A b \in Final : bundle[b].rows \subseteq bundle[b].media
=============================================================================
