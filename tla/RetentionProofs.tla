---------------------------- MODULE RetentionProofs ----------------------------
(***************************************************************************)
(* Proofs about Retention, for any number of packets, versions, files and  *)
(* web workers: the sweep takes no file that a venue retains or that the   *)
(* author has not sent anywhere, and what it clears is gone from the disk. *)
(***************************************************************************)
EXTENDS Retention, TLAPS

\* A packet has a version once it exists, and a window once it is sent.
Packets ==
    \A s \in Subs : /\ status[s] = "none" <=> version[s] = 0
                    /\ s \in limited => status[s] = "sent"

\* Each version has a file of its own, and only one that exists and was not
\* purged has a file.
OwnFiles ==
    /\ \A u, v \in Versions : file[u] = file[v] /\ file[u] # 0 => u = v
    /\ \A v \in Versions : v > current => file[v] = 0
    /\ \A v \in verPurged : file[v] = 0
    /\ current \in verPurged => purged

\* The sweep works on packets that are due.
Worklist ==
    /\ sweep.at \in {"next", "commit"} => sweep.listed \subseteq due \ subPurged
    /\ sweep.at = "commit" => sweep.sub \in due \ subPurged /\ sweep.sub \notin sweep.listed

\* What the sweep is about to clear is off the disk.
Deleted == sweep.at = "commit" => FilesOf(sweep.sub) \cap stored = {}

Workers == request = [r \in Requests |-> request[r]]

IInv == TypeOK /\ Packets /\ OwnFiles /\ Worklist /\ Deleted /\ Workers /\ CopiesStay

LEMMA Initially == Init => IInv
  <1> SUFFICES ASSUME Init PROVE IInv
    OBVIOUS
  <1>1. TypeOK
    <2>1. current = 1 /\ files = 1 /\ 1 \in Versions /\ files \in 1..MaxFiles
      BY BoundsAssumption DEF Init, Versions
    <2>2. file \in [Versions -> 0..files] /\ workFile = file[current] /\ workFile \in 0..files /\ stored \subseteq 1..files
      BY <2>1 DEF Init
    <2>3. version \in [Subs -> 0..current] /\ \A r \in Requests : request[r].at = "idle"
      BY <2>1 DEF Init, Idle
    <2> QED  BY <2>1, <2>2, <2>3 DEF Init, TypeOK, Existing, Idle
  <1>2. Packets /\ OwnFiles /\ Worklist /\ Deleted /\ Workers
    BY DEF Init, Packets, OwnFiles, Worklist, Deleted, Workers, Idle, Versions
  <1>3. CopiesStay
    BY DEF Init, CopiesStay, SentCopyStays, UnsentVersionStays
  <1> QED  BY <1>1, <1>2, <1>3 DEF IInv

\* The numbers that the steps below reckon with.
LEMMA Numbers ==
    ASSUME TypeOK
    PROVE  /\ current \in Nat /\ MaxVersion \in Nat /\ 1 <= current /\ current <= MaxVersion
           /\ files \in Nat /\ MaxFiles \in Nat /\ 0 \notin stored /\ files + 1 \notin stored
           /\ \A v \in Versions : file[v] \in Nat /\ file[v] <= files
           /\ Existing \subseteq Versions /\ current \in Existing
  BY BoundsAssumption DEF TypeOK, Versions, Existing

\* A packet is for an existing version.
LEMMA HeldVersion ==
    ASSUME TypeOK, Packets, NEW s \in Subs, status[s] # "none"
    PROVE  version[s] \in Existing /\ version[s] \in Versions /\ version[s] \in Nat /\ version[s] <= current
  <1>1. version[s] \in 0..current /\ version[s] # 0
    BY DEF TypeOK, Packets
  <1> QED  BY <1>1, Numbers DEF Existing, Versions

\* Whatever is purged belongs to the existing versions.
LEMMA PurgedExists ==
    ASSUME TypeOK, Packets, NEW s \in due
    PROVE  PurgedWith(s) \subseteq Existing
  <1>1. version[s] \in 1..current
    BY DEF TypeOK, Packets
  <1> QED  BY <1>1 DEF PurgedWith, Existing

\* What a packet whose window has not ended holds is not purged.
LEMMA RetainedStays ==
    ASSUME TypeOK, Packets, NEW s \in due, NEW t \in Subs, status[t] # "none", t \notin due
    PROVE  ~PurgesShared(s) /\ version[t] \notin PurgedWith(s)
  <1>1. t \in Retained(s) /\ (version[t] = version[s] => t \in RetainedOf(s, version[s]))
    BY DEF TypeOK, Retained, RetainedOf
  <1> QED  BY <1>1 DEF PurgesShared, PurgedWith

\* The files deleted with a packet do not depend on what happens while the row is held.
LEMMA SameFiles ==
    ASSUME UNCHANGED <<current, workFile, file, purged, verPurged, version, subPurged>>,
           \A t \in Subs : status'[t] = "none" <=> status[t] = "none",
           NEW s
    PROVE  FilesOf(s)' = FilesOf(s)
  <1>1. Retained(s)' = Retained(s) /\ RetainedOf(s, version[s])' = RetainedOf(s, version[s])
    BY DEF Retained, RetainedOf
  <1>2. PurgesShared(s)' <=> PurgesShared(s)
    BY <1>1 DEF PurgesShared
  <1>3. PurgedWith(s)' = PurgedWith(s)
    BY <1>1, <1>2 DEF PurgedWith, Existing
  <1> QED  BY <1>2, <1>3 DEF FilesOf, Existing

LEMMA PacketSteps ==
    ASSUME IInv, NEW s \in Subs, Draft(s) \/ Expires(s) \/ \E days \in BOOLEAN : Submit(s, days)
    PROVE  IInv'
  <1>0. UNCHANGED <<rowVars, fileVars, subPurged, request, sweep>>
    BY DEF Draft, Expires, Submit
  <1>1. TypeOK'
    <2>1. status' \in [Subs -> {"none", "draft", "sent"}] /\ version' \in [Subs -> 0..current]
      <3>1. current \in 0..current
        BY Numbers DEF IInv
      <3> QED  BY <3>1 DEF IInv, TypeOK, Draft, Expires, Submit, packetVars
    <2>2. due' \subseteq limited' /\ limited' \subseteq Subs /\ due \subseteq due'
      BY DEF IInv, TypeOK, Draft, Expires, Submit, packetVars
    <2> QED  BY <1>0, <2>1, <2>2 DEF IInv, TypeOK, rowVars, fileVars, Existing
  <1>2. Packets'
    BY <1>0, Numbers DEF IInv, TypeOK, Packets, Draft, Expires, Submit, rowVars, packetVars
  <1>3. OwnFiles' /\ Workers'
    BY <1>0 DEF IInv, OwnFiles, Workers, rowVars
  <1>4. due \subseteq due'
    BY DEF Draft, Expires, Submit
  <1>5. Worklist'
    BY <1>0, <1>4 DEF IInv, Worklist
  <1>6. Deleted'
    <2>1. CASE Draft(s)
      BY <1>0, <2>1 DEF Draft, RowUnlocked, Deleted
    <2>2. CASE ~Draft(s)
      <3>1. version' = version /\ \A t \in Subs : status'[t] = "none" <=> status[t] = "none"
        BY <2>2 DEF Expires, Submit, packetVars, IInv, TypeOK
      <3>2. FilesOf(sweep.sub)' = FilesOf(sweep.sub)
        BY <1>0, <3>1, SameFiles DEF rowVars
      <3> QED  BY <1>0, <3>2 DEF IInv, Deleted, fileVars
    <2> QED  BY <2>1, <2>2
  <1>7. SentCopyStays'
    <2> SUFFICES ASSUME NEW t \in Subs, status'[t] = "sent", t \notin due'
                 PROVE  file[version'[t]] # 0 /\ file[version'[t]] \in stored
      BY <1>0 DEF SentCopyStays, rowVars, fileVars
    <2>1. CASE status[t] = "sent"
      <3>1. version'[t] = version[t]
        BY <2>1 DEF Draft, Expires, Submit, packetVars, IInv, TypeOK
      <3> QED  BY <1>4, <2>1, <3>1 DEF IInv, CopiesStay, SentCopyStays
    <2>2. CASE status[t] # "sent"
      <3>1. t = s /\ version'[t] = version[t] /\ file[version[t]] \in stored
        BY <2>2 DEF Draft, Expires, Submit, packetVars, IInv, TypeOK
      <3> QED  BY <3>1, Numbers DEF IInv
    <2> QED  BY <2>1, <2>2
  <1>8. UnsentVersionStays'
    <2> SUFFICES ASSUME \A t \in Subs : version'[t] # current, ~purged PROVE workFile \in stored
      BY <1>0 DEF UnsentVersionStays, rowVars, fileVars
    <2>1. \A t \in Subs : version[t] # current
      BY DEF Draft, Expires, Submit, packetVars, IInv, TypeOK
    <2> QED  BY <2>1 DEF IInv, CopiesStay, UnsentVersionStays
  <1> QED  BY <1>1, <1>2, <1>3, <1>5, <1>6, <1>7, <1>8 DEF IInv, CopiesStay

\* The steps that only a worker or the sweep notes.
LEMMA QuietSteps ==
    ASSUME IInv,
           \/ \E r \in Requests : EditLoads(r) \/ UploadLoads(r) \/ Gives(r)
           \/ SweepLists \/ SweepEnds \/ SweepDies \/ UNCHANGED vars
    PROVE  IInv'
  <1>0. UNCHANGED <<rowVars, fileVars, packetVars, due, subPurged>>
    BY DEF EditLoads, UploadLoads, Gives, SweepLists, SweepEnds, SweepDies, vars
  <1>1. /\ request' = [r \in Requests |-> request'[r]]
        /\ \A r \in Requests : request'[r].at \in {"idle", "edit", "clean", "upload"}
    BY DEF EditLoads, UploadLoads, Gives, SweepLists, SweepEnds, SweepDies, vars, Goto, IInv, TypeOK, Workers,
       Idle, AtEdit, AtUpload
  <1>2. sweep' = sweep \/ sweep' = Idle \/ sweep' = AtNext(due \ subPurged)
    BY DEF EditLoads, UploadLoads, Gives, SweepLists, SweepEnds, SweepDies, vars
  <1>3. TypeOK'
    BY <1>0, <1>1, <1>2 DEF IInv, TypeOK, rowVars, fileVars, packetVars, Versions, Existing, Idle, AtNext
  <1>4. Packets' /\ OwnFiles' /\ CopiesStay'
    BY <1>0 DEF IInv, Packets, OwnFiles, CopiesStay, SentCopyStays, UnsentVersionStays, rowVars, fileVars, packetVars
  <1>5. Worklist'
    BY <1>0, <1>2 DEF IInv, Worklist, Idle, AtNext
  <1>6. Deleted'
    <2>1. FilesOf(sweep.sub)' = FilesOf(sweep.sub) \/ sweep'.at # "commit"
      <3>1. CASE sweep' = sweep
        <4>1. FilesOf(sweep.sub)' = FilesOf(sweep.sub)
          BY <1>0, <3>1, SameFiles DEF rowVars, packetVars
        <4> QED  BY <4>1
      <3>2. CASE sweep' # sweep
        BY <1>2, <3>2 DEF Idle, AtNext
      <3> QED  BY <3>1, <3>2
    <2>2. sweep'.at = "commit" => sweep.at = "commit"
      BY <1>2 DEF Idle, AtNext
    <2> QED  BY <1>0, <2>1, <2>2 DEF IInv, Deleted, fileVars
  <1> QED  BY <1>1, <1>3, <1>4, <1>5, <1>6 DEF IInv, Workers

\* A handler that takes a step leaves the others as they were.
LEMMA WorkerGoes ==
    ASSUME TypeOK, Workers, NEW r \in Requests, NEW where, Goto(r, where),
           where.at \in {"idle", "edit", "clean", "upload"}
    PROVE  Workers' /\ \A q \in Requests : request'[q].at \in {"idle", "edit", "clean", "upload"}
  BY DEF TypeOK, Workers, Goto

\* The new file of an edit, or of an upload, is the only one of its number.
LEMMA EditStep ==
    ASSUME IInv, NEW r \in Requests, EditCommits(r)
    PROVE  IInv'
  <1>0. /\ UNCHANGED <<current, purged, verPurged, status, version, limited, due, subPurged, sweep>>
        /\ sweep.at # "commit" /\ files < MaxFiles
        /\ files' = files + 1 /\ stored' = stored \union {files + 1} /\ workFile' = files + 1
        /\ file' = [file EXCEPT ![current] = files + 1]
    BY DEF EditCommits, RowUnlocked, packetVars
  <1>1. /\ current \in Nat /\ files \in Nat /\ current \in Versions
        /\ \A v \in Versions : file[v] \in Nat /\ file[v] <= files
        /\ files' \in 1..MaxFiles
    BY <1>0, Numbers DEF IInv, TypeOK
  <1>2. \A v \in Versions : file'[v] = IF v = current THEN files + 1 ELSE file[v]
    BY <1>0, <1>1 DEF IInv, TypeOK
  <1>3. Workers' /\ \A q \in Requests : request'[q].at \in {"idle", "edit", "clean", "upload"}
    BY WorkerGoes DEF EditCommits, AtClean, IInv
  <1>4. TypeOK'
    <2>1. file' \in [Versions -> 0..files'] /\ stored' \subseteq 1..files'
      BY <1>0, <1>1 DEF IInv, TypeOK
    <2>2. workFile' \in 0..files' /\ workFile' = file'[current']
      BY <1>0, <1>1, <1>2
    <2> QED  BY <1>0, <1>1, <1>3, <2>1, <2>2 DEF IInv, TypeOK, Existing
  <1>5. Packets' /\ Worklist' /\ Deleted'
    BY <1>0 DEF IInv, Packets, Worklist, Deleted
  <1>6. OwnFiles'
    <2>1. \A v \in Versions : file[v] # files + 1
      BY <1>1
    <2>2. current \notin verPurged /\ verPurged \subseteq Versions
      BY Numbers DEF EditCommits, IInv, OwnFiles, TypeOK
    <2> QED  BY <1>0, <1>1, <1>2, <2>1, <2>2 DEF IInv, OwnFiles
  <1>7. SentCopyStays'
    <2> SUFFICES ASSUME NEW s \in Subs, status[s] = "sent", s \notin due
                 PROVE  file'[version[s]] # 0 /\ file'[version[s]] \in stored'
      BY <1>0 DEF SentCopyStays
    <2>1. version[s] # current
      BY DEF EditCommits, VersionLocked
    <2>2. file[version[s]] # 0 /\ file[version[s]] \in stored /\ version[s] \in Versions
      BY HeldVersion DEF IInv, CopiesStay, SentCopyStays
    <2> QED  BY <1>0, <1>2, <2>1, <2>2
  <1>8. UnsentVersionStays'
    BY <1>0 DEF UnsentVersionStays
  <1> QED  BY <1>3, <1>4, <1>5, <1>6, <1>7, <1>8 DEF IInv, CopiesStay

LEMMA CleanStep ==
    ASSUME IInv, NEW r \in Requests, EditCleans(r)
    PROVE  IInv'
  <1>0. /\ UNCHANGED <<rowVars, files, packetVars, due, subPurged, sweep>>
        /\ stored' = stored \/ \E old : ~FileInUse(old) /\ stored' = stored \ {old}
    BY DEF EditCleans
  <1>1. Workers' /\ \A q \in Requests : request'[q].at \in {"idle", "edit", "clean", "upload"}
    BY WorkerGoes DEF EditCleans, Idle, IInv
  <1>2. stored' \subseteq stored /\ (workFile \in stored => workFile \in stored')
        /\ \A v \in Existing : file[v] \in stored => file[v] \in stored'
    BY <1>0 DEF FileInUse
  <1>3. TypeOK' /\ Packets' /\ OwnFiles' /\ Worklist'
    BY <1>0, <1>1, <1>2 DEF IInv, TypeOK, Packets, OwnFiles, Worklist, rowVars, packetVars, Existing, Versions
  <1>4. Deleted'
    <2>1. FilesOf(sweep.sub)' = FilesOf(sweep.sub)
      BY <1>0, SameFiles DEF rowVars, packetVars
    <2> QED  BY <1>0, <1>2, <2>1 DEF IInv, Deleted
  <1>5. \A s \in Subs : status[s] = "sent" => version[s] \in Existing
    BY Numbers DEF IInv, TypeOK, Packets, Existing
  <1>6. CopiesStay'
    BY <1>0, <1>2, <1>5 DEF IInv, CopiesStay, SentCopyStays, UnsentVersionStays, rowVars, packetVars
  <1> QED  BY <1>1, <1>3, <1>4, <1>6 DEF IInv

LEMMA UploadStep ==
    ASSUME IInv, NEW r \in Requests, UploadCommits(r)
    PROVE  IInv'
  <1>0. /\ UNCHANGED <<purged, verPurged, status, limited, due, subPurged, sweep>>
        /\ sweep.at # "commit" /\ files < MaxFiles /\ current < MaxVersion
        /\ current' = current + 1 /\ files' = files + 1 /\ stored' = stored \union {files + 1}
        /\ workFile' = files + 1
        /\ file' = [file EXCEPT ![current] = workFile, ![current + 1] = files + 1]
        /\ \A s \in Subs : version'[s] = IF status[s] = "draft" THEN current + 1 ELSE version[s]
    BY DEF UploadCommits, RowUnlocked
  <1>1. /\ current \in Nat /\ files \in Nat /\ current \in Versions /\ current + 1 \in Versions
        /\ \A v \in Versions : file[v] \in Nat /\ file[v] <= files
        /\ files' \in 1..MaxFiles /\ workFile = file[current]
    BY <1>0, Numbers DEF IInv, TypeOK, Versions
  <1>2. \A v \in Versions : file'[v] = IF v = current + 1 THEN files + 1 ELSE file[v]
    BY <1>0, <1>1 DEF IInv, TypeOK
  <1>3. Workers' /\ \A q \in Requests : request'[q].at \in {"idle", "edit", "clean", "upload"}
    BY WorkerGoes DEF UploadCommits, Idle, IInv
  <1>4. TypeOK'
    <2>1. file' \in [Versions -> 0..files'] /\ stored' \subseteq 1..files'
      <3>1. workFile \in 0..files' /\ files + 1 \in 0..files' /\ file \in [Versions -> 0..files']
        BY <1>0, <1>1 DEF IInv, TypeOK
      <3>2. file' \in [Versions -> 0..files']
        BY <1>0, <3>1
      <3>3. stored' \subseteq 1..files'
        BY <1>0, <1>1 DEF IInv, TypeOK
      <3> QED  BY <3>2, <3>3
    <2>2. workFile' \in 0..files' /\ workFile' = file'[current']
      <3>1. file'[current + 1] = files + 1
        BY <1>1, <1>2
      <3> QED  BY <1>0, <1>1, <3>1
    <2>3. version' \in [Subs -> 0..current']
      <3>1. \A s \in Subs : version[s] \in 0..current
        BY DEF IInv, TypeOK
      <3>2. version' = [s \in Subs |-> IF status[s] = "draft" THEN current + 1 ELSE version[s]]
        BY DEF UploadCommits
      <3> QED  BY <1>0, <1>1, <3>1, <3>2
    <2>4. verPurged' \subseteq Existing' /\ current' \in Versions
      BY <1>0, <1>1 DEF IInv, TypeOK, Existing, Versions
    <2> QED  BY <1>0, <1>1, <1>3, <2>1, <2>2, <2>3, <2>4 DEF IInv, TypeOK
  <1>5. Packets' /\ Worklist' /\ Deleted'
    BY <1>0, <1>1 DEF IInv, Packets, Worklist, Deleted
  <1>6. OwnFiles'
    <2>1. \A v \in Versions : file[v] # files + 1
      BY <1>1
    <2>2. \A v \in Versions : v \in Nat
      BY DEF Versions
    <2>3. current + 1 \notin verPurged /\ verPurged \subseteq Versions
      BY <1>1, Numbers DEF IInv, TypeOK, Existing
    <2>4. \A u, v \in Versions : file'[u] = file'[v] /\ file'[u] # 0 => u = v
      BY <1>1, <1>2, <2>1 DEF IInv, OwnFiles
    <2>5. \A v \in Versions : v > current + 1 => v # current + 1 /\ v > current
      BY <1>1, <2>2
    <2>6. \A v \in Versions : v > current' => file'[v] = 0
      BY <1>0, <1>2, <2>5 DEF IInv, OwnFiles
    <2>7. \A v \in verPurged : file'[v] = 0
      BY <1>2, <2>3 DEF IInv, OwnFiles
    <2> QED  BY <1>0, <2>3, <2>4, <2>6, <2>7 DEF OwnFiles
  <1>7. SentCopyStays'
    <2> SUFFICES ASSUME NEW s \in Subs, status[s] = "sent", s \notin due
                 PROVE  file'[version'[s]] # 0 /\ file'[version'[s]] \in stored'
      BY <1>0 DEF SentCopyStays
    <2>1. version'[s] = version[s] /\ version[s] \in Versions /\ version[s] \in Nat /\ version[s] <= current
      BY <1>0, HeldVersion DEF IInv
    <2>2. version[s] # current + 1
      BY <1>1, <2>1
    <2>3. file[version[s]] # 0 /\ file[version[s]] \in stored
      BY DEF IInv, CopiesStay, SentCopyStays
    <2>4. file'[version[s]] = file[version[s]] /\ version'[s] = version[s]
      BY <1>2, <2>1, <2>2
    <2>5. file[version[s]] \in stored'
      BY <1>0, <2>3
    <2> QED  BY <2>3, <2>4, <2>5
  <1>8. UnsentVersionStays'
    BY <1>0 DEF UnsentVersionStays
  <1> QED  BY <1>3, <1>4, <1>5, <1>6, <1>7, <1>8 DEF IInv, CopiesStay

\* The file of a version is taken only with the version.
LEMMA FilesTaken ==
    ASSUME IInv, NEW s \in due
    PROVE  /\ workFile \in FilesOf(s) => PurgesShared(s)
           /\ \A v \in Existing : file[v] # 0 /\ file[v] \in FilesOf(s) => v \in PurgedWith(s)
           /\ \A v \in PurgedWith(s) : file[v] # 0 => file[v] \in FilesOf(s)
  <1>0. PurgedWith(s) \subseteq Existing /\ Existing \subseteq Versions /\ current \in Existing /\ workFile = file[current]
    BY PurgedExists, Numbers DEF IInv, TypeOK
  <1>1. workFile \in FilesOf(s) => PurgesShared(s)
    BY DEF FilesOf
  <1>2. ASSUME NEW v \in Existing, file[v] # 0, file[v] \in FilesOf(s)
        PROVE  v \in PurgedWith(s)
    <2>1. CASE file[v] # workFile \/ ~PurgesShared(s)
      BY <1>2, <2>1 DEF FilesOf
    <2>2. CASE file[v] = workFile /\ PurgesShared(s)
      <3>1. v \notin verPurged
        BY <1>2 DEF IInv, OwnFiles
      <3> QED  BY <2>2, <3>1 DEF PurgedWith
    <2> QED  BY <2>1, <2>2
  <1>3. ASSUME NEW v \in PurgedWith(s), file[v] # 0
        PROVE  file[v] \in FilesOf(s)
    <2>1. \A u \in Existing : file[u] = file[v] => u = v
      BY <1>0, <1>3 DEF IInv, OwnFiles
    <2>2. v = current => PurgesShared(s)
      BY DEF PurgedWith
    <2> QED  BY <1>0, <2>1, <2>2 DEF FilesOf
  <1> QED  BY <1>1, <1>2, <1>3

LEMMA DeletesStep ==
    ASSUME IInv, NEW s \in Subs, SweepDeletes(s)
    PROVE  IInv'
  <1>0. /\ UNCHANGED <<rowVars, files, packetVars, due, subPurged, request>>
        /\ stored' = stored \ FilesOf(s) /\ sweep' = AtCommit(s, sweep.listed \ {s})
        /\ s \in due \ subPurged /\ sweep.listed \subseteq due \ subPurged
    BY DEF SweepDeletes, IInv, Worklist
  <1>1. sweep'.at = "commit" /\ sweep'.sub = s /\ sweep'.listed = sweep.listed \ {s}
    BY <1>0 DEF AtCommit
  <1>2. TypeOK' /\ Packets' /\ OwnFiles' /\ Worklist' /\ Workers'
    BY <1>0, <1>1 DEF IInv, TypeOK, Packets, OwnFiles, Worklist, Workers, rowVars, packetVars, Existing, Versions
  <1>3. Deleted'
    <2>1. FilesOf(s)' = FilesOf(s)
      BY <1>0, SameFiles DEF rowVars, packetVars
    <2>2. FilesOf(sweep.sub)' = FilesOf(s)'
      BY <1>1 DEF FilesOf, PurgedWith, PurgesShared, Retained, RetainedOf, Existing
    <2> QED  BY <1>0, <2>1, <2>2 DEF Deleted
  <1>4. SentCopyStays'
    <2> SUFFICES ASSUME NEW t \in Subs, status[t] = "sent", t \notin due
                 PROVE  file[version[t]] # 0 /\ file[version[t]] \in stored'
      BY <1>0 DEF SentCopyStays, rowVars, packetVars
    <2>1. file[version[t]] # 0 /\ file[version[t]] \in stored
      BY DEF IInv, CopiesStay, SentCopyStays
    <2>2. version[t] \in Existing /\ version[t] \notin PurgedWith(s)
      BY <1>0, HeldVersion, RetainedStays DEF IInv
    <2> QED  BY <1>0, <2>1, <2>2, FilesTaken
  <1>5. UnsentVersionStays'
    <2> SUFFICES ASSUME \A t \in Subs : version[t] # current, ~purged
                 PROVE  workFile \in stored'
      BY <1>0 DEF UnsentVersionStays, rowVars, packetVars
    <2>1. workFile \in stored /\ ~PurgesShared(s)
      BY DEF IInv, CopiesStay, UnsentVersionStays, PurgesShared
    <2> QED  BY <1>0, <2>1, FilesTaken
  <1> QED  BY <1>2, <1>3, <1>4, <1>5 DEF IInv, CopiesStay

LEMMA CommitsStep ==
    ASSUME IInv, SweepCommits
    PROVE  IInv'
  <1> DEFINE s == sweep.sub
  <1>0. /\ UNCHANGED <<current, fileVars, packetVars, due, request>>
        /\ s \in due \ subPurged /\ s \notin sweep.listed /\ sweep.listed \subseteq due \ subPurged
        /\ sweep' = AtNext(sweep.listed) /\ sweep'.at = "next" /\ sweep'.listed = sweep.listed
        /\ subPurged' = subPurged \union {s} /\ verPurged' = verPurged \union PurgedWith(s)
        /\ file' = [v \in Versions |-> IF v \in PurgedWith(s) THEN 0 ELSE file[v]]
    BY DEF SweepCommits, IInv, Worklist, AtNext
  <1>1. PurgedWith(s) \subseteq Existing /\ Existing \subseteq Versions /\ current \in Versions /\ files \in Nat
    BY <1>0, PurgedExists, Numbers DEF IInv, TypeOK
  <1>2. \A v \in Versions : file'[v] = IF v \in PurgedWith(s) THEN 0 ELSE file[v]
    BY <1>0
  <1>3. /\ workFile' = file'[current] /\ workFile' \in 0..files /\ purged' \in BOOLEAN
        /\ current \in verPurged' => purged'
        /\ ~purged' => UNCHANGED workFile /\ ~purged
    <2>1. CASE PurgesShared(s)
      <3>1. workFile' = 0 /\ purged' = TRUE
        BY <2>1 DEF SweepCommits
      <3>2. current \notin verPurged /\ current \in Existing
        BY <2>1, Numbers DEF PurgesShared, IInv, OwnFiles
      <3>3. current \in PurgedWith(s)
        BY <2>1, <3>2 DEF PurgedWith
      <3>4. 0 \in 0..files
        BY <1>1
      <3> QED  BY <1>1, <1>2, <3>1, <3>3, <3>4
    <2>2. CASE ~PurgesShared(s)
      <3>1. UNCHANGED <<workFile, purged>> /\ current \notin PurgedWith(s)
        BY <2>2 DEF SweepCommits, PurgedWith
      <3>2. workFile = file[current] /\ workFile \in 0..files /\ purged \in BOOLEAN /\ (current \in verPurged => purged)
        BY DEF IInv, TypeOK, OwnFiles
      <3> QED  BY <1>0, <1>1, <1>2, <3>1, <3>2
    <2> QED  BY <2>1, <2>2
  <1>4. TypeOK'
    <2>1. file' \in [Versions -> 0..files]
      BY <1>0, <1>1 DEF IInv, TypeOK
    <2>2. verPurged' \subseteq Existing /\ subPurged' \subseteq due
      BY <1>0, <1>1 DEF IInv, TypeOK
    <2> QED  BY <1>0, <1>3, <2>1, <2>2 DEF IInv, TypeOK, fileVars, packetVars, Existing
  <1>5. OwnFiles'
    <2>1. \A u, v \in Versions : file'[u] = file'[v] /\ file'[u] # 0 => u = v
      BY <1>2 DEF IInv, OwnFiles
    <2>2. \A v \in Versions : v > current => file'[v] = 0
      BY <1>2 DEF IInv, OwnFiles
    <2>3. \A v \in verPurged' : file'[v] = 0
      <3>1. verPurged \subseteq Versions
        BY <1>1 DEF IInv, TypeOK
      <3> QED  BY <1>0, <1>1, <1>2, <3>1 DEF IInv, OwnFiles
    <2> QED  BY <1>0, <1>3, <2>1, <2>2, <2>3 DEF OwnFiles
  <1>6. Packets' /\ Worklist' /\ Deleted' /\ Workers'
    BY <1>0 DEF IInv, Packets, Worklist, Deleted, Workers, packetVars
  <1>7. SentCopyStays'
    <2> SUFFICES ASSUME NEW t \in Subs, status[t] = "sent", t \notin due
                 PROVE  file'[version[t]] # 0 /\ file'[version[t]] \in stored
      BY <1>0 DEF SentCopyStays, fileVars, packetVars
    <2>1. file[version[t]] # 0 /\ file[version[t]] \in stored
      BY DEF IInv, CopiesStay, SentCopyStays
    <2>2. version[t] \in Versions /\ version[t] \notin PurgedWith(s)
      BY <1>0, HeldVersion, RetainedStays DEF IInv
    <2> QED  BY <1>2, <2>1, <2>2
  <1>8. UnsentVersionStays'
    BY <1>0, <1>3 DEF IInv, CopiesStay, UnsentVersionStays, fileVars, packetVars
  <1> QED  BY <1>4, <1>5, <1>6, <1>7, <1>8 DEF IInv, CopiesStay

LEMMA IndStep == IInv /\ [Next]_vars => IInv'
  BY PacketSteps, QuietSteps, EditStep, CleanStep, UploadStep, DeletesStep, CommitsStep
  DEF Next, RequestStep, SweepStep, SweepPacket

\* IInv is an inductive invariant of the specification.
THEOREM Invariance == Spec => []IInv
  BY Initially, IndStep, PTL DEF Spec

\* Every reachable state is well typed, and the working copy is the text of the
\* current version.
THEOREM TypeCorrect == Spec => []TypeOK
  BY Invariance, PTL DEF IInv

\* However edits, uploads, sweeps and crashes interleave, the file of what a venue
\* retains, or of a version that was sent nowhere, stays on the disk.
THEOREM RetainedCopiesStay == Spec => []CopiesStay
  BY Invariance, PTL DEF IInv

\* What sweep_retention_task clears from a version is no longer on the disk.
THEOREM PurgedIsDeleted == Spec => PurgeRemovesFiles
  <1>1. ASSUME IInv, [Next]_vars, NEW v \in Versions, file[v] # 0, file'[v] = 0
        PROVE  file[v] \notin stored'
    <2>1. current \in Versions /\ current + 1 # 0 /\ files + 1 # 0 /\ workFile = file[current]
      BY <1>1, Numbers DEF IInv, TypeOK
    <2>2. CASE SweepCommits
      <3>1. v \in PurgedWith(sweep.sub) /\ sweep.sub \in due
        BY <1>1, <2>2 DEF SweepCommits, IInv, Worklist
      <3>2. file[v] \in FilesOf(sweep.sub)
        BY <1>1, <3>1, FilesTaken
      <3> QED  BY <1>1, <2>2, <3>2 DEF SweepCommits, fileVars, IInv, Deleted
    <2>3. CASE \E r \in Requests : EditCommits(r)
      BY <1>1, <2>1, <2>3 DEF EditCommits, IInv, TypeOK
    <2>4. CASE \E r \in Requests : UploadCommits(r)
      BY <1>1, <2>1, <2>4 DEF UploadCommits, IInv, TypeOK
    <2>5. CASE UNCHANGED file
      BY <1>1, <2>5
    <2> QED  BY <1>1, <2>2, <2>3, <2>4, <2>5
             DEF Next, RequestStep, SweepStep, SweepPacket, Draft, Submit, Expires, EditLoads, EditCleans, UploadLoads, Gives,
                 SweepLists, SweepDeletes, SweepEnds, SweepDies, rowVars, vars
  <1>2. IInv /\ [Next]_vars =>
          [\A v \in Versions : file[v] # 0 /\ file'[v] = 0 => file[v] \notin stored']_vars
    BY <1>1
  <1> QED  BY <1>2, Invariance, PTL DEF Spec, PurgeRemovesFiles
=============================================================================
