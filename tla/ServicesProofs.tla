----------------------------- MODULE ServicesProofs -----------------------------
(***************************************************************************)
(* Proofs about Services, for any numbers of records, runs, workers,       *)
(* deliveries and administrators: only a person excludes a journal, and    *)
(* the work of a run begins once.                                          *)
(*                                                                         *)
(* Each of the three parts has its own invariant, which its own steps keep *)
(* and the steps of the others leave alone.                                *)
(***************************************************************************)
EXTENDS Services, TLAPS

(***************************************************************************)
(* Index screening.                                                        *)
(***************************************************************************)

\* Copies of records that were loaded.
Copies(c) == c.todo \subseteq Records /\ \A r \in c.todo : c.of[r] \in Screening!Rows

Decisions == {"exclude", "keep", "restore"}

\* What a request of an administrator holds.
HoldsOK(w) ==
    /\ w.at \in {"idle", "decide", "others"}
    /\ w.at = "decide" => w.record \in Records /\ w.decision \in Decisions /\ w.block \in BOOLEAN
    /\ w.at = "others" => Copies(w.copies)

\* Only records that somebody decided to exclude are excluded, in the table and in
\* the copies that a run has loaded, which the enrichment saves as they are.
OnlyDecided ==
    /\ \A r \in Records : row[r].excluded => r \in decided
    /\ \A r \in indexRun.copies.todo : indexRun.copies.of[r].excluded => r \in decided

ScreeningInv ==
    /\ Screening!TypeOK
    /\ indexRun = Screening!Pass(indexRun.pass, indexRun.copies, indexRun.names)
    /\ indexRun.names \in BOOLEAN
    /\ Copies(indexRun.copies)
    /\ decision = [q \in Admins |-> decision[q]]
    /\ \A q \in Admins : HoldsOK(decision[q])
    /\ OnlyDecided

LEMMA ScreeningInit == Screening!Init => ScreeningInv
<1> SUFFICES ASSUME Screening!Init  PROVE ScreeningInv
  OBVIOUS
<1>1. row \in [Records -> Screening!Rows] /\ \A r \in Records : ~row[r].excluded
  BY DEF Screening!Init, Screening!Rows, Screening!Codes
<1>2. PICK c : c = Screening!NoCopies
  OBVIOUS
<1>5. c.todo = {}
  BY <1>2 DEF Screening!NoCopies
<1>3. indexRun = Screening!Pass("none", c, FALSE)
  BY <1>2 DEF Screening!Init
<1>4. decision = [q \in Admins |-> decision[q]] /\ \A q \in Admins : HoldsOK(decision[q])
  BY DEF Screening!Init, Screening!Idle, HoldsOK
<1>6. blocked \in BOOLEAN /\ decided \subseteq Records
  BY DEF Screening!Init
<1>7. /\ indexRun.copies.todo = {} /\ indexRun.pass = "none" /\ indexRun.names = FALSE
      /\ indexRun = Screening!Pass(indexRun.pass, indexRun.copies, indexRun.names)
  BY <1>3, <1>5 DEF Screening!Pass
<1> QED  BY <1>1, <1>4, <1>6, <1>7 DEF ScreeningInv, Screening!TypeOK, Copies, OnlyDecided

\* Loading records of the table.
LEMMA Loading ==
  ASSUME NEW these \in SUBSET Records, row \in [Records -> Screening!Rows]
  PROVE  /\ Copies(Screening!CopyOf(these))
         /\ Screening!CopyOf(these).todo = these
         /\ \A r \in these : Screening!CopyOf(these).of[r] = row[r]
  BY DEF Copies, Screening!CopyOf

\* Going on with the rest of the copies.
LEMMA GoingOn ==
  ASSUME NEW c, NEW r, Copies(c)
  PROVE  /\ Copies(Screening!Without(c, r))
         /\ Screening!Without(c, r).todo \subseteq c.todo
         /\ \A x \in Screening!Without(c, r).todo : Screening!Without(c, r).of[x] = c.of[x]
  BY DEF Copies, Screening!Without

\* screen_record leaves alone whether a journal is excluded.
LEMMA ScreenedRows ==
  ASSUME NEW r \in Records, NEW copy \in Screening!Rows, NEW names, row \in [Records -> Screening!Rows]
  PROVE  /\ Screening!Screened(r, copy, names) \in [Records -> Screening!Rows]
         /\ \A x \in Records : Screening!Screened(r, copy, names)[x].excluded = row[x].excluded
<1>1. Screening!Flagged(copy, names) \in SUBSET Screening!Codes
  BY DEF Screening!Flagged, Screening!Codes
<1>2. \A codes : Screening!StatusOf(copy, codes) \in {"clear", "flagged", "kept", "excluded"}
  BY DEF Screening!StatusOf
<1> QED  BY <1>1, <1>2 DEF Screening!Screened, Screening!Rows

\* The run loads records, or ends.
LEMMA RunGoes ==
  ASSUME ScreeningInv, NEW pass \in {"none", "catalogue", "enrich", "screen", "pages"},
         NEW these \in SUBSET Records, NEW names \in BOOLEAN,
         \/ indexRun' = Screening!Pass(pass, Screening!CopyOf(these), names)
         \/ indexRun' = Screening!Pass(pass, Screening!NoCopies, names),
         UNCHANGED <<row, blocked, decided, decision>>
  PROVE  ScreeningInv'
<1>1. Copies(Screening!NoCopies)
  BY DEF Copies, Screening!NoCopies
<1>2. row \in [Records -> Screening!Rows]
  BY DEF ScreeningInv, Screening!TypeOK
<1>3. PICK c : /\ indexRun' = Screening!Pass(pass, c, names) /\ Copies(c)
               /\ \A r \in c.todo : c.of[r] = row[r]
  BY <1>1, <1>2, Loading DEF Screening!NoCopies
<1> QED  BY <1>3 DEF ScreeningInv, Screening!TypeOK, Screening!Pass, OnlyDecided, Copies

\* A pass of the run saves one record.
LEMMA RunSaves ==
  ASSUME ScreeningInv, NEW r \in indexRun.copies.todo,
         indexRun' = [indexRun EXCEPT !.copies = Screening!Without(@, r)],
         UNCHANGED <<blocked, decided, decision>>,
         row' \in [Records -> Screening!Rows],
         \A x \in Records : row'[x].excluded => row[x].excluded \/ (x = r /\ indexRun.copies.of[r].excluded)
  PROVE  ScreeningInv'
<1>1. /\ indexRun' = Screening!Pass(indexRun.pass, Screening!Without(indexRun.copies, r), indexRun.names)
      /\ Copies(Screening!Without(indexRun.copies, r))
  BY GoingOn DEF ScreeningInv, Screening!Pass
<1>2. /\ Screening!Without(indexRun.copies, r).todo \subseteq indexRun.copies.todo
      /\ \A x \in Screening!Without(indexRun.copies, r).todo :
            Screening!Without(indexRun.copies, r).of[x] = indexRun.copies.of[x]
  BY GoingOn DEF ScreeningInv
<1> QED  BY <1>1, <1>2 DEF ScreeningInv, Screening!TypeOK, Screening!Pass, OnlyDecided, Copies

LEMMA RunStep == ScreeningInv /\ Screening!RunStep => ScreeningInv'
<1> SUFFICES ASSUME ScreeningInv, Screening!RunStep  PROVE ScreeningInv'
  OBVIOUS
<1>0. /\ row \in [Records -> Screening!Rows] /\ blocked \in BOOLEAN
      /\ indexRun.names \in BOOLEAN
  BY DEF ScreeningInv, Screening!TypeOK
<1>1. ASSUME NEW first \in {"catalogue", "enrich", "screen"}, Screening!StartRun(first)  PROVE ScreeningInv'
  BY <1>0, <1>1, RunGoes DEF Screening!StartRun
<1>2. CASE Screening!CatalogueDone
  BY <1>0, <1>2, RunGoes DEF Screening!CatalogueDone
<1>3. CASE Screening!EnrichmentDone
  BY <1>0, <1>3, RunGoes DEF Screening!EnrichmentDone
<1>4. CASE Screening!ScreeningDone
  BY <1>0, <1>4, RunGoes DEF Screening!ScreeningDone
<1>5. CASE Screening!RunDone
  BY <1>0, <1>5, RunGoes DEF Screening!RunDone
<1>6. ASSUME NEW r \in Records, Screening!Upsert(r)  PROVE ScreeningInv'
  <2>1. /\ row' \in [Records -> Screening!Rows]
        /\ \A x \in Records : row'[x].excluded = row[x].excluded
    BY <1>0, <1>6 DEF Screening!Upsert, Screening!Rows
  <2> QED  BY <2>1, <1>6 DEF Screening!Upsert, ScreeningInv, Screening!TypeOK, OnlyDecided
<1>7. ASSUME NEW r \in Records, Screening!SaveEnriched(r)  PROVE ScreeningInv'
  <2>1. r \in indexRun.copies.todo /\ indexRun.copies.of[r] \in Screening!Rows
    BY <1>7 DEF Screening!SaveEnriched, ScreeningInv, Copies
  <2>2. /\ row' \in [Records -> Screening!Rows]
        /\ \A x \in Records : row'[x].excluded => row[x].excluded \/ (x = r /\ indexRun.copies.of[r].excluded)
    BY <1>0, <1>7, <2>1 DEF Screening!SaveEnriched, Screening!Rows
  <2> QED  BY <2>1, <2>2, <1>7, RunSaves DEF Screening!SaveEnriched
<1>8. ASSUME NEW r \in Records, Screening!Screen(r)  PROVE ScreeningInv'
  <2>1. r \in indexRun.copies.todo /\ indexRun.copies.of[r] \in Screening!Rows
    BY <1>8 DEF Screening!Screen, ScreeningInv, Copies
  <2>2. /\ row' \in [Records -> Screening!Rows]
        /\ \A x \in Records : row'[x].excluded = row[x].excluded
    BY <1>0, <1>8, <2>1, ScreenedRows DEF Screening!Screen
  <2> QED  BY <2>1, <2>2, <1>8, RunSaves DEF Screening!Screen
<1>9. ASSUME NEW r \in Records, Screening!SavePages(r)  PROVE ScreeningInv'
  <2>1. r \in indexRun.copies.todo /\ indexRun.copies.of[r] \in Screening!Rows
    BY <1>9 DEF Screening!SavePages, ScreeningInv, Copies
  <2>2. PICK own \in BOOLEAN :
          row' = [Screening!Screened(r, [indexRun.copies.of[r] EXCEPT !.own = own], indexRun.names) EXCEPT ![r].own = own]
    BY <1>9 DEF Screening!SavePages
  <2>3. [indexRun.copies.of[r] EXCEPT !.own = own] \in Screening!Rows
    BY <2>1, <2>2 DEF Screening!Rows
  <2>4. PICK s \in [Records -> Screening!Rows] :
          /\ s = Screening!Screened(r, [indexRun.copies.of[r] EXCEPT !.own = own], indexRun.names)
          /\ \A x \in Records : s[x].excluded = row[x].excluded
    BY <1>0, <2>3, ScreenedRows
  <2>5. row' = [s EXCEPT ![r].own = own]
    BY <2>2, <2>4
  <2>6. /\ row' \in [Records -> Screening!Rows]
        /\ \A x \in Records : row'[x].excluded = row[x].excluded
    <3>1. PICK saved : saved = [s[r] EXCEPT !.own = own]
      OBVIOUS
    <3>2. s[r] \in Screening!Rows
      BY <1>9
    <3>3. saved \in Screening!Rows /\ saved.excluded = s[r].excluded
      BY <3>1, <3>2 DEF Screening!Rows
    <3>4. row' = [s EXCEPT ![r] = saved]
      BY <2>5, <3>1
    <3> QED  BY <2>4, <3>3, <3>4
  <2> QED  BY <2>1, <2>6, <1>9, RunSaves DEF Screening!SavePages
<1> QED  BY <1>1, <1>2, <1>3, <1>4, <1>5, <1>6, <1>7, <1>8, <1>9 DEF Screening!RunStep

\* A request of an administrator goes on.
LEMMA AdminGoes ==
  ASSUME ScreeningInv, NEW q \in Admins, NEW w, HoldsOK(w), Screening!Goto(q, w),
         UNCHANGED indexRun, blocked' \in BOOLEAN,
         row' \in [Records -> Screening!Rows], decided \subseteq decided', decided' \subseteq Records,
         \A x \in Records : row'[x].excluded => row[x].excluded \/ x \in decided'
  PROVE  ScreeningInv'
<1>1. /\ decision' = [x \in Admins |-> decision'[x]]
      /\ \A x \in Admins : HoldsOK(decision'[x])
  BY DEF ScreeningInv, Screening!Goto
<1>2. \A x \in Admins : HoldsOK(decision[x])'
  BY <1>1 DEF HoldsOK, Copies
<1> QED  BY <1>1, <1>2 DEF ScreeningInv, Screening!TypeOK, OnlyDecided, Copies

LEMMA RequestStep ==
  ASSUME ScreeningInv, NEW q \in Admins, Screening!RequestStep(q)
  PROVE  ScreeningInv'
<1>0. row \in [Records -> Screening!Rows] /\ blocked \in BOOLEAN /\ decided \subseteq Records
  BY DEF ScreeningInv, Screening!TypeOK
<1>1. HoldsOK(decision[q]) /\ HoldsOK(Screening!Idle)
  BY DEF ScreeningInv, HoldsOK, Screening!Idle
<1>2. ASSUME NEW r \in Records, NEW d \in Decisions, NEW block \in BOOLEAN, Screening!DecisionLoads(q, r, d, block)
      PROVE  ScreeningInv'
  <2>1. HoldsOK(Screening!AtDecide(r, d, block))
    BY <1>2 DEF HoldsOK, Screening!AtDecide
  <2> QED  BY <1>0, <1>2, <2>1, AdminGoes DEF Screening!DecisionLoads
<1>3. CASE Screening!DecisionSaves(q)
  <2>1. PICK r, d, block : /\ r = decision[q].record /\ d = decision[q].decision /\ block = decision[q].block
                           /\ r \in Records /\ d \in Decisions /\ block \in BOOLEAN
    BY <1>1, <1>3 DEF HoldsOK, Screening!DecisionSaves
  <2>2. /\ row' = Screening!Decided(r, d, block)
        /\ decided' = IF d = "exclude" THEN decided \union {r} ELSE decided
        /\ blocked' = (blocked \/ block)
    BY <1>3, <2>1 DEF Screening!DecisionSaves
  <2>3. row' \in [Records -> Screening!Rows]
    <3>1. row[r] \in Screening!Rows
      BY <1>0, <2>1
    <3>2. CASE d = "exclude"
      <4>1. [row[r] EXCEPT !.excluded = TRUE, !.status = "excluded"] \in Screening!Rows
        BY <3>1 DEF Screening!Rows
      <4>2. row' = [row EXCEPT ![r] = [row[r] EXCEPT !.excluded = TRUE, !.status = "excluded"]]
        BY <1>0, <2>1, <2>2, <3>2 DEF Screening!Decided
      <4> QED  BY <1>0, <2>1, <4>1, <4>2
    <3>3. CASE d # "exclude"
      <4>1. PICK e \in BOOLEAN : e = IF d = "restore" THEN FALSE ELSE row[r].excluded
        BY <3>1 DEF Screening!Rows
      <4>2. [row[r] EXCEPT !.excluded = e, !.status = "kept", !.kept = row[r].flags] \in Screening!Rows
        BY <3>1 DEF Screening!Rows
      <4>3. row' = [row EXCEPT ![r] = [row[r] EXCEPT !.excluded = e, !.status = "kept", !.kept = row[r].flags]]
        BY <2>2, <3>3, <4>1 DEF Screening!Decided
      <4> QED  BY <1>0, <2>1, <4>2, <4>3
    <3> QED  BY <3>2, <3>3
  <2>4. \A x \in Records : row'[x].excluded => row[x].excluded \/ x \in decided'
    BY <1>0, <2>1, <2>2 DEF Screening!Decided, Screening!Rows
  <2>5. PICK these \in SUBSET Records :
          Screening!Goto(q, IF block THEN Screening!AtOthers(Screening!CopyOf(these), TRUE) ELSE Screening!Idle)
    BY <1>3, <2>1 DEF Screening!DecisionSaves
  <2>6. HoldsOK(Screening!AtOthers(Screening!CopyOf(these), TRUE))
    BY <1>0, <2>5, Loading DEF HoldsOK, Screening!AtOthers
  <2>7. UNCHANGED indexRun
    BY <1>3 DEF Screening!DecisionSaves
  <2> QED  BY <1>0, <1>1, <2>1, <2>2, <2>3, <2>4, <2>5, <2>6, <2>7, AdminGoes
<1>4. CASE Screening!Unblock(q)
  <2>1. HoldsOK(Screening!AtOthers(Screening!CopyOf(Records), FALSE))
    BY <1>0, Loading DEF HoldsOK, Screening!AtOthers
  <2> QED  BY <1>0, <1>4, <2>1, AdminGoes DEF Screening!Unblock
<1>5. CASE Screening!OthersDone(q)
  BY <1>0, <1>1, <1>5, AdminGoes DEF Screening!OthersDone
<1>6. ASSUME NEW r \in Records, Screening!ScreenOther(q, r)  PROVE ScreeningInv'
  <2>1. PICK c, names : c = decision[q].copies /\ names = decision[q].names
    OBVIOUS
  <2>2. Copies(c) /\ r \in c.todo /\ c.of[r] \in Screening!Rows
    BY <1>1, <1>6, <2>1 DEF Screening!ScreenOther, HoldsOK, Copies
  <2>3. /\ row' \in [Records -> Screening!Rows]
        /\ \A x \in Records : row'[x].excluded = row[x].excluded
    BY <1>0, <1>6, <2>1, <2>2, ScreenedRows DEF Screening!ScreenOther
  <2>4. PICK rest : rest = Screening!Without(c, r) /\ Copies(rest)
    BY <2>2, GoingOn
  <2>5. Screening!Goto(q, IF rest.todo = {} THEN Screening!Idle ELSE Screening!AtOthers(rest, names))
    BY <1>6, <2>1, <2>4 DEF Screening!ScreenOther
  <2>6. HoldsOK(Screening!AtOthers(rest, names))
    BY <2>4 DEF HoldsOK, Screening!AtOthers
  <2>7. UNCHANGED <<blocked, decided, indexRun>>
    BY <1>6 DEF Screening!ScreenOther
  <2> QED  BY <1>0, <1>1, <2>3, <2>5, <2>6, <2>7, AdminGoes
<1> QED  BY <1>2, <1>3, <1>4, <1>5, <1>6 DEF Screening!RequestStep, Decisions

LEMMA ScreeningStep == ScreeningInv /\ [Screening!Next]_screeningVars => ScreeningInv'
<1> SUFFICES ASSUME ScreeningInv, [Screening!Next]_screeningVars  PROVE ScreeningInv'
  OBVIOUS
<1>1. CASE Screening!Next
  BY <1>1, RunStep, RequestStep DEF Screening!Next
<1>2. CASE UNCHANGED screeningVars
  BY <1>2 DEF screeningVars, ScreeningInv, Screening!TypeOK, Screening!Pass, Copies, HoldsOK, OnlyDecided
<1> QED  BY <1>1, <1>2

(***************************************************************************)
(* Discovery and index runs.                                               *)
(***************************************************************************)

Statuses == {"none", "queued", "processing", "completed", "failed"}
RunRows == [status : Statuses, created : 0..3, started : 0..3]

\* A run that waits, or was not created, was not begun.
Begun ==
    /\ begun \in [Runs -> 0..1]
    /\ \A r \in Runs : run[r].status \in {"none", "queued"} => begun[r] = 0

CatalogueInv == Catalogue!TypeOK /\ Begun

LEMMA CatalogueInit == Catalogue!Init => CatalogueInv
  BY DEF Catalogue!Init, CatalogueInv, Catalogue!TypeOK, Begun, Catalogue!NoRun, Catalogue!Unused, Catalogue!Starters

\* A step that begins no run: no run comes back to the beginning, and those that
\* get a task are created.
LEMMA NothingBegins ==
  ASSUME CatalogueInv, UNCHANGED <<kind, begun>>,
         run' \in [Runs -> RunRows],
         \A r \in Runs : /\ run'[r] = Catalogue!NoRun => run[r] = Catalogue!NoRun
                         /\ run'[r].status \in {"none", "queued"} => run[r].status \in {"none", "queued"},
         message' \subseteq message \union {r \in Runs : run'[r] # Catalogue!NoRun},
         starter' \in [Catalogue!Starters -> {"idle", "create"}],
         worker' \in [Workers -> Runs \union {Nothing}]
  PROVE  CatalogueInv'
<1>1. message' \subseteq Runs \ {r \in Runs : run'[r] = Catalogue!NoRun}
  BY DEF CatalogueInv, Catalogue!TypeOK, Catalogue!Unused
<1>2. Catalogue!TypeOK'
  BY <1>1 DEF CatalogueInv, Catalogue!TypeOK, RunRows, Statuses, Catalogue!Unused, Catalogue!NoRun
<1>3. Begun'
  BY DEF CatalogueInv, Begun
<1> QED  BY <1>2, <1>3 DEF CatalogueInv

\* The work of a run begins that was only just created, or is queued.
LEMMA RunBegins ==
  ASSUME CatalogueInv, NEW w \in Workers, NEW r \in Runs, run[r].status \in {"none", "queued"},
         Catalogue!Begin(w, r), message' = message, kind' = kind,
         starter' \in [Catalogue!Starters -> {"idle", "create"}]
  PROVE  CatalogueInv'
<1>1. run \in [Runs -> RunRows] /\ begun \in [Runs -> 0..1] /\ begun[r] = 0
  BY DEF CatalogueInv, Catalogue!TypeOK, RunRows, Statuses, Begun
<1>2. /\ run' \in [Runs -> RunRows]
      /\ run'[r].status = "processing"
      /\ \A x \in Runs \ {r} : run'[x] = run[x]
  <2>1. PICK zero \in 0..3 : zero = 0
    OBVIOUS
  <2>2. \A h : h \in RunRows => /\ [h EXCEPT !.status = "processing", !.started = zero] \in RunRows
                                /\ [h EXCEPT !.status = "processing", !.started = zero].status = "processing"
    BY DEF RunRows, Statuses
  <2>3. run' = [run EXCEPT ![r].status = "processing", ![r].started = zero]
    BY <2>1, Zenon DEF Catalogue!Begin
  <2>4. PICK new \in RunRows : /\ new = [run[r] EXCEPT !.status = "processing", !.started = zero]
                               /\ new.status = "processing"
    BY <1>1, <2>2
  <2>5. run' = [run EXCEPT ![r] = new]
    BY <1>1, <2>3, <2>4
  <2> QED  BY <1>1, <2>4, <2>5
<1>3. /\ begun' \in [Runs -> 0..1]
      /\ \A x \in Runs \ {r} : begun'[x] = begun[x]
  BY <1>1 DEF Catalogue!Begin
<1>4. worker' \in [Workers -> Runs \union {Nothing}]
  BY DEF Catalogue!Begin, CatalogueInv, Catalogue!TypeOK
<1>5. message \subseteq Runs \ {x \in Runs : run'[x] = Catalogue!NoRun}
  BY <1>2 DEF CatalogueInv, Catalogue!TypeOK, Catalogue!Unused, Catalogue!NoRun
<1>6. Catalogue!TypeOK'
  BY <1>2, <1>4, <1>5 DEF CatalogueInv, Catalogue!TypeOK, RunRows, Statuses, Catalogue!Unused
<1>7. Begun'
  BY <1>2, <1>3 DEF CatalogueInv, Begun
<1> QED  BY <1>6, <1>7 DEF CatalogueInv

\* close_stale_runs fails active runs and leaves the others.
LEMMA Closing ==
  ASSUME run \in [Runs -> RunRows]
  PROVE  /\ Catalogue!Closed \in [Runs -> RunRows]
         /\ \A r \in Runs : Catalogue!Closed[r] = run[r] \/ Catalogue!Closed[r].status = "failed"
  BY DEF Catalogue!Closed, RunRows, Statuses

LEMMA CatalogueStep == CatalogueInv /\ [Catalogue!Next]_catalogueVars => CatalogueInv'
<1> SUFFICES ASSUME CatalogueInv, [Catalogue!Next]_catalogueVars  PROVE CatalogueInv'
  OBVIOUS
<1>0. /\ run \in [Runs -> RunRows] /\ starter \in [Catalogue!Starters -> {"idle", "create"}]
      /\ worker \in [Workers -> Runs \union {Nothing}] /\ message \subseteq Runs \ Catalogue!Unused
  BY DEF CatalogueInv, Catalogue!TypeOK, RunRows, Statuses
<1>1. CASE Catalogue!AdminCreates
  <2>1. PICK r \in Catalogue!Unused : /\ run' = [run EXCEPT ![r].status = "queued"]
                                      /\ message' = message \union {r}
    BY <1>1 DEF Catalogue!AdminCreates
  <2>2. r \in Runs /\ run[r] = Catalogue!NoRun /\ run[r].status = "none"
    BY <2>1 DEF Catalogue!Unused, Catalogue!NoRun
  <2>3. run' \in [Runs -> RunRows] /\ run'[r].status = "queued" /\ \A x \in Runs \ {r} : run'[x] = run[x]
    BY <1>0, <2>1, <2>2 DEF RunRows, Statuses
  <2>4. starter' \in [Catalogue!Starters -> {"idle", "create"}] /\ UNCHANGED <<kind, worker, begun>>
    BY <1>0, <1>1 DEF Catalogue!AdminCreates
  <2>5. r \in {x \in Runs : run'[x] # Catalogue!NoRun}
    BY <2>2, <2>3 DEF Catalogue!NoRun
  <2> QED  BY <1>0, <2>1, <2>2, <2>3, <2>4, <2>5, NothingBegins DEF Catalogue!NoRun
<1>2. CASE Catalogue!Stop
  <2>1. PICK r \in Runs : run' = [Catalogue!Closed EXCEPT ![r].status = "failed"]
    BY <1>2 DEF Catalogue!Stop
  <2>2. /\ run' \in [Runs -> RunRows]
        /\ \A x \in Runs : run'[x] = run[x] \/ run'[x].status = "failed"
    BY <1>0, <2>1, Closing DEF RunRows, Statuses
  <2> QED  BY <1>0, <1>2, <2>2, NothingBegins DEF Catalogue!Stop, Catalogue!NoRun
<1>3. CASE Catalogue!HourPasses
  <2>1. /\ run' \in [Runs -> RunRows]
        /\ \A x \in Runs : run'[x].status = run[x].status /\ (run[x].status = "none" => run'[x] = run[x])
    <3>1. \A h \in 0..3 : Catalogue!Older(h) \in 0..3
      BY DEF Catalogue!Older
    <3>2. \A h : h \in RunRows => [h EXCEPT !.created = Catalogue!Older(@), !.started = Catalogue!Older(@)] \in RunRows
      BY <3>1 DEF RunRows
    <3>3. \A h : h \in RunRows =>
             [h EXCEPT !.created = Catalogue!Older(@), !.started = Catalogue!Older(@)].status = h.status
      BY DEF RunRows
    <3>4. run' = [x \in Runs |-> IF run[x].status \in Catalogue!Active
                                 THEN [run[x] EXCEPT !.created = Catalogue!Older(@), !.started = Catalogue!Older(@)]
                                 ELSE run[x]]
      BY <1>3 DEF Catalogue!HourPasses
    <3> QED  BY <1>0, <3>2, <3>3, <3>4 DEF Catalogue!Active
  <2> QED  BY <1>0, <1>3, <2>1, NothingBegins DEF Catalogue!HourPasses, Catalogue!NoRun
<1>4. ASSUME NEW s \in Catalogue!Starters, Catalogue!RequestChecks(s)  PROVE CatalogueInv'
  <2>1. /\ run' \in [Runs -> RunRows]
        /\ \A x \in Runs : run'[x] = run[x] \/ run'[x].status = "failed"
    BY <1>0, <1>4, Closing DEF Catalogue!RequestChecks
  <2>2. starter' \in [Catalogue!Starters -> {"idle", "create"}] /\ UNCHANGED <<kind, message, worker, begun>>
    BY <1>0, <1>4 DEF Catalogue!RequestChecks
  <2> QED  BY <1>0, <2>1, <2>2, NothingBegins DEF Catalogue!NoRun
<1>5. ASSUME NEW w \in Workers, Catalogue!Works(w)  PROVE CatalogueInv'
  <2>1. run' \in [Runs -> RunRows] /\ \A x \in Runs : run'[x] = run[x] \/ run'[x].status = "processing"
    BY <1>0, <1>5 DEF Catalogue!Works, RunRows, Statuses
  <2> QED  BY <1>0, <1>5, <2>1, NothingBegins DEF Catalogue!Works, Catalogue!NoRun
<1>6. ASSUME NEW w \in Workers, Catalogue!Ends(w)  PROVE CatalogueInv'
  <2>1. run' \in [Runs -> RunRows] /\ \A x \in Runs : run'[x] = run[x] \/ run'[x].status \in {"completed", "failed"}
    BY <1>0, <1>6 DEF Catalogue!Ends, RunRows, Statuses
  <2>2. worker' \in [Workers -> Runs \union {Nothing}]
    BY <1>0, <1>6 DEF Catalogue!Ends
  <2>3. message' \subseteq message
    BY <1>6 DEF Catalogue!Ends
  <2> QED  BY <1>0, <1>6, <2>1, <2>2, <2>3, NothingBegins DEF Catalogue!Ends, Catalogue!NoRun
<1>7. ASSUME NEW w \in Workers, Catalogue!Dies(w)  PROVE CatalogueInv'
  <2>1. worker' \in [Workers -> Runs \union {Nothing}]
    BY <1>0, <1>7 DEF Catalogue!Dies
  <2> QED  BY <1>0, <1>7, <2>1, NothingBegins DEF Catalogue!Dies
<1>8. ASSUME NEW w \in Workers, Catalogue!ScheduleCreates(w)  PROVE CatalogueInv'
  <2>1. starter' \in [Catalogue!Starters -> {"idle", "create"}] /\ UNCHANGED <<kind, message>>
    BY <1>0, <1>8 DEF Catalogue!ScheduleCreates
  <2>2. CASE Catalogue!Unused = {}
    BY <1>0, <1>8, <2>1, <2>2, NothingBegins DEF Catalogue!ScheduleCreates
  <2>3. CASE Catalogue!Unused # {}
    <3>1. PICK r \in Catalogue!Unused : Catalogue!Begin(w, r)
      BY <1>8, <2>3 DEF Catalogue!ScheduleCreates
    <3>2. r \in Runs /\ run[r].status = "none"
      BY DEF Catalogue!Unused, Catalogue!NoRun
    <3> QED  BY <2>1, <3>1, <3>2, RunBegins
  <2> QED  BY <2>2, <2>3
<1>9. ASSUME NEW w \in Workers, NEW r \in Runs, Catalogue!Deliver(w, r)  PROVE CatalogueInv'
  <2>1. CASE Catalogue!MayBegin(r)
    BY <1>0, <1>9, <2>1, RunBegins DEF Catalogue!Deliver, Catalogue!MayBegin
  <2>2. CASE ~Catalogue!MayBegin(r)
    <3>1. run' \in [Runs -> RunRows] /\ \A x \in Runs : run'[x] = run[x] \/ run'[x].status = "failed"
      BY <1>0, <1>9, <2>2 DEF Catalogue!Deliver, RunRows, Statuses
    <3> QED  BY <1>0, <1>9, <2>2, <3>1, NothingBegins DEF Catalogue!Deliver, Catalogue!NoRun
  <2> QED  BY <2>1, <2>2
<1>10. CASE UNCHANGED catalogueVars
  BY <1>0, <1>10, NothingBegins DEF catalogueVars
<1> QED  BY <1>1, <1>2, <1>3, <1>4, <1>5, <1>6, <1>7, <1>8, <1>9, <1>10 DEF Catalogue!Next

(***************************************************************************)
(* The public review.                                                      *)
(***************************************************************************)

Submissions ==
    [status : {"none", "processing", "completed", "failed"},
     decision : {"none", "ACCEPTED", "REJECTED"}, notice : {"none", "pending", "sent", "error"}]

\* A task that waits may still be delivered, and none was before it is handed over.
Deliveries ==
    /\ task.waits => task.deliveries < MaxDeliveries
    /\ intake # "done" => task.deliveries = 0 /\ ~task.waits

\* What workers and administrators have read are rows and decisions.
Read ==
    /\ reviewer = [w \in Reviewers |-> reviewer[w]]
    /\ \A w \in Reviewers : reviewer[w].at = "review" => reviewer[w].row \in Submissions
    /\ admin = [a \in Admins |-> admin[a]]
    /\ \A a \in Admins : admin[a].at = "save" => admin[a].decision \in {"ACCEPTED", "REJECTED"}

ReviewInv == Review!TypeOK /\ Deliveries /\ Read

LEMMA ReviewInit == Review!Init => ReviewInv
<1> SUFFICES ASSUME Review!Init  PROVE ReviewInv
  OBVIOUS
<1>1. /\ task \in [deliveries : 0..MaxDeliveries, waits : BOOLEAN, acked : BOOLEAN]
      /\ Deliveries
  BY DeliveriesAssumption DEF Review!Init, Deliveries
<1>2. submission \in Submissions
  BY DEF Review!Init, Review!NoRow, Submissions
<1>3. Read /\ \A w \in Reviewers : reviewer[w].at = "idle"
  BY DEF Review!Init, Read, Review!Idle
<1>4. \A a \in Admins : admin[a].at = "idle"
  BY DEF Review!Init, Review!Idle
<1> QED  BY <1>1, <1>2, <1>3, <1>4 DEF Review!Init, ReviewInv, Review!TypeOK, Submissions

LEMMA SavedIsRow ==
  ASSUME NEW r \in Submissions  PROVE Review!Saved(r) \in Submissions
  BY DEF Review!Saved, Review!NoRow, Submissions

\* A worker or an administrator goes on, and the row is written.
LEMMA ReviewerGoes ==
  ASSUME ReviewInv, NEW w \in Reviewers, NEW where, Review!WorkerTo(w, where),
         where.at \in {"idle", "read", "review", "mail", "fail", "end"},
         where.at = "review" => where.row \in Submissions,
         submission' \in Submissions, job' \in {"none", "queued", "processing", "completed", "failed"},
         late' \in BOOLEAN, abandoned' \in BOOLEAN, UNCHANGED <<intake, sweep, admin>>,
         task' \in [deliveries : 0..MaxDeliveries, waits : BOOLEAN, acked : BOOLEAN],
         task' = task \/ (intake = "done" /\ ~task'.waits) \/ task' = [task EXCEPT !.acked = TRUE]
  PROVE  ReviewInv'
<1>1. /\ reviewer' = [x \in Reviewers |-> reviewer'[x]]
      /\ \A x \in Reviewers : /\ reviewer'[x].at \in {"idle", "read", "review", "mail", "fail", "end"}
                              /\ reviewer'[x].at = "review" => reviewer'[x].row \in Submissions
  BY DEF ReviewInv, Read, Review!TypeOK, Review!WorkerTo
<1>2. Deliveries'
  BY DEF ReviewInv, Review!TypeOK, Deliveries
<1> QED  BY <1>1, <1>2 DEF ReviewInv, Review!TypeOK, Read, Submissions

LEMMA AdminsGo ==
  ASSUME ReviewInv, NEW a \in Admins, NEW where, Review!AdminTo(a, where),
         where.at \in {"idle", "save", "mail"},
         where.at = "save" => where.decision \in {"ACCEPTED", "REJECTED"},
         submission' \in Submissions, UNCHANGED <<job, late, intake, task, sweep, reviewer, abandoned>>
  PROVE  ReviewInv'
<1>1. /\ admin' = [x \in Admins |-> admin'[x]]
      /\ \A x \in Admins : /\ admin'[x].at \in {"idle", "save", "mail"}
                           /\ admin'[x].at = "save" => admin'[x].decision \in {"ACCEPTED", "REJECTED"}
  BY DEF ReviewInv, Read, Review!TypeOK, Review!AdminTo
<1> QED  BY <1>1 DEF ReviewInv, Review!TypeOK, Read, Submissions, Deliveries

\* Intake, queue, sweep and clock move nobody.
LEMMA NobodyGoes ==
  ASSUME ReviewInv, UNCHANGED <<reviewer, admin>>, submission' \in Submissions,
         job' \in {"none", "queued", "processing", "completed", "failed"},
         late' \in BOOLEAN, sweep' \in {"idle", "look", "save"}, abandoned' \in BOOLEAN, intake' \in {"row", "job", "task", "done"},
         task' \in [deliveries : 0..MaxDeliveries, waits : BOOLEAN, acked : BOOLEAN], Deliveries'
  PROVE  ReviewInv'
  BY DEF ReviewInv, Review!TypeOK, Read, Submissions

LEMMA ReviewStep == ReviewInv /\ [Review!Next]_reviewVars => ReviewInv'
<1> SUFFICES ASSUME ReviewInv, [Review!Next]_reviewVars  PROVE ReviewInv'
  OBVIOUS
<1> DEFINE Jobs == {"none", "queued", "processing", "completed", "failed"}
<1> DEFINE Tasks == [deliveries : 0..MaxDeliveries, waits : BOOLEAN, acked : BOOLEAN]
<1>0. /\ submission \in Submissions /\ job \in Jobs /\ late \in BOOLEAN
      /\ sweep \in {"idle", "look", "save"} /\ abandoned \in BOOLEAN
      /\ intake \in {"row", "job", "task", "done"} /\ task \in Tasks /\ Deliveries
  BY DEF ReviewInv, Review!TypeOK, Submissions
<1>1. CASE Review!TakeIn
  <2>1. submission' \in Submissions
    BY <1>1 DEF Review!TakeIn, Review!NoRow, Submissions
  <2>2. Deliveries'
    BY <1>0, <1>1 DEF Review!TakeIn, Deliveries
  <2> QED  BY <1>0, <1>1, <2>1, <2>2, NobodyGoes DEF Review!TakeIn
<1>2. CASE Review!CreateJob
  <2>1. Deliveries'
    BY <1>0, <1>2 DEF Review!CreateJob, Deliveries
  <2> QED  BY <1>0, <1>2, <2>1, NobodyGoes DEF Review!CreateJob
<1>3. CASE Review!HandOver
  <2>1. task' \in Tasks /\ task'.deliveries = 0
    BY <1>0, <1>3 DEF Review!HandOver, Deliveries
  <2>2. Deliveries'
    BY <2>1, <1>3, DeliveriesAssumption DEF Review!HandOver, Deliveries
  <2> QED  BY <1>0, <1>3, <2>1, <2>2, NobodyGoes DEF Review!HandOver
<1>4. CASE Review!Redeliver
  <2>1. task.deliveries < MaxDeliveries /\ 0 < task.deliveries /\ task' = [task EXCEPT !.waits = TRUE]
        /\ UNCHANGED intake
    BY <1>4 DEF Review!Redeliver
  <2>2. task' \in Tasks /\ task'.deliveries = task.deliveries
    BY <1>0, <2>1
  <2>3. Deliveries'
    BY <1>0, <2>1, <2>2 DEF Deliveries
  <2> QED  BY <1>0, <1>4, <2>2, <2>3, NobodyGoes DEF Review!Redeliver
<1>5. CASE Review!TimePasses
  <2>1. Deliveries'
    BY <1>0, <1>5 DEF Review!TimePasses, Deliveries
  <2> QED  BY <1>0, <1>5, <2>1, NobodyGoes DEF Review!TimePasses
<1>6. CASE Review!SweepJob
  <2>1. Deliveries'
    BY <1>0, <1>6 DEF Review!SweepJob, Deliveries
  <2> QED  BY <1>0, <1>6, <2>1, NobodyGoes DEF Review!SweepJob
<1>7. CASE Review!SweepRow
  <2>1. [submission EXCEPT !.status = "failed"] \in Submissions
    BY <1>0 DEF Submissions
  <2>2. submission' \in Submissions
    BY <1>7, <2>1, SavedIsRow DEF Review!SweepRow
  <2>3. Deliveries'
    BY <1>0, <1>7 DEF Review!SweepRow, Deliveries
  <2> QED  BY <1>0, <1>7, <2>2, <2>3, NobodyGoes DEF Review!SweepRow
<1>8. CASE Review!Delete
  <2>1. submission' \in Submissions
    BY <1>8 DEF Review!Delete, Review!NoRow, Submissions
  <2>2. Deliveries'
    BY <1>0, <1>8 DEF Review!Delete, Deliveries
  <2> QED  BY <1>0, <1>8, <2>1, <2>2, NobodyGoes DEF Review!Delete
<1>9. ASSUME NEW w \in Reviewers, Review!Start(w)  PROVE ReviewInv'
  <2>3. task.waits /\ task' = [task EXCEPT !.waits = FALSE, !.deliveries = @ + 1]
    BY <1>9 DEF Review!Start
  <2>4. task.deliveries \in 0..MaxDeliveries /\ task.deliveries < MaxDeliveries /\ intake = "done"
    BY <1>0, <2>3 DEF Deliveries
  <2>5. task.deliveries + 1 \in 0..MaxDeliveries
    BY <2>4, DeliveriesAssumption
  <2>1. task' \in Tasks /\ intake = "done" /\ ~task'.waits
    BY <1>0, <2>3, <2>4, <2>5
  <2>2. PICK where : where = [at |-> "read"]
    OBVIOUS
  <2> QED  BY <1>0, <1>9, <2>1, <2>2, ReviewerGoes DEF Review!Start
<1>10. ASSUME NEW w \in Reviewers, Review!Read(w)  PROVE ReviewInv'
  <2>1. CASE submission = Review!NoRow
    <3>1. PICK where : where = [at |-> "end"]
      OBVIOUS
    <3> QED  BY <1>0, <1>10, <2>1, <3>1, ReviewerGoes DEF Review!Read
  <2>2. CASE submission # Review!NoRow
    <3>1. PICK where : where = [at |-> "review", row |-> submission]
      OBVIOUS
    <3> QED  BY <1>0, <1>10, <2>2, <3>1, ReviewerGoes DEF Review!Read
  <2> QED  BY <2>1, <2>2
<1>11. ASSUME NEW w \in Reviewers, Review!Complete(w)  PROVE ReviewInv'
  <2>1. reviewer[w].row \in Submissions
    BY <1>11 DEF Review!Complete, ReviewInv, Read
  <2>2. submission' \in Submissions
    BY <1>11, <2>1 DEF Review!Complete, Submissions
  <2>3. PICK where : where = [at |-> "mail"]
    OBVIOUS
  <2> QED  BY <1>0, <1>11, <2>2, <2>3, ReviewerGoes DEF Review!Complete
<1>12. ASSUME NEW w \in Reviewers, Review!Mail(w)  PROVE ReviewInv'
  <2>1. \A outcome \in {"sent", "error"} : [submission EXCEPT !.notice = outcome] \in Submissions
    BY <1>0 DEF Submissions
  <2>2. submission' \in Submissions
    BY <1>12, <2>1, SavedIsRow DEF Review!Mail
  <2>3. PICK where : where = [at |-> "end"]
    OBVIOUS
  <2> QED  BY <1>0, <1>12, <2>2, <2>3, ReviewerGoes DEF Review!Mail
<1>13. ASSUME NEW w \in Reviewers, Review!Fail(w)  PROVE ReviewInv'
  <2>1. PICK where : where = [at |-> "fail"]
    OBVIOUS
  <2> QED  BY <1>0, <1>13, <2>1, ReviewerGoes DEF Review!Fail
<1>14. ASSUME NEW w \in Reviewers, Review!FailRow(w)  PROVE ReviewInv'
  <2>1. [submission EXCEPT !.status = "failed"] \in Submissions
    BY <1>0 DEF Submissions
  <2>2. submission' \in Submissions
    BY <1>0, <1>14, <2>1, SavedIsRow DEF Review!FailRow
  <2>3. PICK where : where = [at |-> "end"]
    OBVIOUS
  <2> QED  BY <1>0, <1>14, <2>2, <2>3, ReviewerGoes DEF Review!FailRow
<1>15. ASSUME NEW w \in Reviewers, Review!Acknowledge(w)  PROVE ReviewInv'
  <2>1. task' \in Tasks /\ task' = [task EXCEPT !.acked = TRUE]
    BY <1>0, <1>15 DEF Review!Acknowledge
  <2> QED  BY <1>0, <1>15, <2>1, ReviewerGoes DEF Review!Acknowledge, Review!Idle
<1>16. ASSUME NEW w \in Reviewers, Review!Dies(w)  PROVE ReviewInv'
  BY <1>0, <1>16, ReviewerGoes DEF Review!Dies, Review!Idle
<1>17. ASSUME NEW a \in Admins, Review!LoadDecide(a)  PROVE ReviewInv'
  <2>1. PICK d \in {"ACCEPTED", "REJECTED"} : Review!AdminTo(a, [at |-> "save", decision |-> d])
    BY <1>17 DEF Review!LoadDecide
  <2>2. PICK where : where = [at |-> "save", decision |-> d]
    OBVIOUS
  <2> QED  BY <1>0, <1>17, <2>1, <2>2, AdminsGo DEF Review!LoadDecide
<1>18. ASSUME NEW a \in Admins, Review!Decide(a)  PROVE ReviewInv'
  <2>1. admin[a].decision \in {"ACCEPTED", "REJECTED"}
    BY <1>18 DEF Review!Decide, ReviewInv, Read
  <2>2. [submission EXCEPT !.decision = admin[a].decision] \in Submissions
    BY <1>0, <2>1 DEF Submissions
  <2>3. submission' \in Submissions
    BY <1>18, <2>2, SavedIsRow DEF Review!Decide
  <2>4. PICK where : where = IF submission = Review!NoRow THEN Review!Idle ELSE [at |-> "mail"]
    OBVIOUS
  <2> QED  BY <1>0, <1>18, <2>3, <2>4, AdminsGo DEF Review!Decide, Review!Idle
<1>19. ASSUME NEW a \in Admins, Review!Tell(a)  PROVE ReviewInv'
  <2>1. \A outcome \in {"sent", "error"} : [submission EXCEPT !.notice = outcome] \in Submissions
    BY <1>0 DEF Submissions
  <2>2. submission' \in Submissions
    BY <1>19, <2>1, SavedIsRow DEF Review!Tell
  <2> QED  BY <1>0, <1>19, <2>2, AdminsGo DEF Review!Tell, Review!Idle
<1>21. CASE Review!IntakeDies
  <2>1. Deliveries'
    BY <1>0, <1>21 DEF Review!IntakeDies, Deliveries
  <2> QED  BY <1>0, <1>21, <2>1, NobodyGoes DEF Review!IntakeDies
<1>22. CASE Review!SweepReads
  <2>1. Deliveries'
    BY <1>0, <1>22 DEF Review!SweepReads, Deliveries
  <2>2. sweep' \in {"idle", "look", "save"}
    BY <1>22 DEF Review!SweepReads
  <2> QED  BY <1>0, <1>22, <2>1, <2>2, NobodyGoes DEF Review!SweepReads
<1>23. CASE Review!SweepDies
  <2>1. Deliveries'
    BY <1>0, <1>23 DEF Review!SweepDies, Deliveries
  <2> QED  BY <1>0, <1>23, <2>1, NobodyGoes DEF Review!SweepDies
<1>20. CASE UNCHANGED reviewVars
  BY <1>20 DEF reviewVars, ReviewInv, Review!TypeOK, Deliveries, Read
<1> QED
  BY <1>1, <1>2, <1>3, <1>4, <1>5, <1>6, <1>7, <1>8, <1>9, <1>10, <1>11, <1>12, <1>13, <1>14, <1>15, <1>16,
     <1>17, <1>18, <1>19, <1>20, <1>21, <1>22, <1>23 DEF Review!Next

(***************************************************************************)
(* The composition.                                                        *)
(***************************************************************************)

IInv == ScreeningInv /\ CatalogueInv /\ ReviewInv

\* Each part keeps its own invariant, and the others do not move.
LEMMA IndStep == IInv /\ [Next]_vars => IInv'
<1> SUFFICES ASSUME IInv, [Next]_vars  PROVE IInv'
  OBVIOUS
<1>1. /\ [Screening!Next]_screeningVars
      /\ [Catalogue!Next]_catalogueVars
      /\ [Review!Next]_reviewVars
  BY Zenon DEF Next, InScreening, InCatalogue, InReview, vars, screeningVars, catalogueVars, reviewVars
<1> QED  BY <1>1, ScreeningStep, CatalogueStep, ReviewStep, Zenon DEF IInv

\* IInv is an inductive invariant of the specification.
THEOREM Invariance == Spec => []IInv
<1>1. Init => IInv
  BY ScreeningInit, CatalogueInit, ReviewInit DEF Init, IInv
<1> QED  BY <1>1, IndStep, PTL DEF Spec

\* Every reachable state of the three parts is well typed.
THEOREM TypeCorrect == Spec => []TypeOK
<1>1. IInv => TypeOK
  BY DEF IInv, ScreeningInv, CatalogueInv, ReviewInv, TypeOK
<1> QED  BY <1>1, Invariance, PTL

\* "Never excludes anything": whatever is flagged, blocked, loaded and saved late, a
\* journal is excluded only if a person decided that (screen_record, _enrichment_pass).
THEOREM OnlyPeopleExclude == Spec => []OnlyDecidedIsExcluded
<1>1. IInv => OnlyDecidedIsExcluded
  BY DEF IInv, ScreeningInv, OnlyDecided, OnlyDecidedIsExcluded, Screening!OnlyDecidedIsExcluded
<1> QED  BY <1>1, Invariance, PTL

\* The work of a run begins at most once, whatever worker dies and however often the
\* task is delivered (run_venue_discovery_task, run_venue_index_task).
THEOREM RunsBeginOnce == Spec => []BegunOnce
<1>1. IInv => BegunOnce
  BY DEF IInv, CatalogueInv, Begun, BegunOnce, Catalogue!BegunOnce
<1> QED  BY <1>1, Invariance, PTL
=============================================================================
