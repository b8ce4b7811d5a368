-------------------------- MODULE RulesReadingProofs --------------------------
(***************************************************************************)
(* Proofs about RulesReading, for any number of rows, pages and readers:   *)
(* what is read of a journal's pages never changes a live venue by itself, *)
(* and whatever it differs in waits for the administrator.                 *)
(***************************************************************************)
EXTENDS RulesReading, TLAPS

\* What a reader keeps between two transactions.
PlaceOK(where, staged) ==
    /\ where.at \in {"fetched", "confirm"} => where.page \in Pages
    /\ where.at \in {"find", "store"} => where.reading \in AnyReading
    /\ where.at \in {"confirm", "record"} => where.item \in staged
    /\ where.at = "store" => where.item \in staged \union {None}

Tables == /\ item = [i \in Items |-> item[i]] /\ venue = [i \in Items |-> venue[i]]
          /\ reader = [w \in Readers |-> reader[w]]
ReadersOK == \A w \in Readers : PlaceOK(reader[w], Staged)

IInv == TypeOK /\ DifferencesWait /\ Tables /\ ReadersOK

\* A reading knows the page it was read from.
LEMMA ReadingPage ==
    ASSUME NEW p, NEW r \in Readings(p)
    PROVE  r.page = p
  <1>1. ASSUME NEW answer PROVE /\ Validated(p, answer).page = p
                                /\ WithOpenCall(Validated(p, answer)).page = p
    BY DEF Validated, WithOpenCall
  <1>2. \E answer : r = Validated(p, answer) \/ r = WithOpenCall(Validated(p, answer))
    BY DEF Readings
  <1> QED  BY <1>1, <1>2

LEMMA PageOfReading == \A r \in AnyReading : r.page \in Pages
  BY ReadingPage DEF AnyReading

LEMMA Initially == Init => IInv
  BY DEF Init, IInv, TypeOK, DifferencesWait, Tables, ReadersOK, Staged, Live, Idle, PlaceOK

\* A step that leaves rows and venues as they are.
LEMMA QuietStep ==
    ASSUME IInv, UNCHANGED <<item, venue>>, page' \in Pages,
           record' \in [discovered : Staged \union {None}, ready : BOOLEAN, excluded : BOOLEAN],
           \/ UNCHANGED reader
           \/ \E w \in Readers : \E where : Goto(w, where) /\ PlaceOK(where, Staged)
    PROVE  IInv'
  <1>1. Staged' = Staged /\ Live' = Live /\ Staged \subseteq Items
    BY DEF Staged, Live
  <1>2. reader' = [w \in Readers |-> reader'[w]] /\ ReadersOK'
    BY <1>1 DEF IInv, Tables, ReadersOK, Goto
  <1>3. TypeOK'
    BY <1>1 DEF IInv, TypeOK
  <1>4. DifferencesWait' /\ Tables'
    BY <1>1, <1>2 DEF IInv, DifferencesWait, Tables
  <1> QED  BY <1>2, <1>3, <1>4 DEF IInv

\* A step that writes the row i, and its venue at most.
LEMMA RowStep ==
    ASSUME IInv, NEW i \in Items, NEW row \in Rows, item' = [item EXCEPT ![i] = row],
           \/ UNCHANGED venue
           \/ \E v \in LiveVenues : venue' = [venue EXCEPT ![i] = v],
           venue'[i] # None <=> row.status \in {"added", "changed"},
           venue'[i] # None /\ venue'[i].applied # Rules(row.reading) => row.status = "changed",
           UNCHANGED <<page, record>>,
           \/ UNCHANGED reader
           \/ \E w \in Readers : \E where : Goto(w, where) /\ PlaceOK(where, Staged \union {i})
    PROVE  IInv'
  <1>1. item'[i] = row /\ row # None /\ \A j \in Items : j # i => item'[j] = item[j] /\ venue'[j] = venue[j]
    BY NoneAssumption DEF IInv, Tables
  <1>2. Staged' = Staged \union {i} /\ \A j \in Items : j # i => (j \in Live' <=> j \in Live)
    BY <1>1 DEF Staged, Live
  <1>3. item' = [j \in Items |-> item'[j]] /\ venue' = [j \in Items |-> venue'[j]]
    BY DEF IInv, Tables
  <1>4. reader' = [w \in Readers |-> reader'[w]] /\ ReadersOK'
    <2>1. CASE UNCHANGED reader
      BY <1>2, <2>1 DEF IInv, Tables, ReadersOK, PlaceOK
    <2>2. ASSUME NEW w \in Readers, NEW where, Goto(w, where), PlaceOK(where, Staged \union {i})
          PROVE  reader' = [x \in Readers |-> reader'[x]] /\ ReadersOK'
      <3>1. reader' = [x \in Readers |-> reader'[x]]
        BY <2>2 DEF Goto, IInv, Tables
      <3>2. ASSUME NEW x \in Readers PROVE PlaceOK(reader'[x], Staged')
        <4>1. reader'[x] = IF x = w THEN where ELSE reader[x]
          BY <2>2 DEF Goto, IInv, Tables
        <4>2. PlaceOK(reader[x], Staged)
          BY DEF IInv, ReadersOK
        <4> QED  BY <1>2, <2>2, <4>1, <4>2 DEF PlaceOK
      <3> QED  BY <3>1, <3>2 DEF ReadersOK
    <2> QED  BY <2>1, <2>2
  <1>5. venue'[i] # None => venue'[i] \in LiveVenues
    BY DEF IInv, TypeOK, Tables, Live
  <1>6. TypeOK'
    <2>1. \A j \in Staged' : item'[j] \in Rows
      BY <1>1, <1>2 DEF IInv, TypeOK
    <2>2. \A j \in Live' : venue'[j] \in LiveVenues /\ j \in Staged'
      BY <1>1, <1>2, <1>5 DEF IInv, TypeOK, Live
    <2>3. \A j \in Staged' : j \in Live' <=> item'[j].status \in {"added", "changed"}
      BY <1>1, <1>2 DEF IInv, TypeOK, Live, Staged
    <2>4. page' \in Pages /\ record' \in [discovered : Items \union {None}, ready : BOOLEAN, excluded : BOOLEAN]
          /\ (record'.discovered # None => record'.discovered \in Staged')
      BY <1>2 DEF IInv, TypeOK
    <2> QED  BY <2>1, <2>2, <2>3, <2>4 DEF TypeOK
  <1>7. DifferencesWait'
    <2> SUFFICES ASSUME NEW j \in Items, venue'[j] # None
                 PROVE  venue'[j].applied # Rules(item'[j].reading) => item'[j].status = "changed"
      BY DEF DifferencesWait, Live
    <2>1. CASE j = i
      BY <1>1, <2>1
    <2>2. CASE j # i
      BY <1>1, <2>2 DEF IInv, DifferencesWait, Live
    <2> QED  BY <2>1, <2>2
  <1> QED  BY <1>3, <1>4, <1>6, <1>7 DEF IInv, Tables

\* The steps of a reader that only reads, and those on the index record.
LEMMA ReadingSteps ==
    ASSUME IInv, NEW w \in Readers,
           \/ FetchDiscovery(w) \/ FetchRecheck(w) \/ FetchIndex(w) \/ FetchFails(w) \/ SamePages(w)
           \/ Extract(w) \/ ExtractFails(w) \/ FindExisting(w) \/ SaveRecord(w)
    PROVE  IInv'
  <1>0. PlaceOK(reader[w], Staged) /\ page \in Pages
        /\ record \in [discovered : Staged \union {None}, ready : BOOLEAN, excluded : BOOLEAN]
    BY DEF IInv, ReadersOK, TypeOK
  <1> USE <1>0
  <1>1. CASE FetchDiscovery(w) \/ FetchRecheck(w) \/ FetchIndex(w)
    <2>1. PlaceOK(AtFetched(page), Staged)
      BY DEF PlaceOK, AtFetched
    <2> QED  BY <1>1, <2>1, QuietStep DEF FetchDiscovery, FetchRecheck, FetchIndex
  <1>2. CASE FetchFails(w)
    BY <1>2, QuietStep DEF FetchFails
  <1>3. CASE SamePages(w)
    <2>1. PICK i \in Staged : Goto(w, AtConfirm(i, reader[w].page, item[i].status))
      BY <1>3 DEF SamePages, ReadFrom
    <2>2. PlaceOK(AtConfirm(i, reader[w].page, item[i].status), Staged)
      BY <1>3 DEF SamePages, PlaceOK, AtConfirm
    <2> QED  BY <1>3, <2>1, <2>2, QuietStep DEF SamePages
  <1>4. CASE Extract(w)
    <2>1. PICK r \in Readings(reader[w].page) : Goto(w, AtFind(r))
      BY <1>4 DEF Extract
    <2>2. PlaceOK(AtFind(r), Staged)
      BY <1>4 DEF Extract, PlaceOK, AtFind, AnyReading
    <2> QED  BY <1>4, <2>1, <2>2, QuietStep DEF Extract
  <1>5. CASE ExtractFails(w)
    <2>1. PlaceOK(Idle, Staged)
      BY DEF PlaceOK, Idle
    <2> QED  BY <1>5, <2>1, QuietStep DEF ExtractFails
  <1>6. CASE FindExisting(w)
    <2>1. PICK i \in Staged \union {None} : Goto(w, AtStore(reader[w].reading, i))
      BY <1>6 DEF FindExisting
    <2>2. PlaceOK(AtStore(reader[w].reading, i), Staged)
      BY <1>6 DEF FindExisting, PlaceOK, AtStore
    <2> QED  BY <1>6, <2>1, <2>2, QuietStep DEF FindExisting
  <1>7. CASE SaveRecord(w)
    <2>1. PlaceOK(Idle, Staged)
      BY DEF PlaceOK, Idle
    <2>2. reader[w].item \in Staged
      BY <1>7 DEF SaveRecord, PlaceOK
    <2>3. RulesFound(item[reader[w].item].reading) \in BOOLEAN
      BY DEF RulesFound
    <2>4. record' \in [discovered : Staged \union {None}, ready : BOOLEAN, excluded : BOOLEAN]
      BY <1>7, <2>2, <2>3 DEF SaveRecord
    <2> QED  BY <1>7, <2>1, <2>4, QuietStep DEF SaveRecord
  <1> QED  BY <1>1, <1>2, <1>3, <1>4, <1>5, <1>6, <1>7

\* Where a reader goes when it is done with the row.
LEMMA DoneIsOK ==
    ASSUME NEW staged, NEW w, NEW i \in staged
    PROVE  PlaceOK(Done(w, i), staged)
  BY DEF PlaceOK, Done, AtRecord, Idle

LEMMA ReconfirmStep ==
    ASSUME IInv, NEW w \in Readers, Reconfirm(w)
    PROVE  IInv'
  <1> DEFINE i == reader[w].item
  <1>0. PlaceOK(reader[w], Staged) /\ i \in Staged /\ reader[w].page \in Pages /\ i \in Items
    BY DEF IInv, ReadersOK, Reconfirm, PlaceOK, Staged
  <1>1. PlaceOK(Done(w, i), Staged)
    BY <1>0, DoneIsOK
  <1>2. CASE UNCHANGED venue
    <2>1. record \in [discovered : Staged \union {None}, ready : BOOLEAN, excluded : BOOLEAN] /\ page \in Pages
      BY DEF IInv, TypeOK
    <2> QED  BY <1>1, <1>2, <2>1, QuietStep DEF Reconfirm
  <1>3. CASE venue[i] # None /\ venue' = [venue EXCEPT ![i].verified = reader[w].page]
    <2>1. venue[i] \in LiveVenues /\ i \in Live
      BY <1>0, <1>3 DEF IInv, TypeOK, Live
    <2>2. PICK v : v = [venue[i] EXCEPT !.verified = reader[w].page]
      OBVIOUS
    <2>3. v \in LiveVenues /\ v.applied = venue[i].applied /\ venue' = [venue EXCEPT ![i] = v]
      BY <1>0, <1>3, <2>1, <2>2 DEF LiveVenues
    <2>4. item[i] \in Rows /\ item' = [item EXCEPT ![i] = item[i]]
      BY <1>0 DEF Reconfirm, IInv, TypeOK, Tables
    <2>5. venue'[i] = v /\ v # None
      BY <1>0, <2>3, NoneAssumption DEF IInv, Tables
    <2>6. item[i].status \in {"added", "changed"} /\ (v.applied # Rules(item[i].reading) => item[i].status = "changed")
      BY <1>0, <2>1, <2>3 DEF IInv, TypeOK, DifferencesWait
    <2>7. Goto(w, Done(w, i)) /\ PlaceOK(Done(w, i), Staged \union {i})
      BY <1>0, DoneIsOK DEF Reconfirm
    <2>8. UNCHANGED <<page, record>>
      BY DEF Reconfirm
    <2> QED  BY <1>0, <2>3, <2>4, <2>5, <2>6, <2>7, <2>8, RowStep
  <1> QED  BY <1>2, <1>3 DEF Reconfirm

\* upsert_candidate.
LEMMA StoreSteps ==
    ASSUME IInv, NEW w \in Readers, Create(w) \/ KeepBetter(w) \/ Replace(w)
    PROVE  IInv'
  <1> DEFINE new == reader[w].reading
  <1>0. new \in AnyReading /\ new.page \in Pages /\ reader[w].item \in Staged \union {None}
    BY PageOfReading DEF IInv, ReadersOK, PlaceOK, Create, KeepBetter, Replace
  <1>1. CASE Create(w)
    <2>1. PICK i \in Items \ Staged :
             /\ item' = [item EXCEPT ![i] = [print |-> new.page, reading |-> new, status |-> "new"]]
             /\ Goto(w, Done(w, i))
      BY <1>1 DEF Create
    <2>2. PICK row : row = [print |-> new.page, reading |-> new, status |-> "new"]
      OBVIOUS
    <2>3. row \in Rows /\ row.status = "new"
      BY <1>0, <2>2 DEF Rows, Statuses
    <2>4. venue[i] = None
      BY <2>1 DEF IInv, TypeOK, Live
    <2>5. PlaceOK(Done(w, i), Staged \union {i})
      BY DoneIsOK
    <2>6. UNCHANGED <<page, venue, record>>
      BY <1>1 DEF Create
    <2> QED  BY <2>1, <2>2, <2>3, <2>4, <2>5, <2>6, RowStep
  <1>2. CASE KeepBetter(w) \/ Replace(w)
    <2> DEFINE i == reader[w].item
    <2>0. i \in Staged /\ i \in Items /\ item[i] \in Rows /\ (i \in Live <=> item[i].status \in {"added", "changed"})
      BY <1>0, <1>2 DEF KeepBetter, Replace, Staged, IInv, TypeOK
    <2>1. PlaceOK(Done(w, i), Staged \union {i}) /\ Goto(w, Done(w, i)) /\ UNCHANGED <<page, record>>
      BY <2>0, <1>2, DoneIsOK DEF KeepBetter, Replace
    <2>2. venue[i] # None => venue[i] \in LiveVenues /\ i \in Live
      BY <2>0 DEF IInv, TypeOK, Live
    <2>3. CASE KeepBetter(w)
      <3>1. PICK row : row = [item[i] EXCEPT !.print = new.page]
        OBVIOUS
      <3>2. /\ row \in Rows /\ row.status = item[i].status /\ row.reading = item[i].reading
            /\ item' = [item EXCEPT ![i] = row] /\ UNCHANGED venue
        BY <1>0, <2>0, <2>3, <3>1 DEF KeepBetter, Rows
      <3>3. venue'[i] # None <=> row.status \in {"added", "changed"}
        BY <2>0, <3>2 DEF Live
      <3>4. venue'[i] # None /\ venue'[i].applied # Rules(row.reading) => row.status = "changed"
        BY <2>2, <3>2 DEF IInv, DifferencesWait
      <3> QED  BY <2>0, <2>1, <3>2, <3>3, <3>4, RowStep
    <2>4. CASE Replace(w)
      <3> DEFINE status == StatusAfter(item[i], new)
                 flagged == Differs(item[i].reading, new) /\ item[i].status \in {"added", "changed"}
      <3>1. PICK row : row = [print |-> new.page, reading |-> new, status |-> status]
        OBVIOUS
      <3>2. row \in Rows /\ row.status = status /\ row.reading = new /\ item' = [item EXCEPT ![i] = row]
        BY <1>0, <2>0, <2>4, <3>1 DEF Replace, Rows, StatusAfter, Statuses
      <3>3. status \in {"added", "changed"} <=> item[i].status \in {"added", "changed"}
        BY DEF StatusAfter
      <3>4. venue[i] # None /\ venue[i].applied # Rules(new) => status = "changed"
        <4>1. venue[i] # None /\ venue[i].applied # Rules(item[i].reading) => item[i].status = "changed"
          BY <2>2 DEF IInv, DifferencesWait
        <4> QED  BY <2>0, <2>2, <4>1 DEF StatusAfter, Differs
      <3>5. CASE UNCHANGED venue
        BY <2>0, <2>1, <3>2, <3>3, <3>4, <3>5, RowStep DEF Live
      <3>6. CASE venue[i] # None /\ venue' = [venue EXCEPT ![i].verified = new.page]
        <4>1. PICK v : v = [venue[i] EXCEPT !.verified = new.page]
          OBVIOUS
        <4>2. v \in LiveVenues /\ v.applied = venue[i].applied /\ venue' = [venue EXCEPT ![i] = v]
          BY <1>0, <2>2, <3>6, <4>1 DEF LiveVenues
        <4>3. venue'[i] = v /\ v # None
          BY <2>0, <4>2, NoneAssumption DEF IInv, Tables
        <4>4. status \in {"added", "changed"} /\ (v.applied # Rules(row.reading) => row.status = "changed")
          BY <2>0, <2>2, <3>2, <3>3, <3>4, <3>6, <4>2
        <4> QED  BY <2>0, <2>1, <3>2, <4>2, <4>3, <4>4, RowStep
      <3> QED  BY <2>4, <3>5, <3>6 DEF Replace
    <2> QED  BY <1>2, <2>3, <2>4
  <1> QED  BY <1>1, <1>2

\* The administrator and the editor.
LEMMA DecisionSteps ==
    ASSUME IInv, NEW i \in Items,
           AddToVenueAgent(i) \/ ApplyChanges(i) \/ DiscoveryIgnore(i) \/ DiscoveryRestore(i) \/ EditorConfirms(i)
    PROVE  IInv'
  <1>0. /\ i \in Live => i \in Staged /\ venue[i] \in LiveVenues
        /\ i \in Staged => /\ item[i] \in Rows /\ Rules(item[i].reading) \in {Rules(r) : r \in AnyReading}
                           /\ i \in Live <=> item[i].status \in {"added", "changed"}
        /\ i \in Live <=> venue[i] # None
        /\ UNCHANGED <<page, record, reader>>
    BY DEF IInv, TypeOK, Rows, Live, AddToVenueAgent, ApplyChanges, DiscoveryIgnore, DiscoveryRestore, EditorConfirms
  <1>1. CASE AddToVenueAgent(i)
    <2>1. PICK row, v : /\ row = [item[i] EXCEPT !.status = "added"]
                        /\ v = [applied |-> Rules(item[i].reading), tier |-> "verified_index", verified |-> item[i].print]
      OBVIOUS
    <2>2. row \in Rows /\ row.status = "added" /\ row.reading = item[i].reading /\ item' = [item EXCEPT ![i] = row]
      BY <1>0, <1>1, <2>1 DEF AddToVenueAgent, Rows, Statuses
    <2>3. v \in LiveVenues /\ v.applied = Rules(row.reading) /\ venue' = [venue EXCEPT ![i] = v]
      BY <1>0, <1>1, <2>1, <2>2 DEF AddToVenueAgent, Rows, LiveVenues
    <2>4. venue'[i] = v /\ v # None
      BY <2>3, NoneAssumption DEF IInv, Tables
    <2> QED  BY <1>0, <2>2, <2>3, <2>4, RowStep
  <1>2. CASE ApplyChanges(i)
    <2>1. PICK row, v : /\ row = [item[i] EXCEPT !.status = "added"]
                        /\ v = [venue[i] EXCEPT !.applied = Rules(item[i].reading), !.verified = item[i].print]
      OBVIOUS
    <2>2. row \in Rows /\ row.status = "added" /\ row.reading = item[i].reading /\ item' = [item EXCEPT ![i] = row]
      BY <1>0, <1>2, <2>1 DEF ApplyChanges, Rows, Statuses
    <2>3. venue' = [venue EXCEPT ![i] = v]
      BY <1>2, <2>1 DEF ApplyChanges, IInv, Tables
    <2>4. v \in LiveVenues /\ v.applied = Rules(row.reading)
      BY <1>0, <1>2, <2>1, <2>2 DEF ApplyChanges, Rows, LiveVenues
    <2>5. venue'[i] = v /\ v # None
      BY <2>3, <2>4, NoneAssumption DEF IInv, Tables
    <2> QED  BY <1>0, <2>2, <2>3, <2>4, <2>5, RowStep
  <1>3. CASE DiscoveryIgnore(i) \/ DiscoveryRestore(i)
    <2>1. PICK to \in {"ignored", "new"} : item' = [item EXCEPT ![i].status = to] /\ i \in Staged /\ venue[i] = None /\ UNCHANGED venue
      BY <1>0, <1>3 DEF DiscoveryIgnore, DiscoveryRestore
    <2>2. PICK row : row = [item[i] EXCEPT !.status = to]
      OBVIOUS
    <2>3. row \in Rows /\ row.status = to /\ item' = [item EXCEPT ![i] = row]
      BY <1>0, <2>1, <2>2 DEF Rows, Statuses
    <2> QED  BY <1>0, <2>1, <2>3, RowStep
  <1>4. CASE EditorConfirms(i)
    <2>1. PICK v : v = [venue[i] EXCEPT !.tier = "claimed"]
      OBVIOUS
    <2>2. i \in Live /\ item[i] \in Rows /\ item[i].status \in {"added", "changed"} /\ item' = [item EXCEPT ![i] = item[i]]
      BY <1>0, <1>4 DEF EditorConfirms, IInv, Tables
    <2>3. v \in LiveVenues /\ v.applied = venue[i].applied /\ venue' = [venue EXCEPT ![i] = v]
      BY <1>0, <1>4, <2>1, <2>2 DEF EditorConfirms, LiveVenues
    <2>4. venue'[i] = v /\ v # None
      BY <2>3, NoneAssumption DEF IInv, Tables
    <2>5. venue[i].applied # Rules(item[i].reading) => item[i].status = "changed"
      BY <2>2 DEF IInv, DifferencesWait
    <2> QED  BY <1>0, <2>2, <2>3, <2>4, <2>5, RowStep
  <1> QED  BY <1>1, <1>2, <1>3, <1>4

LEMMA IndStep == IInv /\ [Next]_vars => IInv'
  <1> SUFFICES ASSUME IInv, [Next]_vars PROVE IInv'
    OBVIOUS
  <1>0. page \in Pages /\ record \in [discovered : Staged \union {None}, ready : BOOLEAN, excluded : BOOLEAN]
    BY DEF IInv, TypeOK
  <1>1. CASE PagesChange \/ UNCHANGED vars
    BY <1>0, <1>1, QuietStep DEF PagesChange, vars
  <1>2. CASE DecideExclusion
    <2>1. record' \in [discovered : Staged \union {None}, ready : BOOLEAN, excluded : BOOLEAN]
      BY <1>0, <1>2 DEF DecideExclusion
    <2> QED  BY <1>0, <1>2, <2>1, QuietStep DEF DecideExclusion
  <1>3. CASE IndexPublish \/ IndexApply
    <2>1. record.discovered \in Items
      BY <1>0, <1>3 DEF IndexPublish, IndexApply, Staged
    <2> QED  BY <1>3, <2>1, DecisionSteps DEF IndexPublish, IndexApply
  <1> QED  BY <1>1, <1>2, <1>3, ReadingSteps, ReconfirmStep, StoreSteps, DecisionSteps DEF Next, ReaderStep

\* IInv is an inductive invariant of the specification.
THEOREM Invariance == Spec => []IInv
  BY Initially, IndStep, PTL DEF Spec

\* Rows, venues and readers are well typed, and just the rows that were added have a live venue.
THEOREM TypeCorrect == Spec => []TypeOK
  BY Invariance, PTL DEF IInv

\* Staged rules that differ from those of the live venue wait for the administrator
\* (upsert_candidate, however many readers race).
THEOREM NoDifferenceIsLost == Spec => []DifferencesWait
  BY Invariance, PTL DEF IInv

\* Readers change no live configuration and bring no ignored venue back.
LEMMA ReadersDecideNothing ==
    ASSUME IInv, [Next]_vars, reader' # reader, NEW i \in Items
    PROVE  /\ venue[i] = None <=> venue'[i] = None
           /\ i \in Live => venue'[i].applied = venue[i].applied
           /\ i \in Staged /\ item[i].status = "ignored" => item'[i].status = "ignored"
  <1>0. /\ item = [j \in Items |-> item[j]] /\ venue = [j \in Items |-> venue[j]]
        /\ \A j \in Live : venue[j] \in LiveVenues
        /\ \A j \in Staged : item[j] \in Rows
    BY DEF IInv, TypeOK, Tables
  <1>1. PICK w \in Readers : ReaderStep(w)
    BY DEF Next, PagesChange, DecideExclusion, IndexPublish, IndexApply, AddToVenueAgent, ApplyChanges, DiscoveryIgnore,
       DiscoveryRestore, EditorConfirms, vars
  <1>2. venue' = venue \/ \E j \in Items, p \in Pages : venue[j] # None /\ venue' = [venue EXCEPT ![j].verified = p]
    <2>1. PlaceOK(reader[w], Staged)
      BY DEF IInv, ReadersOK
    <2>2. CASE Reconfirm(w)
      <3>1. reader[w].item \in Items /\ reader[w].page \in Pages
        BY <2>1, <2>2 DEF Reconfirm, PlaceOK, Staged
      <3> QED  BY <2>2, <3>1 DEF Reconfirm
    <2>3. CASE Replace(w)
      <3>1. reader[w].item \in Items /\ reader[w].reading.page \in Pages
        BY <2>1, <2>3, PageOfReading DEF Replace, PlaceOK, Staged
      <3> QED  BY <2>3, <3>1 DEF Replace
    <2> QED  BY <1>1, <2>2, <2>3 DEF ReaderStep, FetchDiscovery, FetchRecheck, FetchIndex, FetchFails, SamePages, Extract,
                ExtractFails, FindExisting, Create, KeepBetter, SaveRecord
  <1>3. /\ venue[i] = None <=> venue'[i] = None
        /\ i \in Live => venue'[i].applied = venue[i].applied
    <2>1. CASE venue' = venue
      BY <2>1
    <2>2. ASSUME NEW j \in Items, NEW p \in Pages, venue[j] # None, venue' = [venue EXCEPT ![j].verified = p]
          PROVE  /\ venue[i] = None <=> venue'[i] = None
                 /\ i \in Live => venue'[i].applied = venue[i].applied
      <3>1. CASE i # j
        BY <1>0, <2>2, <3>1
      <3>2. CASE i = j
        <4>1. venue[i] \in LiveVenues
          BY <1>0, <2>2, <3>2 DEF Live
        <4>2. venue'[i] \in LiveVenues /\ venue'[i].applied = venue[i].applied
          BY <1>0, <2>2, <3>2, <4>1 DEF LiveVenues
        <4> QED  BY <4>1, <4>2, NoneAssumption
      <3> QED  BY <3>1, <3>2
    <2> QED  BY <1>2, <2>1, <2>2
  <1>4. i \in Staged /\ item[i].status = "ignored" => item'[i].status = "ignored"
    BY <1>0, <1>1 DEF ReaderStep, FetchDiscovery, FetchRecheck, FetchIndex, FetchFails, SamePages, Extract, Reconfirm,
       ExtractFails, FindExisting, Create, KeepBetter, Replace, StatusAfter, SaveRecord, Rows
  <1> QED  BY <1>3, <1>4

\* "Only an admin does this; re-reading never changes a live config by itself."
THEOREM OnlyTheAdminDecides == Spec => ReadingDecidesNothing
  <1>1. IInv /\ [Next]_vars =>
          [reader' # reader =>
             \A i \in Items :
                /\ venue[i] = None <=> venue'[i] = None
                /\ i \in Live => venue'[i].applied = venue[i].applied
                /\ i \in Staged /\ item[i].status = "ignored" => item'[i].status = "ignored"]_vars
    BY ReadersDecideNothing
  <1> QED  BY <1>1, Invariance, PTL DEF Spec, ReadingDecidesNothing
=============================================================================
