---------------------------- MODULE CatalogueIndex ----------------------------
(***************************************************************************)
(* Which journals are in the venue index (services/venue_index.py): a full *)
(* pass walks through the journals that the catalogue has for the fields,  *)
(* largest first, keeps at most MaxRecords of them, removes what no longer *)
(* belongs and flags what left the catalogue; a worklist pass adds named   *)
(* journals.  People link, exclude and release journals meanwhile.         *)
(*                                                                         *)
(* One run works at a time (CatalogueRuns).  The catalogue is a service of *)
(* others: it does not change during a pass, and a journal's publications  *)
(* do not become fewer.                                                    *)
(*                                                                         *)
(* Bounds: Journals, Sizes (how much a journal has published), MaxRecords. *)
(***************************************************************************)
EXTENDS Naturals, FiniteSets

CONSTANTS Journals, Sizes, MaxRecords

VARIABLES
    source,    \* the catalogue: how much each journal published (0: not listed), its fields
    index,     \* IndexedVenue: the records, NotIn for a journal that has none
    pass       \* the pass that is running

vars == <<source, index, pass>>

\* How a journal relates to the fields of the index: mainly in them, with some
\* papers in them (so that the subject filter finds it), or not at all.
Fields == {"in", "stray", "out"}

NotIn == [size |-> 0, missing |-> FALSE, held |-> FALSE, worklist |-> FALSE]
Indexed == {j \in Journals : index[j] # NotIn}

\* A record is held if it is linked to a live venue or was excluded by a person.
Init ==
    /\ source \in [Journals -> [size : {0}, fields : {"in"}]]
    /\ index = [j \in Journals |-> NotIn]
    /\ pass = [at |-> "none"]

\* The catalogue adds, changes or drops a journal.
SourceChanges(j) ==
    /\ pass.at = "none"
    /\ \E size \in {0} \union Sizes, fields \in Fields :
          /\ size = 0 \/ size >= index[j].size
          /\ source' = [source EXCEPT ![j] = [size |-> size, fields |-> fields]]
    /\ UNCHANGED <<index, pass>>

(***************************************************************************)
(* A full pass.                                                            *)
(***************************************************************************)

Listed == {j \in Journals : source[j].size > 0}
AtWalk(method, todo) == [at |-> "walk", method |-> method, todo |-> todo, seen |-> {}, cutoff |-> 0]

\* sources: the subject filter, or keyword searches if the catalogue rejects the
\* filter or finds nothing; these find some journals, in an order of their own.
StartFull ==
    /\ pass.at = "none"
    /\ LET found == {j \in Listed : source[j].fields # "out"}
       IN  \/ found # {} /\ pass' = AtWalk("subfield_filter", found)
           \/ \E some \in SUBSET Listed : pass' = AtWalk("keyword_search", some)
    /\ UNCHANGED <<source, index>>

\* _walk: pages of one query, largest journals first.
ComesNext(j) ==
    /\ j \in pass.todo
    /\ pass.method = "subfield_filter" => \A k \in pass.todo : source[k].size <= source[j].size

\* assess_scope: one stray paper must not pull a journal in.
InScope(j) == source[j].fields = "in"

\* _upsert, under the lock of the row.
Upserted(j) == [index EXCEPT ![j].size = source[j].size, ![j].missing = FALSE]

\* A journal that an administrator linked or excluded, or that a worklist named,
\* is not removed.
Removable(S) == {j \in S : ~index[j].held /\ ~index[j].worklist}
Without(S) == [j \in Journals |-> IF j \in S THEN NotIn ELSE index[j]]

\* A journal that qualifies is created or refreshed, until the index is full.
Keep(j) ==
    /\ pass.at = "walk" /\ pass.cutoff = 0
    /\ ComesNext(j) /\ InScope(j)
    /\ index' = Upserted(j)
    /\ pass' = [pass EXCEPT !.todo = @ \ {j}, !.seen = @ \union {j},
                            !.cutoff = IF Cardinality(pass.seen) + 1 >= MaxRecords THEN source[j].size ELSE 0]
    /\ UNCHANGED source

\* One that no longer does is taken out.
OutOfScope(j) ==
    /\ pass.at = "walk" /\ pass.cutoff = 0
    /\ ComesNext(j) /\ ~InScope(j)
    /\ index' = Without(Removable({j}))
    /\ pass' = [pass EXCEPT !.todo = @ \ {j}]
    /\ UNCHANGED source

\* Mutant: a walk that was cut short is taken for the whole catalogue.
CompleteAnyway == pass.method = "subfield_filter"

\* The walk came to its end or to the size cutoff.
Complete == pass.method = "subfield_filter" /\ (pass.todo = {} \/ pass.cutoff > 0)

\* The pass ends there, or earlier: pages, time or the catalogue's patience are
\* over.  A complete pass removes what is smaller than the cutoff, and flags what
\* else it did not see.  Records of a worklist are not looked at.
FinishFull ==
    /\ pass.at = "walk"
    /\ \E inTime \in BOOLEAN :
          IF Complete /\ inTime
          THEN LET unseen == {j \in Indexed \ pass.seen : ~index[j].worklist}
                   small == {j \in unseen : index[j].size <= pass.cutoff}
               IN  index' = [j \in Journals |-> IF j \in unseen \ small
                                                THEN [index[j] EXCEPT !.missing = TRUE]
                                                ELSE Without(Removable(small))[j]]
          ELSE UNCHANGED index
    /\ pass' = [at |-> "link"]
    /\ UNCHANGED source

\* link_to_venues: records with the name of a live venue.
LinkToVenues ==
    /\ pass.at = "link"
    /\ \E named \in SUBSET Indexed : index' = [j \in Journals |-> [index[j] EXCEPT !.held = @ \/ j \in named]]
    /\ pass' = [at |-> "none"]
    /\ UNCHANGED source

(***************************************************************************)
(* A worklist pass, and people.                                            *)
(***************************************************************************)

StartWorklist ==
    /\ pass.at = "none"
    /\ \E entries \in SUBSET Journals \ {{}} : pass' = [at |-> "worklist", todo |-> entries]
    /\ UNCHANGED <<source, index>>

\* _worklist_pass looks a journal up and adds it, whatever its fields are.
AddListed(j) ==
    /\ pass.at = "worklist" /\ j \in pass.todo
    /\ index' = IF j \in Listed THEN [Upserted(j) EXCEPT ![j].worklist = TRUE] ELSE index
    /\ pass' = [pass EXCEPT !.todo = @ \ {j}]
    /\ UNCHANGED source

\* All entries are looked up, the time is over, or the catalogue fails.
FinishWorklist ==
    /\ pass.at = "worklist"
    /\ pass' = [at |-> "link"]
    /\ UNCHANGED <<source, index>>

\* A person publishes, claims or excludes a journal, or restores it.
Hold(j) ==
    /\ j \in Indexed
    /\ index' = [index EXCEPT ![j].held = ~@]
    /\ UNCHANGED <<source, pass>>

\* The worker is restarted.
Interrupted ==
    /\ pass.at # "none"
    /\ pass' = [at |-> "none"]
    /\ UNCHANGED <<source, index>>

Next ==
    \/ StartFull \/ FinishFull \/ LinkToVenues \/ StartWorklist \/ FinishWorklist \/ Interrupted
    \/ \E j \in Journals : SourceChanges(j) \/ Keep(j) \/ OutOfScope(j) \/ AddListed(j) \/ Hold(j)

Spec == Init /\ [][Next]_vars

(***************************************************************************)
(* Properties.                                                             *)
(***************************************************************************)

\* A record has a size the catalogue once gave.
TypeOK ==
    /\ source \in [Journals -> [size : {0} \union Sizes, fields : Fields]]
    /\ \A j \in Indexed : index[j] \in [size : Sizes, missing : BOOLEAN, held : BOOLEAN, worklist : BOOLEAN]
    /\ pass.at \in {"none", "walk", "worklist", "link"}

Removed(j) == index[j] # NotIn /\ index'[j] = NotIn
Flagged(j) == ~index[j].missing /\ index'[j].missing

\* "Only a complete pass can say a journal left the catalogue": what a pass flags
\* as missing, or removes, does not qualify any more or is too small for the index,
\* wherever the walk was cut short.  And nothing is removed that a person linked or
\* excluded, or a worklist named.
NothingLostOfTheCatalogue ==
    [][\A j \in Journals :
          /\ Removed(j) \/ Flagged(j) =>
                \/ j \notin Listed \/ ~InScope(j)
                \/ Cardinality({k \in Listed \ {j} : InScope(k) /\ source[k].size >= source[j].size}) >= MaxRecords
          /\ Removed(j) => ~index[j].held /\ ~index[j].worklist]_vars
=============================================================================
