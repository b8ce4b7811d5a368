-------------------------- MODULE MCEditorialFlow ---------------------------
(* Small instances of EditorialFlow for TLC. *)
EXTENDS EditorialFlow, TLC

CONSTANTS a, b, s1, s2

\* One packet for each venue.
MCVenueOf == [s \in Subs |-> IF s = s1 THEN a ELSE b]

RequestSymmetry == Permutations(Requests)

\* Bounds: plans name the first venue only; the second packet exists only before
\* there is a plan or a second text, and a stopped plan only before the latter.
PlanOrTransfer ==
    \A p \in Plans :
        /\ \A v \in Venues \ {a} : state[p][v] = "absent"
        /\ status[p] # "none" \/ uploads > 1 => \A s \in Subs \ {s1} : NotCreated(s)
        /\ status[p] = "stopped" => uploads = 1
=============================================================================
