----------------------------- MODULE OneAtATime -----------------------------
(***************************************************************************)
(* What one submission plan promises its author, whatever the mechanism:   *)
(* venues are tried one at a time and never twice, a venue that declined   *)
(* keeps the plan waiting until the author has answered, and an acceptance *)
(* ends the plan.                                                          *)
(***************************************************************************)
CONSTANT Venues

VARIABLES
    phase,     \* "none", "open", "won" or "stopped"
    waiting,   \* the venues not tried yet
    at,        \* the venue the plan is at, as a set of at most one
    owed       \* the venue that declined and whose decline is unanswered

vars == <<phase, waiting, at, owed>>

Init == phase = "none" /\ waiting = {} /\ at = {} /\ owed = {}

\* The plan is built with some venues.
Build ==
    /\ phase = "none"
    /\ phase' = "open"
    /\ waiting' \in SUBSET Venues
    /\ waiting' # {}
    /\ UNCHANGED <<at, owed>>

\* The next venue is tried, only while the plan is at no venue.
Try ==
    /\ phase = "open"
    /\ at = {}
    /\ \E v \in waiting : at' = {v} /\ waiting' = waiting \ {v}
    /\ UNCHANGED <<phase, owed>>

\* A venue is given up before it is tried.
Drop ==
    /\ phase = "open"
    /\ \E v \in waiting : waiting' = waiting \ {v}
    /\ UNCHANGED <<phase, at, owed>>

\* The venue declines: the plan now waits for its author.
Decline ==
    /\ phase = "open"
    /\ at # {} /\ owed = {}
    /\ owed' = at
    /\ UNCHANGED <<phase, waiting, at>>

\* The author answers; venues that no longer fit may be given up with it.
Answer ==
    /\ phase = "open"
    /\ owed # {}
    /\ at' = {} /\ owed' = {}
    /\ waiting' \in SUBSET waiting
    /\ UNCHANGED phase

\* The author withdraws from the venue.
Withdraw ==
    /\ phase = "open"
    /\ at # {} /\ owed = {}
    /\ at' = {}
    /\ UNCHANGED <<phase, waiting, owed>>

\* The venue accepts, and the plan is over.
Win ==
    /\ phase = "open"
    /\ at # {} /\ owed = {}
    /\ phase' = "won" /\ at' = {}
    /\ UNCHANGED <<waiting, owed>>

\* The plan is given up, in whatever position it is.
Stop ==
    /\ phase = "open"
    /\ phase' = "stopped"
    /\ UNCHANGED <<waiting, at, owed>>

Next == Build \/ Try \/ Drop \/ Decline \/ Answer \/ Withdraw \/ Win \/ Stop

Spec == Init /\ [][Next]_vars
=============================================================================
