-------------------------- MODULE MCSubmissionPlan --------------------------
(* Small instances of SubmissionPlan for TLC. *)
EXTENDS SubmissionPlan, TLC

\* The venues are interchangeable: only rankings tell them apart.
VenueSymmetry == Permutations(Venues)
=============================================================================
