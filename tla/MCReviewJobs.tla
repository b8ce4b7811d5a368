---------------------------- MODULE MCReviewJobs ----------------------------
(* Small instances of ReviewJobs for TLC. *)
EXTENDS ReviewJobs
=============================================================================
