------------------------------ MODULE MCMatching ------------------------------
(* Small instances of Matching for TLC. *)
EXTENDS Matching
=============================================================================
