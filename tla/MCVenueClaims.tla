---------------------------- MODULE MCVenueClaims ----------------------------
(* Small instances of VenueClaims for TLC. *)
EXTENDS VenueClaims, TLC

Symmetry == Permutations(Claims) \union Permutations(Requests)
=============================================================================
