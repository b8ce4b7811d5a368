---------------------------- MODULE MCRulesReading ----------------------------
(* A small instance of RulesReading for TLC: one journal with one row and   *)
(* pages of two contents, one reader of each kind.                          *)
EXTENDS RulesReading, TLC

RowSymmetry == Permutations(Items) \union Permutations(Pages)
=============================================================================
