------------------------------- MODULE MCRecords -------------------------------
(* A small instance of Records for TLC. *)
EXTENDS Records, TLC

CONSTANTS m1, m2, f1

\* Two authors with a manuscript each, the first with an attachment.
OwnerOf == [f \in {m1, m2, f1} |-> IF f = m2 THEN 2 ELSE 1]

\* Callers, Requests and Uploads are the same two values, in parts that do not meet.
Symmetry == Permutations(Callers)
=============================================================================
