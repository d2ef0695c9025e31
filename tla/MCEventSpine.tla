---------------------------- MODULE MCEventSpine ----------------------------
(***************************************************************************)
(* Small instances of EventSpine for TLC.                                  *)
(***************************************************************************)
EXTENDS EventSpine, TLC
CONSTANTS s1, s2, k1, k2

\* The first subscription takes every key, the second one of two.
MCFilter == [s \in Subs |-> IF s = s1 THEN {} ELSE {k1}]

Symmetry == Permutations(Publishers) \cup Permutations(Entities)
=============================================================================
