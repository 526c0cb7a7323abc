---- MODULE MCRowColumns ----
(***************************************************************************)
(* Finite instances of RowColumns.                                         *)
(***************************************************************************)
EXTENDS RowColumns, TLC

CONSTANTS k1, k2, f1, f2

OneKey == {k1}
TwoKeys == {k1, k2}
TwoFields == {f1, f2}

Symmetry == Permutations(TwoKeys) \cup Permutations(TwoFields)
====
