--------------------------- MODULE MCReorderQueue ---------------------------
(* Model values and symmetry for ReorderQueue. *)
EXTENDS ReorderQueue, TLC

Symmetry == Permutations(Elems)
=============================================================================
