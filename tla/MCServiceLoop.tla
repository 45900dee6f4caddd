--------------------------- MODULE MCServiceLoop ---------------------------
(* A small load for TLC: two tables, a few events and, where the run has it,  *)
(* a request for statistics.                                                *)
EXTENDS ServiceLoop

CONSTANTS p1, p2, p3, s1

OneTable == [r \in Posts |-> 1]

OnlyOther == {2}
OnlyFirst == {1}
=============================================================================
