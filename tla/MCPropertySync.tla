--------------------------- MODULE MCPropertySync ---------------------------
(* PropertySync for TLC: maps, layouts and contents are interchangeable, but for *)
(* the data whose strings are numbered with gaps.                                *)
EXTENDS PropertySync

Symmetry == Permutations(Maps) \cup Permutations(Layouts)
            \cup Permutations(Shapes) \cup Permutations(Values \ Sparse)
=============================================================================
