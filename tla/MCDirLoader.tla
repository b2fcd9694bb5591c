----------------------------- MODULE MCDirLoader -----------------------------
(* Model-checking instance of DirLoader. *)
EXTENDS DirLoader, TLC

CONSTANTS d1, d2, p1, k1

OneDir == {d1}
TwoDirs == {d1, d2}
OnePath == {p1}
NoChecks == {}
OneCheck == {k1}

\* Dir structs are interchangeable; in safety runs only.
Symmetry == Permutations(TwoDirs)
=============================================================================
