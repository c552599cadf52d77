----------------------------- MODULE MCPublication -----------------------------
(***************************************************************************)
(* Small instances of Publication for TLC.                                 *)
(***************************************************************************)
EXTENDS Publication, ModelFiles

\* The values of the constant Loads.
MCLoads == FileLoads

TwoObjects == {1, 2}
\* Object 1 is gone: an id of another table may be no object's.
OtherObjects == {2, 3}
Symmetry == Permutations(Procs) \cup Permutations(Facilities) \cup Permutations(Models)
==============================================================================
