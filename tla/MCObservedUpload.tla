--------------------------- MODULE MCObservedUpload ---------------------------
(***************************************************************************)
(* Small instances of ObservedUpload for TLC.                              *)
(***************************************************************************)
EXTENDS ObservedUpload, TLC

\* The requests differ only in what they post.
RequestSymmetry == Permutations(Requests)
==============================================================================
