------------------------- MODULE MCServiceSupervisor -------------------------
(***************************************************************************)
(* Small instances of ServiceSupervisor for TLC.                           *)
(***************************************************************************)
EXTENDS ServiceSupervisor, TLC

Symmetry == Permutations(Pids) \cup Permutations(Services) \cup Permutations(Versions)
==============================================================================
