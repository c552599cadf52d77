---------------------------- MODULE MCObjectRecords ----------------------------
(***************************************************************************)
(* Small instances of ObjectRecords for TLC.  The processes have the same  *)
(* choice of what to do.                                                   *)
(***************************************************************************)
EXTENDS ObjectRecords, TLC

ProcSymmetry == Permutations(Procs)
==============================================================================
