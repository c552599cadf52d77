----------------------------- MODULE MCTNSService -----------------------------
(***************************************************************************)
(* Small instances of TNSService for TLC: the .cfg files give the threads  *)
(* and the length of the source.                                           *)
(***************************************************************************)
EXTENDS TNSService
==============================================================================
