------------------------------- MODULE MCQueries -------------------------------
(***************************************************************************)
(* An instance of Queries for TLC.                                         *)
(***************************************************************************)
EXTENDS Queries
==============================================================================
