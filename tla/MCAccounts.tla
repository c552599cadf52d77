------------------------------ MODULE MCAccounts ------------------------------
(***************************************************************************)
(* Small instances of Accounts for TLC.                                    *)
(***************************************************************************)
EXTENDS Accounts, TLC

RequestSymmetry == Permutations(Requests)
AllKinds == DOMAIN Program
==============================================================================
