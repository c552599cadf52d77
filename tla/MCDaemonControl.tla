--------------------------- MODULE MCDaemonControl ---------------------------
(***************************************************************************)
(* Small instances of DaemonControl for TLC: the .cfg files give the       *)
(* clients, the requests and the faults.                                   *)
(***************************************************************************)
EXTENDS DaemonControl
==============================================================================
