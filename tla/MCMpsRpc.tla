------------------------------ MODULE MCMpsRpc -------------------------------
(***************************************************************************)
(* Small instances of MpsRpc.                                              *)
(***************************************************************************)
EXTENDS MpsRpc
=============================================================================
