----------------------------- MODULE MCMpsMailbox ----------------------------
(***************************************************************************)
(* Small instances of MpsMailbox.                                          *)
(***************************************************************************)
EXTENDS MpsMailbox
=============================================================================
