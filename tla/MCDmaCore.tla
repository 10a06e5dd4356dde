------------------------------ MODULE MCDmaCore ------------------------------
(***************************************************************************)
(* Small instances of DmaCore.                                             *)
(***************************************************************************)
EXTENDS DmaCore
=============================================================================
