------------------------------ MODULE MCMeiCmv ------------------------------
(***************************************************************************)
(* Small instances of MeiCmv.                                              *)
(***************************************************************************)
EXTENDS MeiCmv, TLC

\* One process starts and stops the modem, the other uses it.
MCOps ==
  1 :> {"start", "showtime", "reboot", "halt", "write"} @@ 2 :> {"host", "debug", "mib", "diag"}
=============================================================================
