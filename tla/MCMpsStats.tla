----------------------------- MODULE MCMpsStats ------------------------------
(***************************************************************************)
(* Small instances of MpsStats: the statistics of two devices and of one   *)
(* that does not exist, two applications.                                  *)
(***************************************************************************)
EXTENDS MpsStats

MCRequests == {"ath0", "wifi0", "ath9"}
MCAnswered == {"ath0", "wifi0"}
=============================================================================
