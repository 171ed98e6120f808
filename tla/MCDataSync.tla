----------------------------- MODULE MCDataSync -----------------------------
(* Small instance of DataSync for TLC.                                      *)
EXTENDS DataSync, TLC
=============================================================================
