-------------------------- MODULE MCResourceBackup --------------------------
(***************************************************************************)
(* Values of the constants of ResourceBackup for the runs of TLC.          *)
(***************************************************************************)
EXTENDS ResourceBackup

CONSTANTS src, dst

TwoJails == {src, dst}
=============================================================================
