--------------------------- MODULE MCVnetNetwork ---------------------------
(***************************************************************************)
(* Values of the constants of VnetNetwork for the runs of TLC.             *)
(***************************************************************************)
EXTENDS VnetNetwork, TLC

AllBridges == {"absent", "none", "open", "secure"}

\* Nics are interchangeable.
Alike == Permutations(Nics)
=============================================================================
