-------------------------- MODULE MCResourceUpdater --------------------------
(***************************************************************************)
(* Values of the constants of ResourceUpdater for the runs of TLC.         *)
(***************************************************************************)
EXTENDS ResourceUpdater, TLC

\* Jails are interchangeable.
Alike == Permutations(Jails)

\* A bound: what follows when a snapshot went astray and the release was taken
\* for a fetched one before it was, of which less is claimed than after either.
Claimed == ~(lost /\ premature)
=============================================================================
