-------------------------- MODULE MCJailLifecycle --------------------------
(***************************************************************************)
(* Values of the constants of JailLifecycle for the runs of TLC.           *)
(***************************************************************************)
EXTENDS JailLifecycle, TLC

CONSTANTS o1, o2

TwoObjects == {o1, o2}
NoOverride == {}

\* The actions tell the objects apart by nothing but their identity.
Symmetry == Permutations(Objects)
=============================================================================
