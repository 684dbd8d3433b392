---------------------------- MODULE MCIocEvents ----------------------------
(***************************************************************************)
(* Values of the constants of IocEvents for the runs of TLC.               *)
(***************************************************************************)
EXTENDS IocEvents

CONSTANTS parent, e1, e2

ThreeEvents == {parent, e1, e2}
=============================================================================
