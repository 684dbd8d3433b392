---------------------------- MODULE MCDevfsRules ----------------------------
(***************************************************************************)
(* Values of the constants of DevfsRules for the runs of TLC.              *)
(***************************************************************************)
EXTENDS DevfsRules, TLC

CONSTANTS h1, h2, hide, unhide, bpf

Symmetry == Permutations(Hosts)

TwoHosts == {h1, h2}
ThreeRules == {hide, unhide, bpf}

Ruleset(number, rules) == [number |-> number, rules |-> rules]

TwoDefaults == <<Ruleset(1, <<hide>>), Ruleset(2, <<hide, unhide>>)>>

\* No file, the next number, and a number that counting reaches later.
SomeFiles == {<<>>, <<Ruleset(3, <<hide, bpf>>)>>, <<Ruleset(5, <<unhide>>)>>}

SomeExtras == {<<>>, <<bpf>>}
=============================================================================
