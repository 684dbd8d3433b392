SPECIFICATION Spec
CONSTANTS
  h1 = h1
  h2 = h2
  hide = hide
  unhide = unhide
  bpf = bpf
  Hosts <- TwoHosts
  Rules <- ThreeRules
  Defaults <- TwoDefaults
  UserFiles <- SomeFiles
  Extras <- SomeExtras
INVARIANTS TypeOK FileReadable UserRulesKept RulesetLoaded
SYMMETRY Symmetry
