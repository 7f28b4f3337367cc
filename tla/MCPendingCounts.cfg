SPECIFICATION MCSpec
CONSTANTS
  Nodes = {"plain7", "plain8", "merge7", "merge9", "loop", "trigger"}
  Kind <- MCKind
  Data <- MCData
  Control <- MCControl
  Enters <- MCEnters
  kMaxCountForPackedCounts = 7
  LargeModulus = 1024
  Vlog = TRUE
INVARIANTS
  TypeOK
  CountsExact
PROPERTY
  ImplementsActivation
