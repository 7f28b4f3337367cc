SPECIFICATION MCSpec
CONSTANTS
  MaxTrips = 2
  Parallel = 2
  Nodes <- MCNodes
  Kind <- MCKind
  Edges <- MCEdges
  FrameName <- MCFrameName
  ChildName <- MCChildName
  MaxParallel <- MCMaxParallel
  Predicates <- MCPredicates
INVARIANTS
  RunsTheGraph
PROPERTY
  Terminates
