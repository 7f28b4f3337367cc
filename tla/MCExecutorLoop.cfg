SPECIFICATION MCSpec
CONSTANTS
  MaxTrips = 3
  Parallel = 2
  Nodes <- MCNodes
  Kind <- MCKind
  Edges <- MCEdges
  FrameName <- MCFrameName
  ChildName <- MCChildName
  MaxParallel <- MCMaxParallel
  Predicates <- MCPredicates
INVARIANTS
  NoDanglingFrame
  ParallelIterations
  RunsOnce
  RunsTheGraph
