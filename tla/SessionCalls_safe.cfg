SPECIFICATION Spec
CONSTANTS
  Nodes <- MCNodes
  NodeSets <- MCNodeSets
  Shapes <- MCShapes
  MaxPools = 3
  SessionFaults <- AllSessionFaults
INVARIANTS OneSession GrantFitsUntilOom BuffersGoneOrFit
