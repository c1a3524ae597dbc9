SPECIFICATION FairJobServer
CONSTANTS
  Nodes <- MCNodes
  NodeSets <- MCNodeSets
  Shapes <- MCShapes
  MaxPools = 5
  SessionFaults <- OpenCallFaults
  Conns = {c1, c2}
  NoConn = NoConn
  Requests <- MCRequests
  HomeNode = 1
  Preload <- MCPreload
  Batches = 2
INVARIANTS GemmKeepsPool OneshotAlone PassIsComputed
PROPERTIES RequestAnswered StopExits
