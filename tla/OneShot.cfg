SPECIFICATION Spec
CONSTANTS
  Vec = 2
  Unroll = 2
  Panel = 2
  Tile = 2
  Calls = {c1, c2}
  Setups <- MCSetups
  RunFaults <- AllRunFaults
INVARIANT ReturnedIsProduct
