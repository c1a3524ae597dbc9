SPECIFICATION FairSpec
CONSTANTS
  Settings <- MCSettings
  MaxBatches = 4
  Faults <- AllFaults
INVARIANTS BatchesInOrder UsedIsOpen NothingIsLeft
PROPERTY CallEnds
