SPECIFICATION Spec
CONSTANTS
  Settings <- HeteroSettings
  MaxBatches = 4
  Faults <- NoFaults
INVARIANT EveryBatchComputed
