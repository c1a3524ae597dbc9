SPECIFICATION Spec
CONSTANTS
  MaxBatches <- MCMaxBatches
  SlotFaults = TRUE
INVARIANTS OkIsOwn SlotExclusive BuffersReturned
