SPECIFICATION FairSpec
CONSTANTS
  NJobs <- TwoJobs
  Faults <- AllFaults
  SharedFiles = FALSE
INVARIANT DeliveredIsOwn
PROPERTY CallsEnd
