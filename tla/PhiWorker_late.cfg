SPECIFICATION FairSpec
CONSTANTS
  NJobs <- TwoJobs
  Faults <- SlowAndLink
  SharedFiles = TRUE
PROPERTY CallsReturn
