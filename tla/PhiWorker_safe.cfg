SPECIFICATION FairSpec
CONSTANTS
  NJobs <- MCNJobs
  Faults <- CrashAndIO
  SharedFiles = TRUE
INVARIANT ResultIsOwn
PROPERTIES ImplementsChannel QuitEnds
