SPECIFICATION FairSpec
CONSTANTS
  Tasks <- MCTasks
  Names <- MCNames
  Graphs <- MCGraphs
  Device <- MCDevice
  Watts <- MCWatts
  Limit = 8
  Async <- MCAsync
  Raises <- MCRaises
  Reports <- MCReports
  Critical <- MCCritical
  WithUni = TRUE
INVARIANTS TypeOK DepsReturned PassMeansAllRan NothingLeaks CapHeldByOthers
PROPERTY GraphEnds
