SPECIFICATION Spec
CONSTANTS
  NJobs <- MCNJobs
  Faults <- CrashAndIO
  SharedFiles = FALSE
INVARIANTS AnswerIsOwn AtMostOnce NoTornCommand DeliveredWasDone NeverLostTwice
PROPERTY ImplementsChannel
