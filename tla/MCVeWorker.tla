--------------------------- MODULE MCVeWorker ---------------------------
(* VeWorker for TLC: two or three jobs on one VE, each with its own files. *)
EXTENDS VeWorker

MCNJobs == 3
TwoJobs == 2
CrashAndIO == {"crash", "io"}
AllFaults == FaultKinds \ {"link"}
=============================================================================
