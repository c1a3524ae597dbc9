--------------------------- MODULE MCPhiWorker ---------------------------
(* PhiWorker for TLC: up to three jobs through the one in.bin / out.bin.   *)
EXTENDS PhiWorker

MCNJobs == 3
TwoJobs == 2
CrashAndIO == {"crash", "io"}
SlowAndLink == {"slow", "link"}
=============================================================================
