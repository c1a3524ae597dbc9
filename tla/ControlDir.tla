---------------------------- MODULE ControlDir ----------------------------
(***************************************************************************)
(* The control directory of one long-lived device worker and the worker's  *)
(* own loop (kernels/ve/dgemm_worker.c and kernels/phi/phi_worker.c, whose *)
(* main functions are the same protocol).  Host and worker share no memory *)
(* and no lock: they talk through job.cmd, job.go, job.status and job.log, *)
(* so every file operation is a step of its own and the two sides          *)
(* interleave at that grain.  The host's side is in VeWorker and           *)
(* PhiWorker.                                                              *)
(*                                                                         *)
(* Data is abstracted to the number of the job it belongs to: job.cmd      *)
(* holds the number of the job it describes, a result file the number of   *)
(* the job whose operands it was computed from, 0 (NoJob) when a reader    *)
(* finds nothing it can decode (no file, an empty or a truncated one).     *)
(***************************************************************************)
EXTENDS Naturals

CONSTANTS
  NJobs,       \* jobs 1..NJobs are submitted in this order
  Faults,      \* what may go wrong: a subset of FaultKinds
  SharedFiles  \* TRUE when every job uses the same operand and result file

(* "crash": the worker process may die at any point.                       *)
(* "io":    a write of the worker may fail (full disk, no descriptor).     *)
(* "slow":  a job may outlast the time the host waits for it.              *)
(* "link":  the connection to a remote worker may break (PhiWorker).       *)
FaultKinds == {"crash", "io", "slow", "link"}

ASSUME ConstantsAssumption ==
  /\ NJobs \in Nat \ {0}
  /\ Faults \subseteq FaultKinds
  /\ SharedFiles \in BOOLEAN

NoJob == 0
Jobs  == 1..NJobs
Quit  == NJobs + 1            \* the QUIT command, submitted last
Cmds  == 1..Quit
(* Variant: one result file for all jobs.                                  *)
SlotShared(j) == 1

Slot(j) == IF SharedFiles THEN 1 ELSE j

VARIABLES
  cmd,       \* job.cmd: the command it holds, NoJob when absent or empty
  go,        \* job.go exists
  status,    \* job.status: "none", "empty" or the verdict it holds
  statusOf,  \* history: the job whose worker run created job.status
  log,       \* job.log: the job it reports on
  inp,       \* operand files: the job whose operands each holds
  out,       \* result files: the job each is a complete result of
  wpc,       \* where the worker is in its loop
  wjob,      \* the command it read
  wdata,     \* the operands it read
  wrc,       \* the verdict it reached (rc)
  handle,    \* its open job.status: "closed", "linked", or "orphan" once
             \* the host has unlinked the path under the open file
  runs,      \* history: how many times each job was started
  verdict    \* history: the last verdict of each job, "none" before

dirVars    == <<cmd, go, status, statusOf, log, inp, out>>
workerVars == <<wpc, wjob, wdata, wrc, handle, runs, verdict>>

WorkerPc == {"off", "wait", "read", "run", "out", "log", "status", "fill",
             "unlink", "dead"}

ControlDirTypeOK ==
  /\ cmd \in 0..Quit
  /\ go \in BOOLEAN
  /\ status \in {"none", "empty", "DONE", "FAIL"}
  /\ statusOf \in 0..Quit
  /\ log \in 0..NJobs
  /\ inp \in [Jobs -> 0..NJobs]
  /\ out \in [Jobs -> 0..NJobs]
  /\ wpc \in WorkerPc
  /\ wjob \in 0..Quit
  /\ wdata \in 0..NJobs
  /\ wrc \in {"DONE", "FAIL"}
  /\ handle \in {"closed", "linked", "orphan"}
  /\ runs \in [Jobs -> Nat]
  /\ verdict \in [Jobs -> {"none", "DONE", "FAIL"}]

(* A pool that was given its directory may find the files of an earlier    *)
(* pool in it, whose last command was QUIT or a job's (1 stands for it).   *)
ControlDirInit ==
  /\ cmd \in {NoJob, 1, Quit} /\ go \in BOOLEAN
  /\ status \in {"none", "DONE", "FAIL"} /\ statusOf = NoJob /\ log = NoJob
  /\ inp = [j \in Jobs |-> NoJob] /\ out = [j \in Jobs |-> NoJob]
  /\ wpc = "off" /\ wjob = NoJob /\ wdata = NoJob /\ wrc = "DONE"
  /\ handle = "closed"
  /\ runs = [j \in Jobs |-> 0] /\ verdict = [j \in Jobs |-> "none"]

-----------------------------------------------------------------------------
(* while (!file_exists(go_path)) usleep(2000);                             *)
WSeeGo ==
  /\ wpc = "wait" /\ go
  /\ wpc' = "read"
  /\ UNCHANGED <<dirVars, wjob, wdata, wrc, handle, runs, verdict>>

(* No command, or an empty one: only job.go is removed.                    *)
WReadNothing ==
  /\ wpc = "read" /\ cmd = NoJob
  /\ wjob' = NoJob /\ wpc' = "unlink"
  /\ UNCHANGED <<dirVars, wdata, wrc, handle, runs, verdict>>

WReadQuit ==
  /\ wpc = "read" /\ cmd = Quit
  /\ wjob' = Quit /\ wrc' = "DONE" /\ wpc' = "status"
  /\ UNCHANGED <<dirVars, wdata, handle, runs, verdict>>

WReadJob ==
  /\ wpc = "read" /\ cmd \in Jobs
  /\ wjob' = cmd /\ wpc' = "run"
  /\ runs' = [runs EXCEPT ![cmd] = @ + 1]
  /\ UNCHANGED <<dirVars, wdata, wrc, handle, verdict>>

(* The job returns 1 before it touches the result file: the operands       *)
(* cannot be opened or read, memory is short, or the result file cannot be *)
(* opened.                                                                 *)
WRunFails ==
  /\ wpc = "run"
  /\ wrc' = "FAIL" /\ verdict' = [verdict EXCEPT ![wjob] = "FAIL"]
  /\ wpc' = "log"
  /\ UNCHANGED <<dirVars, wjob, wdata, handle, runs>>

(* Variant: the result file is opened without truncating it.               *)
WRunComputesInPlace ==
  /\ wpc = "run" /\ inp[Slot(wjob)] # NoJob
  /\ wdata' = inp[Slot(wjob)] /\ wpc' = "out"
  /\ UNCHANGED <<dirVars, wjob, wrc, handle, runs, verdict>>

(* Operands read, product computed, result file opened (and truncated).    *)
WRunComputes ==
  /\ wpc = "run" /\ inp[Slot(wjob)] # NoJob
  /\ wdata' = inp[Slot(wjob)]
  /\ out' = [out EXCEPT ![Slot(wjob)] = NoJob]
  /\ wpc' = "out"
  /\ UNCHANGED <<cmd, go, status, statusOf, log, inp,
                 wjob, wrc, handle, runs, verdict>>

(* The result is complete once the file is closed; fwrite's result is not  *)
(* looked at, so a failed write still ends in rc = 0.                      *)
WRunWrites ==
  /\ wpc = "out"
  /\ \/ out' = [out EXCEPT ![Slot(wjob)] = wdata]
     \/ "io" \in Faults /\ UNCHANGED out
  /\ wrc' = "DONE" /\ verdict' = [verdict EXCEPT ![wjob] = "DONE"]
  /\ wpc' = "log"
  /\ UNCHANGED <<cmd, go, status, statusOf, log, inp, wjob, wdata, handle, runs>>

WWriteLog ==
  /\ wpc = "log"
  /\ \/ log' = wjob
     \/ "io" \in Faults /\ log' = NoJob
  /\ wpc' = "status"
  /\ UNCHANGED <<cmd, go, status, statusOf, inp, out,
                 wjob, wdata, wrc, handle, runs, verdict>>

(* fopen(st_path, "w") makes an empty file; fputs only fills a buffer.     *)
WOpenStatus ==
  /\ wpc = "status"
  /\ \/ status' = "empty" /\ statusOf' = wjob /\ handle' = "linked" /\ wpc' = "fill"
     \/ "io" \in Faults /\ wpc' = "unlink" /\ UNCHANGED <<status, statusOf, handle>>
  /\ UNCHANGED <<cmd, go, log, inp, out, wjob, wdata, wrc, runs, verdict>>

(* fclose writes the verdict into the file it opened, which the host may   *)
(* have unlinked meanwhile.                                                *)
WCloseStatus ==
  /\ wpc = "fill"
  /\ \/ handle = "linked" /\ status' = wrc
     \/ (handle = "orphan" \/ "io" \in Faults) /\ UNCHANGED status
  /\ handle' = "closed" /\ wpc' = "unlink"
  /\ UNCHANGED <<cmd, go, statusOf, log, inp, out, wjob, wdata, wrc, runs, verdict>>

(* Variant: job.go is left for the host to remove.                         *)
WUnlinkGoKeeps ==
  /\ wpc = "unlink"
  /\ wpc' = IF wjob = Quit THEN "dead" ELSE "wait"
  /\ UNCHANGED <<dirVars, wjob, wdata, wrc, handle, runs, verdict>>

(* unlink(go_path): whatever job.go there is by now, the one the worker    *)
(* answered or the host's next.                                            *)
WUnlinkGo ==
  /\ wpc = "unlink"
  /\ go' = FALSE
  /\ wpc' = IF wjob = Quit THEN "dead" ELSE "wait"
  /\ UNCHANGED <<cmd, status, statusOf, log, inp, out,
                 wjob, wdata, wrc, handle, runs, verdict>>

(* What stdio still buffers is lost with the process: a job.status that    *)
(* was opened stays empty.                                                 *)
WCrash ==
  /\ "crash" \in Faults /\ wpc \notin {"off", "dead"}
  /\ wpc' = "dead" /\ handle' = "closed"
  /\ UNCHANGED <<dirVars, wjob, wdata, wrc, runs, verdict>>

WorkerStep ==
  \/ WSeeGo \/ WReadNothing \/ WReadQuit \/ WReadJob
  \/ WRunFails \/ WRunComputes \/ WRunWrites
  \/ WWriteLog \/ WOpenStatus \/ WCloseStatus \/ WUnlinkGo

(* The host can still get an answer to what it has submitted: the worker   *)
(* is inside a job, or has a job.go to notice, or has answered.            *)
Answerable == wpc \notin {"wait", "dead"} \/ go \/ status # "none"

=============================================================================
