----------------------------- MODULE VeWorker -----------------------------
(***************************************************************************)
(* One VE of VeWorkerPool (backends/ve_worker.py): start, _submit_raw,     *)
(* stop, and the callers that hand it a job and read the result file       *)
(* (_shard_gemm in partition/runner.py).  One caller at a time submits to  *)
(* a VE: a plan gives each VE one shard.                                   *)
(***************************************************************************)
EXTENDS ControlDir

VARIABLES
  hpc,    \* where the host is
  cur,    \* the command being submitted
  next,   \* the next job to submit
  seen,   \* what the host read from job.status
  raw,    \* how _submit_raw ended for each job
  of,     \* history: the job whose job.status answered each job
  text,   \* the job.log text it returned
  got     \* what the caller decoded from the result file

hostVars == <<hpc, cur, next, seen, raw, of, text, got>>
vars == <<dirVars, workerVars, hostVars>>

Submitting == {"clrStatus", "clrGo", "unlGo", "clrLog", "openCmd", "writeCmd", "writeGo"}
Polling    == {"poll", "chkProc", "readStatus", "readLog"}
HostPc == {"new", "starting", "idle", "readOut", "term", "stopped", "broken"}
            \cup Submitting \cup Polling

HostTypeOK ==
  /\ hpc \in HostPc
  /\ cur \in 0..Quit
  /\ next \in Cmds
  /\ seen \in {"none", "empty", "DONE", "FAIL"}
  /\ raw \in [Cmds -> {"none", "ok", "fail", "died", "timeout", "gone"}]
  /\ of \in [Cmds -> 0..Quit]
  /\ text \in [Cmds -> 0..NJobs]
  /\ got \in [Jobs -> 0..NJobs]

TypeOK == ControlDirTypeOK /\ HostTypeOK

Init ==
  /\ ControlDirInit
  /\ hpc = "new" /\ cur = NoJob /\ next = 1 /\ seen = "none"
  /\ raw = [j \in Cmds |-> "none"] /\ of = [j \in Cmds |-> NoJob]
  /\ text = [j \in Cmds |-> NoJob] /\ got = [j \in Jobs |-> NoJob]

-----------------------------------------------------------------------------
(* Clear the stale files, then spawn the worker.                           *)
Start ==
  /\ hpc = "new"
  /\ go' = FALSE /\ cmd' = NoJob /\ status' = "none" /\ statusOf' = NoJob
  /\ log' = NoJob
  /\ wpc' = "wait" /\ hpc' = "starting"
  /\ UNCHANGED <<inp, out, wjob, wdata, wrc, handle, runs, verdict,
                 cur, next, seen, raw, of, text, got>>

(* 0.15 s later: a worker that already exited makes start raise.           *)
StartReturns ==
  /\ hpc = "starting"
  /\ hpc' = IF wpc = "dead" THEN "broken" ELSE "idle"
  /\ UNCHANGED <<dirVars, workerVars, cur, next, seen, raw, of, text, got>>

-----------------------------------------------------------------------------
(* The caller writes the operands of its next job and calls run_combined.  *)
SubmitJob ==
  /\ hpc = "idle" /\ next \in Jobs
  /\ cur' = next /\ next' = next + 1
  /\ inp' = [inp EXCEPT ![Slot(next)] = next]
  /\ hpc' = "clrStatus"
  /\ UNCHANGED <<cmd, go, status, statusOf, log, out, workerVars,
                 seen, raw, of, text, got>>

(* stop() submits QUIT through the same _submit_raw.                       *)
SubmitQuit ==
  /\ hpc = "idle"
  /\ cur' = Quit /\ hpc' = "clrStatus"
  /\ UNCHANGED <<dirVars, workerVars, next, seen, raw, of, text, got>>

(* Variant: job.status is not among the files that are removed.            *)
ClearStatusSkips ==
  /\ hpc = "clrStatus"
  /\ hpc' = "clrGo"
  /\ UNCHANGED <<dirVars, workerVars, cur, next, seen, raw, of, text, got>>

(* for p in (st, go, log): if p.exists(): p.unlink().  Only the host       *)
(* removes job.status and job.log, so that looking and removing are one    *)
(* step for these two.  A job.status the worker holds open loses its name, *)
(* and what the worker writes to it is never seen.                         *)
ClearStatus ==
  /\ hpc = "clrStatus"
  /\ status' = "none" /\ statusOf' = NoJob
  /\ handle' = IF handle = "linked" THEN "orphan" ELSE handle
  /\ hpc' = "clrGo"
  /\ UNCHANGED <<cmd, go, log, inp, out, wpc, wjob, wdata, wrc, runs, verdict,
                 cur, next, seen, raw, of, text, got>>

(* The worker removes job.go as well: its late unlink may fall between the *)
(* host's look and the host's unlink.                                      *)
CheckGo ==
  /\ hpc = "clrGo"
  /\ hpc' = IF go THEN "unlGo" ELSE "clrLog"
  /\ UNCHANGED <<dirVars, workerVars, cur, next, seen, raw, of, text, got>>

ClearGo ==
  /\ hpc = "unlGo" /\ go
  /\ go' = FALSE /\ hpc' = "clrLog"
  /\ UNCHANGED <<cmd, status, statusOf, log, inp, out, workerVars,
                 cur, next, seen, raw, of, text, got>>

(* What becomes of the host when _submit_raw raises: a job's caller gets   *)
(* the exception and may submit again, stop() swallows it and goes on.     *)
AfterRaise == IF cur = Quit THEN "term" ELSE "idle"

(* FileNotFoundError out of _submit_raw: the command was never written.    *)
GoVanished ==
  /\ hpc = "unlGo" /\ ~go
  /\ raw' = [raw EXCEPT ![cur] = "gone"] /\ hpc' = AfterRaise
  /\ UNCHANGED <<dirVars, workerVars, cur, next, seen, of, text, got>>

ClearLog ==
  /\ hpc = "clrLog"
  /\ log' = NoJob /\ hpc' = "openCmd"
  /\ UNCHANGED <<cmd, go, status, statusOf, inp, out, workerVars,
                 cur, next, seen, raw, of, text, got>>

(* Variant: job.go is written before job.cmd.                              *)
OpenCmdAfterGo ==
  /\ hpc = "openCmd"
  /\ cmd' = NoJob /\ go' = TRUE /\ hpc' = "writeCmd"
  /\ UNCHANGED <<status, statusOf, log, inp, out, workerVars,
                 cur, next, seen, raw, of, text, got>>

(* write_text truncates job.cmd and then writes it.                        *)
OpenCmd ==
  /\ hpc = "openCmd"
  /\ cmd' = NoJob /\ hpc' = "writeCmd"
  /\ UNCHANGED <<go, status, statusOf, log, inp, out, workerVars,
                 cur, next, seen, raw, of, text, got>>

WriteCmd ==
  /\ hpc = "writeCmd"
  /\ cmd' = cur /\ hpc' = "writeGo"
  /\ UNCHANGED <<go, status, statusOf, log, inp, out, workerVars,
                 cur, next, seen, raw, of, text, got>>

WriteGo ==
  /\ hpc = "writeGo"
  /\ go' = TRUE /\ hpc' = "poll"
  /\ UNCHANGED <<cmd, status, statusOf, log, inp, out, workerVars,
                 cur, next, seen, raw, of, text, got>>

-----------------------------------------------------------------------------
(* Variant: the poll does not look for job.status.                         *)
PollSeesAny ==
  /\ hpc = "poll"
  /\ hpc' = "readStatus"
  /\ UNCHANGED <<dirVars, workerVars, cur, next, seen, raw, of, text, got>>

PollSees ==
  /\ hpc = "poll" /\ status # "none"
  /\ hpc' = "readStatus"
  /\ UNCHANGED <<dirVars, workerVars, cur, next, seen, raw, of, text, got>>

PollMisses ==
  /\ hpc = "poll" /\ status = "none"
  /\ hpc' = "chkProc"
  /\ UNCHANGED <<dirVars, workerVars, cur, next, seen, raw, of, text, got>>

CheckAlive ==
  /\ hpc = "chkProc" /\ wpc # "dead"
  /\ hpc' = "poll"
  /\ UNCHANGED <<dirVars, workerVars, cur, next, seen, raw, of, text, got>>

CheckDead ==
  /\ hpc = "chkProc" /\ wpc = "dead"
  /\ raw' = [raw EXCEPT ![cur] = "died"] /\ hpc' = AfterRaise
  /\ UNCHANGED <<dirVars, workerVars, cur, next, seen, of, text, got>>

(* Variants: the limit is shorter than a job; there is none.               *)
TimeoutEarly ==
  /\ hpc = "poll"
  /\ raw' = [raw EXCEPT ![cur] = "timeout"] /\ hpc' = AfterRaise
  /\ UNCHANGED <<dirVars, workerVars, cur, next, seen, of, text, got>>
TimeoutNever == FALSE /\ UNCHANGED vars

(* The wait is over.  The limit (300 s for a job) is far above a job's     *)
(* time, so that without "slow" it only expires on a job nobody will       *)
(* answer.  The files stay as they are.                                    *)
Timeout ==
  /\ hpc = "poll"
  /\ "slow" \in Faults \/ ~Answerable
  /\ raw' = [raw EXCEPT ![cur] = "timeout"] /\ hpc' = AfterRaise
  /\ UNCHANGED <<dirVars, workerVars, cur, next, seen, of, text, got>>

ReadStatus ==
  /\ hpc = "readStatus"
  /\ seen' = status /\ of' = [of EXCEPT ![cur] = statusOf]
  /\ hpc' = "readLog"
  /\ UNCHANGED <<dirVars, workerVars, cur, next, raw, text, got>>

(* Only "FAIL" raises: anything else job.status holds is success.          *)
ReadLogFail ==
  /\ hpc = "readLog" /\ seen = "FAIL"
  /\ raw' = [raw EXCEPT ![cur] = "fail"] /\ text' = [text EXCEPT ![cur] = log]
  /\ hpc' = AfterRaise
  /\ UNCHANGED <<dirVars, workerVars, cur, next, seen, of, got>>

ReadLogOk ==
  /\ hpc = "readLog" /\ seen # "FAIL"
  /\ raw' = [raw EXCEPT ![cur] = "ok"] /\ text' = [text EXCEPT ![cur] = log]
  /\ hpc' = IF cur = Quit THEN "term" ELSE "readOut"
  /\ UNCHANGED <<dirVars, workerVars, cur, next, seen, of, got>>

(* c_sh = _read_output(out_path): raises on a missing or a short file.     *)
ReadOut ==
  /\ hpc = "readOut"
  /\ got' = [got EXCEPT ![cur] = out[Slot(cur)]] /\ hpc' = "idle"
  /\ UNCHANGED <<dirVars, workerVars, cur, next, seen, raw, of, text>>

(* Variant: stop() trusts QUIT and does not kill.                          *)
TerminateSpares ==
  /\ hpc = "term"
  /\ hpc' = "stopped"
  /\ UNCHANGED <<dirVars, workerVars, cur, next, seen, raw, of, text, got>>

(* proc.terminate, wait, and kill if that fails.                           *)
Terminate ==
  /\ hpc = "term"
  /\ wpc' = "dead" /\ handle' = "closed" /\ hpc' = "stopped"
  /\ UNCHANGED <<dirVars, wjob, wdata, wrc, runs, verdict,
                 cur, next, seen, raw, of, text, got>>

(* A stopped pool and one whose start raised do nothing more.              *)
Finished == hpc \in {"stopped", "broken"} /\ UNCHANGED vars

HostStep ==
  \/ Start \/ StartReturns \/ SubmitJob \/ SubmitQuit
  \/ ClearStatus \/ CheckGo \/ ClearGo \/ GoVanished \/ ClearLog
  \/ OpenCmd \/ WriteCmd \/ WriteGo
  \/ PollSees \/ PollMisses \/ CheckAlive \/ CheckDead \/ Timeout
  \/ ReadStatus \/ ReadLogFail \/ ReadLogOk \/ ReadOut \/ Terminate

Next ==
  \/ HostStep
  \/ (WorkerStep \/ WCrash) /\ UNCHANGED hostVars
  \/ Finished

Spec == Init /\ [][Next]_vars

(* The worker and the submitting thread are scheduled; a poll loop that    *)
(* comes back to its time limit again and again finds it passed.  Nobody   *)
(* has to submit a job or to stop the pool.                                *)
HostProgress == HostStep /\ ~(SubmitJob \/ SubmitQuit)
Fairness ==
  /\ WF_vars(WorkerStep /\ UNCHANGED hostVars)
  /\ WF_vars(HostProgress)
  /\ SF_vars(Timeout)
FairSpec == Spec /\ Fairness

-----------------------------------------------------------------------------
(* The status and the log that ended a submission were written by the run  *)
(* of that very command, never by an earlier one whose answer came late    *)
(* (the unlinks at the head of _submit_raw).                               *)
AnswerIsOwn ==
  \A j \in Cmds : raw[j] \in {"ok", "fail"} =>
                     of[j] = j /\ text[j] \in {j, NoJob}

(* No job runs twice, though nothing but job.go's presence tells the       *)
(* worker whether the command it reads is new.                             *)
AtMostOnce == \A j \in Jobs : runs[j] <= 1

(* The worker never opens job.cmd while the host rewrites it: what it      *)
(* reads is the command the host is waiting on.                            *)
NoTornCommand == wpc = "read" => hpc \in Polling /\ cmd = cur

(* What the caller decodes is a result of its own job, and the job ran.    *)
DeliveredIsOwn ==
  \A j \in Jobs : got[j] # NoJob => got[j] = j /\ runs[j] >= 1

(* A job that failed never yields a decodable result, whatever _submit_raw *)
(* made of its status: the result file of a failed run cannot be read.     *)
DeliveredWasDone == \A j \in Jobs : got[j] # NoJob => verdict[j] = "DONE"

(* The late unlink of job.go took the job before the worker saw it: it     *)
(* removed the job's own job.go, and the wait for the job ran out, or the  *)
(* old one under the host's unlink, which raised.                          *)
Lost(j) == raw[j] \in {"timeout", "gone"} /\ runs[j] = 0

(* It never costs two jobs in a row, whichever way it takes them: once the *)
(* submission of a lost job has ended, the worker is back at its wait loop *)
(* and takes the next one.                                                 *)
NeverLostTwice == \A j \in Jobs : j + 1 \in Jobs => ~(Lost(j) /\ Lost(j + 1))

(* The pool as its callers see it: a submission between two calls, and     *)
(* what each job's call came to.                                           *)
ChannelPhase ==
  CASE hpc \in {"new", "starting", "idle", "readOut"} -> "idle"
    [] hpc \in Submitting \cup Polling /\ cur # Quit -> "waiting"
    [] OTHER -> "closed"
ChannelReply ==
  [j \in Jobs |-> IF raw[j] \in {"died", "timeout", "gone"} THEN "lost" ELSE raw[j]]

(* What the pool promises its callers: a channel that runs each job at     *)
(* most once and replies only to jobs it ran.  An "ok" is not a verdict    *)
(* here, as any job.status but "FAIL" counts for one.                      *)
Channel == INSTANCE JobChannel WITH
  Exact <- FALSE, phase <- ChannelPhase, job <- next - 1,
  outcome <- verdict, reply <- ChannelReply
ImplementsChannel == Channel!Spec

(* Every submission ends, with an answer, on a dead worker, by timeout or  *)
(* on a job.go that vanished under its unlink; and so does stop(), which   *)
(* swallows all but the answer and which no worker process outlives.       *)
CallsEnd ==
  /\ hpc \in Submitting ~> hpc \in {"idle", "readOut", "term"}
  /\ cur = Quit ~> hpc = "stopped" /\ wpc = "dead"

=============================================================================
