---------------------------- MODULE PhiWorker ----------------------------
(***************************************************************************)
(* The Phi card's worker seen from PhiWorker (backends/phi_worker.py): the *)
(* files of ControlDir live on the card, the host reaches them through one *)
(* ssh command per access, and all jobs use the same in.bin and out.bin.   *)
(* The process the host watches is the ssh that started the worker, not    *)
(* the worker.                                                             *)
(***************************************************************************)
EXTENDS ControlDir

VARIABLES
  hpc,    \* where the host is
  cur,    \* the command being submitted
  next,   \* the next job
  sshUp,  \* the ssh process of the worker runs
  seen,   \* what the poll script read from job.status
  res,    \* how the submission of each command ended
  got     \* whose result scale returned for each job

hostVars == <<hpc, cur, next, sshUp, seen, res, got>>
vars == <<dirVars, workerVars, hostVars>>

Script  == {"rmStatus", "rmLog", "openCmd", "writeCmd", "writeGo"}
Polling == {"poll", "catStatus", "catLog", "chkProc"}

HostPc == {"new", "starting", "idle", "put", "get", "term", "stopped", "broken"}
            \cup Script \cup Polling

TypeOK ==
  /\ ControlDirTypeOK
  /\ hpc \in HostPc
  /\ cur \in 0..Quit
  /\ next \in Cmds
  /\ sshUp \in BOOLEAN
  /\ seen \in {"none", "empty", "DONE", "FAIL"}
  /\ res \in [Cmds -> {"none", "ok", "fail", "ctl", "died", "timeout"}]
  /\ got \in [Jobs -> 0..NJobs]

(* The remote directory is fixed: the files of the last run are in it.     *)
Init ==
  /\ ControlDirInit
  /\ hpc = "new" /\ cur = NoJob /\ next = 1 /\ sshUp = FALSE /\ seen = "none"
  /\ res = [j \in Cmds |-> "none"] /\ got = [j \in Jobs |-> NoJob]

-----------------------------------------------------------------------------
(* Copying the binary raises when it fails, and so does a command of the   *)
(* deployment that exceeds its own time limit.                             *)
DeployFails ==
  /\ hpc = "new" /\ "link" \in Faults
  /\ hpc' = "broken"
  /\ UNCHANGED <<dirVars, workerVars, cur, next, sshUp, seen, res, got>>

(* Deploy, remove the stale control files, run the worker over ssh.  Nobody*)
(* looks at what became of the rm -f, nor, for the moment, of the worker's *)
(* ssh: over a broken link the files of the last run may stay, and no      *)
(* worker need come up.                                                    *)
Start ==
  /\ hpc = "new"
  /\ \/ go' = FALSE /\ cmd' = NoJob /\ status' = "none" /\ statusOf' = NoJob
        /\ log' = NoJob
     \/ "link" \in Faults /\ UNCHANGED <<go, cmd, status, statusOf, log>>
  /\ \/ wpc' = "wait"
     \/ "link" \in Faults /\ wpc' = "dead"
  /\ sshUp' = TRUE /\ hpc' = "starting"
  /\ UNCHANGED <<inp, out, wjob, wdata, wrc, handle, runs, verdict,
                 cur, next, seen, res, got>>

StartReturns ==
  /\ hpc = "starting"
  /\ hpc' = IF sshUp THEN "idle" ELSE "broken"
  /\ UNCHANGED <<dirVars, workerVars, cur, next, sshUp, seen, res, got>>

(* scale: _put copies the operands over in.bin, which is truncated first.  *)
Scale ==
  /\ hpc = "idle" /\ next \in Jobs
  /\ cur' = next /\ next' = next + 1
  /\ inp' = [inp EXCEPT ![Slot(next)] = NoJob]
  /\ hpc' = "put"
  /\ UNCHANGED <<cmd, go, status, statusOf, log, out, workerVars,
                 sshUp, seen, res, got>>

PutDone ==
  /\ hpc = "put"
  /\ inp' = [inp EXCEPT ![Slot(cur)] = cur]
  /\ hpc' = "rmStatus"
  /\ UNCHANGED <<cmd, go, status, statusOf, log, out, workerVars,
                 cur, next, sshUp, seen, res, got>>

(* stop: QUIT only while the ssh process runs.                             *)
Stop ==
  /\ hpc = "idle"
  /\ cur' = Quit
  /\ hpc' = IF sshUp THEN "rmStatus" ELSE "stopped"
  /\ UNCHANGED <<dirVars, workerVars, next, sshUp, seen, res, got>>

-----------------------------------------------------------------------------
(* Variant: job.status is not removed.                                     *)
RmStatusSkips ==
  /\ hpc = "rmStatus"
  /\ hpc' = "rmLog"
  /\ UNCHANGED <<dirVars, workerVars, cur, next, sshUp, seen, res, got>>

(* The control script: rm -f job.status job.log; printf > job.cmd;         *)
(* : > job.go.  Unlike the VE host it leaves an old job.go in place.       *)
RmStatus ==
  /\ hpc = "rmStatus"
  /\ status' = "none" /\ statusOf' = NoJob
  /\ handle' = IF handle = "linked" THEN "orphan" ELSE handle
  /\ hpc' = "rmLog"
  /\ UNCHANGED <<cmd, go, log, inp, out, wpc, wjob, wdata, wrc, runs, verdict,
                 cur, next, sshUp, seen, res, got>>

RmLog ==
  /\ hpc = "rmLog"
  /\ log' = NoJob /\ hpc' = "openCmd"
  /\ UNCHANGED <<cmd, go, status, statusOf, inp, out, workerVars,
                 cur, next, sshUp, seen, res, got>>

OpenCmd ==
  /\ hpc = "openCmd"
  /\ cmd' = NoJob /\ hpc' = "writeCmd"
  /\ UNCHANGED <<go, status, statusOf, log, inp, out, workerVars,
                 cur, next, sshUp, seen, res, got>>

WriteCmd ==
  /\ hpc = "writeCmd"
  /\ cmd' = cur /\ hpc' = "writeGo"
  /\ UNCHANGED <<go, status, statusOf, log, inp, out, workerVars,
                 cur, next, sshUp, seen, res, got>>

WriteGo ==
  /\ hpc = "writeGo"
  /\ go' = TRUE /\ hpc' = "poll"
  /\ UNCHANGED <<cmd, status, statusOf, log, inp, out, workerVars,
                 cur, next, sshUp, seen, res, got>>

-----------------------------------------------------------------------------
AfterRaise == IF cur = Quit THEN "term" ELSE "idle"

(* A copy or the control script fails, or its own time limit expires:      *)
(* scale raises, what was not yet done is not done.                        *)
ControlFails ==
  /\ "link" \in Faults
  /\ hpc \in {"put", "get"} \cup Script
  /\ res' = [res EXCEPT ![cur] = IF @ = "none" THEN "ctl" ELSE @]
  /\ hpc' = AfterRaise
  /\ UNCHANGED <<dirVars, workerVars, cur, next, sshUp, seen, got>>

(* Of a poll only its own time limit raises.                               *)
PollTimesOut ==
  /\ "link" \in Faults
  /\ hpc \in {"poll", "catStatus", "catLog"}
  /\ res' = [res EXCEPT ![cur] = "ctl"] /\ hpc' = AfterRaise
  /\ UNCHANGED <<dirVars, workerVars, cur, next, sshUp, seen, got>>

(* A poll whose ssh fails, or that prints nothing, counts for one that     *)
(* found no answer: its return code is not looked at.                      *)
PollIgnored ==
  /\ "link" \in Faults
  /\ hpc \in {"poll", "catStatus", "catLog"}
  /\ hpc' = "chkProc"
  /\ UNCHANGED <<dirVars, workerVars, cur, next, sshUp, seen, res, got>>

(* The poll script: [ -f job.status ], cat job.status, cat job.log.        *)
PollSees ==
  /\ hpc = "poll" /\ status # "none"
  /\ hpc' = "catStatus"
  /\ UNCHANGED <<dirVars, workerVars, cur, next, sshUp, seen, res, got>>

PollMisses ==
  /\ hpc = "poll" /\ status = "none"
  /\ hpc' = "chkProc"
  /\ UNCHANGED <<dirVars, workerVars, cur, next, sshUp, seen, res, got>>

CatStatus ==
  /\ hpc = "catStatus"
  /\ seen' = status
  /\ hpc' = "catLog"
  /\ UNCHANGED <<dirVars, workerVars, cur, next, sshUp, res, got>>

(* Variant: whatever is not FAIL is success, as in ve_worker.py.           *)
AnsweredByAny ==
  /\ hpc = "catLog"
  /\ res' = [res EXCEPT ![cur] = IF seen # "FAIL" THEN "ok" ELSE "fail"]
  /\ hpc' = IF seen # "FAIL" /\ cur # Quit THEN "get" ELSE AfterRaise
  /\ UNCHANGED <<dirVars, workerVars, cur, next, sshUp, seen, got>>

(* Only an output that starts with DONE or FAIL ends the wait.             *)
Answered ==
  /\ hpc = "catLog" /\ seen \in {"DONE", "FAIL"}
  /\ res' = [res EXCEPT ![cur] = IF seen = "DONE" THEN "ok" ELSE "fail"]
  /\ hpc' = IF seen = "DONE" /\ cur # Quit THEN "get" ELSE AfterRaise
  /\ UNCHANGED <<dirVars, workerVars, cur, next, sshUp, seen, got>>

NotYet ==
  /\ hpc = "catLog" /\ seen \notin {"DONE", "FAIL"}
  /\ hpc' = "chkProc"
  /\ UNCHANGED <<dirVars, workerVars, cur, next, sshUp, seen, res, got>>

CheckAlive ==
  /\ hpc = "chkProc" /\ sshUp
  /\ hpc' = "poll"
  /\ UNCHANGED <<dirVars, workerVars, cur, next, sshUp, seen, res, got>>

CheckDead ==
  /\ hpc = "chkProc" /\ ~sshUp
  /\ res' = [res EXCEPT ![cur] = "died"] /\ hpc' = AfterRaise
  /\ UNCHANGED <<dirVars, workerVars, cur, next, sshUp, seen, got>>

(* Variant: there is no limit.                                             *)
TimeoutNever == FALSE /\ UNCHANGED vars

(* An empty job.status that nobody will fill is waited on in vain, too,    *)
(* and so is an answer that no poll brings back.                           *)
Timeout ==
  /\ hpc = "poll"
  /\ \/ {"slow", "link"} \cap Faults # {}
     \/ wpc \in {"wait", "dead"} /\ ~go /\ status \notin {"DONE", "FAIL"}
  /\ res' = [res EXCEPT ![cur] = "timeout"] /\ hpc' = AfterRaise
  /\ UNCHANGED <<dirVars, workerVars, cur, next, sshUp, seen, got>>

(* _get copies out.bin back and scale decodes it; the error against the    *)
(* reference tells another job's result from this one's.                   *)
Get ==
  /\ hpc = "get"
  /\ got' = [got EXCEPT ![cur] = out[Slot(cur)]] /\ hpc' = "idle"
  /\ UNCHANGED <<dirVars, workerVars, cur, next, sshUp, seen, res>>

(* terminate ends the ssh process; the worker on the card is not told.     *)
Terminate ==
  /\ hpc = "term"
  /\ sshUp' = FALSE /\ hpc' = "stopped"
  /\ UNCHANGED <<dirVars, workerVars, cur, next, seen, res, got>>

Finished == hpc \in {"stopped", "broken"} /\ UNCHANGED vars

HostStep ==
  \/ Start \/ StartReturns \/ Scale \/ PutDone \/ Stop
  \/ RmStatus \/ RmLog \/ OpenCmd \/ WriteCmd \/ WriteGo
  \/ PollSees \/ PollMisses \/ CatStatus \/ Answered \/ NotYet
  \/ CheckAlive \/ CheckDead \/ Timeout \/ Get \/ Terminate

(* What only a broken link does to the host.                               *)
LinkStep == DeployFails \/ ControlFails \/ PollTimesOut \/ PollIgnored

(* ssh ends when the worker it runs has ended, or when the link breaks.    *)
SshEnds ==
  /\ sshUp /\ (wpc = "dead" \/ "link" \in Faults)
  /\ sshUp' = FALSE
  /\ UNCHANGED <<dirVars, workerVars, hpc, cur, next, seen, res, got>>

Next ==
  \/ HostStep \/ LinkStep \/ SshEnds
  \/ (WorkerStep \/ WCrash) /\ UNCHANGED hostVars
  \/ Finished

Spec == Init /\ [][Next]_vars

HostProgress == HostStep /\ ~(Scale \/ Stop)
Fairness ==
  /\ WF_vars(WorkerStep /\ UNCHANGED hostVars)
  /\ WF_vars(HostProgress)
  /\ WF_vars(SshEnds /\ wpc = "dead")
  /\ SF_vars(Timeout)
FairSpec == Spec /\ Fairness

-----------------------------------------------------------------------------
(* What scale copies back from the shared out.bin is the result of its own *)
(* job or cannot be decoded, never a result an earlier job left there.     *)
ResultIsOwn == \A j \in Jobs : got[j] \in {NoJob, j}

(* The card as its callers see it: a submission between two calls, and     *)
(* what each job's call came to.                                           *)
ChannelPhase ==
  CASE hpc \in {"new", "starting", "idle", "get"} -> "idle"
    [] hpc \in {"put"} \cup Script \cup Polling /\ cur # Quit -> "waiting"
    [] OTHER -> "closed"
ChannelReply ==
  [j \in Jobs |-> IF res[j] \in {"ctl", "died", "timeout"} THEN "lost" ELSE res[j]]

(* The promise of a worker that waits for the verdict itself: "ok" is the  *)
(* reply of a job that was done, "fail" of one that failed.                *)
Channel == INSTANCE JobChannel WITH
  Exact <- TRUE, phase <- ChannelPhase, job <- next - 1,
  outcome <- verdict, reply <- ChannelReply
ImplementsChannel == Channel!Spec

(* stop() only ends its ssh: the worker on the card is gone because it     *)
(* acknowledged QUIT, and an acknowledgement is really one.  (With "slow"  *)
(* it may be the late status of a job, and the worker stays for good.)     *)
QuitEnds == res[Quit] = "ok" ~> wpc = "dead"

(* Every call of scale and of stop ends, though a failed poll is no answer *)
(* and no exception and may follow on the other for as long as the link    *)
(* stays broken.                                                           *)
CallsReturn == hpc \in {"put"} \cup Script ~> hpc \in {"idle", "get", "term"}
=============================================================================
