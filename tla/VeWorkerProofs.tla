-------------------------- MODULE VeWorkerProofs --------------------------
(***************************************************************************)
(* Theorems about VeWorker, for any number of jobs.  The type invariant    *)
(* holds whatever fails, and so does DeliveredIsOwn when every job has its *)
(* own file.  The rest of the protocol's safety rests on the time limit:   *)
(* it is proved for workers that crash and fail to write at any point, as  *)
(* long as no job outlasts the wait for it ("slow" \notin Faults), because *)
(* then a submission is given up only when the worker is back at its wait  *)
(* loop with nothing to notice.                                            *)
(***************************************************************************)
EXTENDS VeWorker, TLAPS

-----------------------------------------------------------------------------
(* How the ranges of job and command numbers lie in each other.            *)
LEMMA Ranges ==
  /\ NoJob \in 0..NJobs /\ NoJob \in 0..Quit /\ NoJob \notin Cmds
  /\ Jobs \subseteq Cmds /\ Jobs \subseteq 0..NJobs /\ Cmds \subseteq 0..Quit
  /\ Quit \in Cmds /\ Quit \notin Jobs /\ 1 \in Cmds
  /\ \A j \in Jobs : Slot(j) \in Jobs /\ j \in Nat /\ j + 1 \in Cmds
  /\ \A j \in Cmds : j \in Nat /\ (j # Quit => j \in Jobs)
  BY ConstantsAssumption DEF NoJob, Jobs, Cmds, Quit, Slot

(* A worker inside a job has read the number of one.                       *)
WorkerOK ==
  /\ ControlDirTypeOK
  /\ wpc \in {"run", "out", "log"} => wjob \in Jobs

(* The types hold initially, and no step of the worker, its crash          *)
(* included, breaks them.                                                  *)
LEMMA InitWorkerOK == ASSUME ControlDirInit PROVE WorkerOK
  BY Ranges DEF ControlDirInit, WorkerOK, ControlDirTypeOK, WorkerPc

LEMMA WorkerStepOK ==
  ASSUME WorkerOK, WorkerStep \/ WCrash
  PROVE  WorkerOK'
<1> USE Ranges DEF WorkerOK, ControlDirTypeOK, WorkerPc, dirVars
<1>1. CASE WSeeGo
  BY <1>1 DEF WSeeGo
<1>2. CASE WReadNothing
  BY <1>2 DEF WReadNothing
<1>3. CASE WReadQuit
  BY <1>3 DEF WReadQuit
<1>4. CASE WReadJob
  BY <1>4 DEF WReadJob
<1>5. CASE WRunFails
  BY <1>5 DEF WRunFails
<1>6. CASE WRunComputes
  BY <1>6 DEF WRunComputes
<1>7. CASE WRunWrites
  BY <1>7 DEF WRunWrites
<1>8. CASE WWriteLog
  BY <1>8 DEF WWriteLog
<1>9. CASE WOpenStatus
  BY <1>9 DEF WOpenStatus
<1>10. CASE WCloseStatus
  BY <1>10 DEF WCloseStatus
<1>11. CASE WUnlinkGo
  BY <1>11 DEF WUnlinkGo
<1>12. CASE WCrash
  BY <1>12 DEF WCrash
<1>13. QED
  BY <1>1, <1>2, <1>3, <1>4, <1>5, <1>6,
     <1>7, <1>8, <1>9, <1>10, <1>11, <1>12
     DEF WorkerStep

-----------------------------------------------------------------------------
(* The worker is between noticing job.go and creating job.status.          *)
Working == {"read", "run", "out", "log", "status"}

(* The pool is unstarted as long as the worker is; a job that was not      *)
(* handed over has not run.                                                *)
InvPhase ==
  /\ hpc = "new" <=> wpc = "off"
  /\ \A j \in Jobs : j >= next => runs[j] = 0
  /\ cur \in Jobs => cur < next
  /\ hpc \in Submitting /\ cur \in Jobs => runs[cur] = 0

(* Only a worker that fills job.status has it open.                        *)
InvHandle ==
  /\ handle # "closed" => wpc = "fill"
  /\ handle = "linked" => status # "none"

(* A worker that works, works on the command the host waits on, and has    *)
(* not answered it.                                                        *)
InvWorking ==
  wpc \in Working =>
    /\ hpc \in {"poll", "chkProc"} /\ status = "none"
    /\ wpc # "read" => wjob = cur
    /\ wpc = "read" /\ cur \in Jobs => runs[cur] = 0

(* A job.go the worker can notice belongs to a command that is waited on   *)
(* and that it has not seen before.                                        *)
InvWaitGo ==
  wpc = "wait" /\ go =>
    /\ hpc \in {"poll", "chkProc"} /\ status = "none"
    /\ cur \in Jobs => runs[cur] = 0

(* The host's steps so far: what it cleared stays clear until job.go is    *)
(* there, and job.cmd is complete before.                                  *)
InvCleared ==
  /\ hpc \in Submitting \ {"clrStatus"} => status = "none" /\ handle # "linked"
  /\ hpc \in {"openCmd", "writeCmd", "writeGo"} \cup Polling => log \in {cur, NoJob}
  /\ hpc \in {"writeGo"} \cup Polling => cmd = cur

(* A job.status the host sees answers the command it waits on.             *)
InvAnswer ==
  /\ hpc \in Polling /\ status # "none" => statusOf = cur
  /\ hpc \in {"readStatus", "readLog"} => status # "none"
  /\ hpc = "readLog" => of[cur] = cur

IInv ==
  /\ InvPhase /\ InvHandle /\ InvWorking /\ InvWaitGo /\ InvCleared /\ InvAnswer
  /\ AtMostOnce /\ AnswerIsOwn

-----------------------------------------------------------------------------
(* A submission is for a command, and a result is read for a job.          *)
CurOK ==
  /\ hpc \in Submitting \cup Polling => cur \in Cmds
  /\ hpc = "readOut" => cur \in Jobs

TypeInv == HostTypeOK /\ WorkerOK /\ CurOK

LEMMA TypeInvInit == Init => TypeInv
  BY Ranges, InitWorkerOK
     DEF Init, TypeInv, HostTypeOK, WorkerOK, CurOK, HostPc, Submitting, Polling, Cmds

LEMMA TypeInvNext == TypeInv /\ [Next]_vars => TypeInv'
<1> SUFFICES ASSUME TypeInv, [Next]_vars PROVE TypeInv'
  OBVIOUS
<1> USE Ranges DEF TypeInv, HostTypeOK, CurOK, HostPc, Submitting, Polling
<1>1. CASE HostStep
  <2> USE DEF WorkerOK, ControlDirTypeOK, WorkerPc, dirVars, workerVars
  <2>1. CASE Start
    BY <2>1 DEF Start
  <2>2. CASE StartReturns
    BY <2>2 DEF StartReturns
  <2>3. CASE SubmitJob
    BY <2>3 DEF SubmitJob
  <2>4. CASE SubmitQuit
    BY <2>4 DEF SubmitQuit
  <2>5. CASE ClearStatus
    BY <2>5 DEF ClearStatus
  <2>6. CASE CheckGo
    BY <2>6 DEF CheckGo
  <2>7. CASE ClearGo
    <3>1. WorkerOK'
      BY <2>7 DEF ClearGo
    <3>2. HostTypeOK' /\ CurOK'
      BY <2>7 DEF ClearGo
    <3>3. QED
      BY <3>1, <3>2
  <2>8. CASE GoVanished
    BY <2>8 DEF GoVanished, AfterRaise
  <2>9. CASE ClearLog
    BY <2>9 DEF ClearLog
  <2>10. CASE OpenCmd
    BY <2>10 DEF OpenCmd
  <2>11. CASE WriteCmd
    BY <2>11 DEF WriteCmd
  <2>12. CASE WriteGo
    BY <2>12 DEF WriteGo
  <2>13. CASE PollSees
    BY <2>13 DEF PollSees
  <2>14. CASE PollMisses
    BY <2>14 DEF PollMisses
  <2>15. CASE CheckAlive
    BY <2>15 DEF CheckAlive
  <2>16. CASE CheckDead
    BY <2>16 DEF CheckDead, AfterRaise
  <2>17. CASE Timeout
    BY <2>17 DEF Timeout, AfterRaise
  <2>18. CASE ReadStatus
    BY <2>18 DEF ReadStatus
  <2>19. CASE ReadLogFail
    BY <2>19 DEF ReadLogFail, AfterRaise
  <2>20. CASE ReadLogOk
    BY <2>20 DEF ReadLogOk
  <2>21. CASE ReadOut
    <3>1. out[Slot(cur)] \in 0..NJobs
      BY <2>21 DEF ReadOut
    <3>2. WorkerOK'
      BY <2>21 DEF ReadOut
    <3>3. HostTypeOK' /\ CurOK'
      BY <2>21, <3>1 DEF ReadOut
    <3>4. QED
      BY <3>2, <3>3
  <2>22. CASE Terminate
    BY <2>22 DEF Terminate
  <2>23. QED
    BY <1>1, <2>1, <2>2, <2>3, <2>4, <2>5, <2>6, <2>7, <2>8, <2>9, <2>10,
       <2>11, <2>12, <2>13, <2>14, <2>15, <2>16, <2>17, <2>18, <2>19, <2>20,
       <2>21, <2>22
       DEF HostStep
<1>2. CASE (WorkerStep \/ WCrash) /\ UNCHANGED hostVars
  <2>1. WorkerOK'
    BY <1>2, WorkerStepOK
  <2>2. QED
    BY <1>2, <2>1 DEF hostVars, WorkerOK
<1>3. CASE UNCHANGED vars
  BY <1>3 DEF vars, dirVars, workerVars, hostVars, WorkerOK, ControlDirTypeOK
<1>4. QED
  BY <1>1, <1>2, <1>3 DEF Next, Finished

(* TypeOK, whatever fails: the files, the worker and the host keep to      *)
(* their states, and every job number to its range.                        *)
THEOREM TypeCorrect == Spec => []TypeOK
<1>1. TypeInv => TypeOK
  BY DEF TypeInv, TypeOK, WorkerOK
<1>2. QED
  BY TypeInvInit, TypeInvNext, <1>1, PTL DEF Spec

-----------------------------------------------------------------------------
LEMMA IInvInit == Init => IInv
  BY Ranges
     DEF Init, ControlDirInit, IInv, InvPhase, InvHandle, InvWorking, InvWaitGo,
         InvCleared, InvAnswer, AtMostOnce, AnswerIsOwn, Working, Submitting, Polling

LEMMA IInvNext ==
  ASSUME "slow" \notin Faults, TypeInv, IInv, [Next]_vars
  PROVE  IInv'
<1> USE Ranges
    DEF TypeInv, HostTypeOK, CurOK, WorkerOK, ControlDirTypeOK,
        HostPc, WorkerPc, Submitting, Polling, Working,
        IInv, InvPhase, InvHandle, InvWorking, InvWaitGo, InvCleared, InvAnswer,
        AtMostOnce, AnswerIsOwn, dirVars, workerVars
<1>1. CASE Start
  BY <1>1 DEF Start
<1>2. CASE StartReturns
  BY <1>2 DEF StartReturns
<1>3. CASE SubmitJob
  BY <1>3 DEF SubmitJob
<1>4. CASE SubmitQuit
  BY <1>4 DEF SubmitQuit
<1>5. CASE ClearStatus
  BY <1>5 DEF ClearStatus
<1>6. CASE CheckGo
  BY <1>6 DEF CheckGo
<1>7. CASE ClearGo
  BY <1>7 DEF ClearGo
<1>8. CASE GoVanished
  BY <1>8 DEF GoVanished, AfterRaise
<1>9. CASE ClearLog
  BY <1>9 DEF ClearLog
<1>10. CASE OpenCmd
  BY <1>10 DEF OpenCmd
<1>11. CASE WriteCmd
  BY <1>11 DEF WriteCmd
<1>12. CASE WriteGo
  BY <1>12 DEF WriteGo
<1>13. CASE PollSees
  BY <1>13 DEF PollSees
<1>14. CASE PollMisses
  BY <1>14 DEF PollMisses
<1>15. CASE CheckAlive
  BY <1>15 DEF CheckAlive
<1>16. CASE CheckDead
  BY <1>16 DEF CheckDead, AfterRaise
<1>17. CASE Timeout
  BY <1>17 DEF Timeout, AfterRaise, Answerable
<1>18. CASE ReadStatus
  BY <1>18 DEF ReadStatus
<1>19. CASE ReadLogFail
  BY <1>19 DEF ReadLogFail, AfterRaise
<1>20. CASE ReadLogOk
  BY <1>20 DEF ReadLogOk
<1>21. CASE ReadOut
  BY <1>21 DEF ReadOut
<1>22. CASE Terminate
  BY <1>22 DEF Terminate
<1>23. CASE WSeeGo /\ UNCHANGED hostVars
  BY <1>23 DEF WSeeGo, hostVars
<1>24. CASE WReadNothing /\ UNCHANGED hostVars
  BY <1>24 DEF WReadNothing, hostVars
<1>25. CASE WReadQuit /\ UNCHANGED hostVars
  BY <1>25 DEF WReadQuit, hostVars
<1>26. CASE WReadJob /\ UNCHANGED hostVars
  <2>1. cmd = cur /\ cur \in Jobs /\ runs[cur] = 0 /\ cur < next
    BY <1>26 DEF WReadJob
  <2>2. runs' = [runs EXCEPT ![cur] = 1]
    BY <1>26, <2>1 DEF WReadJob
  <2>3. \A j \in Jobs : runs'[j] = IF j = cur THEN 1 ELSE runs[j]
    BY <2>2
  <2>4. AtMostOnce'
    BY <2>3
  <2>5. InvPhase'
    BY <1>26, <2>1, <2>3 DEF WReadJob, hostVars
  <2>6. QED
    BY <1>26, <2>1, <2>4, <2>5 DEF WReadJob, hostVars
<1>27. CASE WRunFails /\ UNCHANGED hostVars
  BY <1>27 DEF WRunFails, hostVars
<1>28. CASE WRunComputes /\ UNCHANGED hostVars
  BY <1>28 DEF WRunComputes, hostVars
<1>29. CASE WRunWrites /\ UNCHANGED hostVars
  BY <1>29 DEF WRunWrites, hostVars
<1>30. CASE WWriteLog /\ UNCHANGED hostVars
  BY <1>30 DEF WWriteLog, hostVars
<1>31. CASE WOpenStatus /\ UNCHANGED hostVars
  BY <1>31 DEF WOpenStatus, hostVars
<1>32. CASE WCloseStatus /\ UNCHANGED hostVars
  BY <1>32 DEF WCloseStatus, hostVars
<1>33. CASE WUnlinkGo /\ UNCHANGED hostVars
  BY <1>33 DEF WUnlinkGo, hostVars
<1>34. CASE WCrash /\ UNCHANGED hostVars
  BY <1>34 DEF WCrash, hostVars
<1>35. CASE UNCHANGED vars
  BY <1>35 DEF vars, hostVars
<1>36. QED
  BY <1>1, <1>2, <1>3, <1>4, <1>5, <1>6, <1>7, <1>8, <1>9, <1>10, <1>11,
     <1>12, <1>13, <1>14, <1>15, <1>16, <1>17, <1>18, <1>19, <1>20, <1>21,
     <1>22, <1>23, <1>24, <1>25, <1>26, <1>27, <1>28, <1>29, <1>30, <1>31,
     <1>32, <1>33, <1>34, <1>35
     DEF Next, HostStep, WorkerStep, Finished

LEMMA SafetyInv == ASSUME "slow" \notin Faults PROVE Spec => [](TypeInv /\ IInv)
<1>1. Init => TypeInv /\ IInv
  BY TypeInvInit, IInvInit
<1>2. (TypeInv /\ IInv) /\ [Next]_vars => (TypeInv /\ IInv)'
  BY TypeInvNext, IInvNext
<1>3. QED
  BY <1>1, <1>2, PTL DEF Spec

(* Every answer the host takes for a command's was written by the run of   *)
(* that very command (the unlinks of _submit_raw), for workers that may    *)
(* crash or fail to write, as long as no job outlasts the wait for it.     *)
THEOREM AnswerOwned == ASSUME "slow" \notin Faults PROVE Spec => []AnswerIsOwn
<1>1. IInv => AnswerIsOwn
  BY DEF IInv
<1>2. QED
  BY SafetyInv, <1>1, PTL

(* On the same assumption no job runs twice ...                            *)
THEOREM RunAtMostOnce == ASSUME "slow" \notin Faults PROVE Spec => []AtMostOnce
<1>1. IInv => AtMostOnce
  BY DEF IInv
<1>2. QED
  BY SafetyInv, <1>1, PTL

(* ... and the worker only opens job.cmd when the host has finished it and *)
(* waits (the order of job.cmd and job.go in _submit_raw).                 *)
THEOREM CommandIntact == ASSUME "slow" \notin Faults PROVE Spec => []NoTornCommand
<1>1. IInv => NoTornCommand
  BY DEF IInv, InvWorking, InvCleared, Working, Polling, NoTornCommand
<1>2. QED
  BY SafetyInv, <1>1, PTL

-----------------------------------------------------------------------------
(* The steps that touch a result: the caller's hand-over and its reading,  *)
(* and the worker's run.                                                   *)
ResultStep ==
  \/ SubmitJob \/ ReadOut
  \/ (WReadJob \/ WRunFails \/ WRunComputes \/ WRunWrites) /\ UNCHANGED hostVars

(* Every other step leaves operands, results and verdicts alone, and takes *)
(* the worker out of a run if it moves it at all.                          *)
LEMMA OtherSteps ==
  ASSUME [Next]_vars, ~ResultStep
  PROVE  /\ UNCHANGED <<inp, out, runs, got, verdict>>
         /\ wpc' \notin {"run", "out"} \/ UNCHANGED <<wpc, wjob, wdata>>
<1> USE DEF dirVars, workerVars, hostVars
<1>1. CASE HostStep
  BY <1>1 DEF HostStep, ResultStep, Start, StartReturns, SubmitQuit, ClearStatus,
     CheckGo, ClearGo, GoVanished, ClearLog, OpenCmd, WriteCmd, WriteGo,
     PollSees, PollMisses, CheckAlive,
     CheckDead, Timeout, ReadStatus, ReadLogFail, ReadLogOk, Terminate
<1>2. CASE (WorkerStep \/ WCrash) /\ UNCHANGED hostVars
  BY <1>2 DEF WorkerStep, ResultStep, WSeeGo, WReadNothing, WReadQuit, WWriteLog,
     WOpenStatus, WCloseStatus, WUnlinkGo, WCrash
<1>3. CASE UNCHANGED vars
  BY <1>3 DEF vars
<1>4. QED
  BY <1>1, <1>2, <1>3 DEF Next, Finished

(* With a result file per job, no file is ever of another job, and a job   *)
(* whose result there is has run.                                          *)
InvOwn ==
  /\ \A j \in Jobs : inp[j] \in {j, NoJob} /\ out[j] \in {j, NoJob}
  /\ \A j \in Jobs : out[j] # NoJob => runs[j] >= 1
  /\ wpc \in {"run", "out"} => runs[wjob] >= 1
  /\ wpc = "out" => wdata = wjob
  /\ DeliveredIsOwn

LEMMA InvOwnNext ==
  ASSUME SharedFiles = FALSE, TypeInv, InvOwn, [Next]_vars
  PROVE  InvOwn'
<1> USE Ranges
    DEF TypeInv, HostTypeOK, CurOK, WorkerOK, ControlDirTypeOK,
        InvOwn, DeliveredIsOwn, Slot, hostVars
<1>1. CASE SubmitJob
  BY <1>1 DEF SubmitJob, workerVars
<1>2. CASE ReadOut
  BY <1>2 DEF ReadOut, dirVars, workerVars
<1>3. CASE WReadJob /\ UNCHANGED hostVars
  BY <1>3 DEF WReadJob, dirVars
<1>4. CASE WRunFails /\ UNCHANGED hostVars
  BY <1>4 DEF WRunFails, dirVars
<1>5. CASE WRunComputes /\ UNCHANGED hostVars
  BY <1>5 DEF WRunComputes
<1>6. CASE WRunWrites /\ UNCHANGED hostVars
  BY <1>6 DEF WRunWrites
<1>7. CASE ~ResultStep
  BY <1>7, OtherSteps
<1>8. QED
  BY <1>1, <1>2, <1>3, <1>4, <1>5, <1>6, <1>7 DEF ResultStep

(* What a caller decodes is its own job's result, whatever fails, late     *)
(* jobs and late answers included: each job has a result file of its own.  *)
THEOREM DeliveredOwn == ASSUME SharedFiles = FALSE PROVE Spec => []DeliveredIsOwn
<1>1. Init => TypeInv /\ InvOwn
  BY TypeInvInit, Ranges DEF Init, ControlDirInit, InvOwn, DeliveredIsOwn
<1>2. (TypeInv /\ InvOwn) /\ [Next]_vars => (TypeInv /\ InvOwn)'
  BY TypeInvNext, InvOwnNext
<1>3. TypeInv /\ InvOwn => DeliveredIsOwn
  BY DEF InvOwn
<1>4. QED
  BY <1>1, <1>2, <1>3, PTL DEF Spec

-----------------------------------------------------------------------------
(* A job that has a result was done, and one that is in its run has none.  *)
InvDone ==
  /\ \A j \in Jobs : out[j] # NoJob => verdict[j] = "DONE"
  /\ wpc \in {"run", "out"} => out[wjob] = NoJob /\ got[wjob] = NoJob
  /\ DeliveredWasDone

LEMMA InvDoneNext ==
  ASSUME "slow" \notin Faults, SharedFiles = FALSE,
         TypeInv, IInv, InvOwn, InvDone, [Next]_vars
  PROVE  InvDone'
<1> USE Ranges
    DEF TypeInv, HostTypeOK, CurOK, WorkerOK, ControlDirTypeOK, InvOwn, DeliveredIsOwn,
        InvDone, DeliveredWasDone, Slot, hostVars
<1>1. CASE SubmitJob
  BY <1>1 DEF SubmitJob, workerVars
<1>2. CASE ReadOut
  BY <1>2 DEF ReadOut, dirVars, workerVars, IInv, InvWorking, Working
<1>3. CASE WReadJob /\ UNCHANGED hostVars
  <2>1. cmd \in Jobs /\ runs[cmd] = 0
    BY <1>3 DEF WReadJob, IInv, InvWorking, InvCleared, Working, Polling
  <2>2. QED
    BY <1>3, <2>1 DEF WReadJob, dirVars
<1>4. CASE WRunFails /\ UNCHANGED hostVars
  BY <1>4 DEF WRunFails, dirVars
<1>5. CASE WRunComputes /\ UNCHANGED hostVars
  BY <1>5 DEF WRunComputes
<1>6. CASE WRunWrites /\ UNCHANGED hostVars
  BY <1>6 DEF WRunWrites
<1>7. CASE ~ResultStep
  BY <1>7, OtherSteps
<1>8. QED
  BY <1>1, <1>2, <1>3, <1>4, <1>5, <1>6, <1>7 DEF ResultStep

(* A job whose run failed never yields a decodable result, whatever        *)
(* _submit_raw made of the status it found.                                *)
THEOREM DeliveredDone ==
  ASSUME "slow" \notin Faults, SharedFiles = FALSE
  PROVE  Spec => []DeliveredWasDone
<1> DEFINE I == TypeInv /\ IInv /\ InvOwn /\ InvDone
<1>1. Init => I
  BY TypeInvInit, IInvInit, Ranges
     DEF Init, ControlDirInit, InvOwn, InvDone, DeliveredIsOwn, DeliveredWasDone
<1>2. I /\ [Next]_vars => I'
  BY TypeInvNext, IInvNext, InvOwnNext, InvDoneNext
<1>3. I => DeliveredWasDone
  BY DEF InvDone
<1>4. QED
  BY <1>1, <1>2, <1>3, PTL DEF Spec

-----------------------------------------------------------------------------
(* The job being submitted is the last one handed over, and it has no      *)
(* reply yet; QUIT is never followed by another command.                   *)
InvCur ==
  /\ cur # Quit => cur + 1 = next
  /\ hpc \in {"new", "starting", "idle", "readOut"} => cur # Quit
  /\ hpc = "term" => cur = Quit
  /\ \A j \in Jobs : j >= next => raw[j] = "none"
  /\ hpc \in Submitting \cup Polling => raw[cur] = "none"
  /\ cur # Quit => raw[Quit] = "none"
  /\ hpc \in {"new", "starting"} => cur = NoJob
  /\ hpc = "readOut" => raw[cur] = "ok"

(* A job.go that vanished under the host took the worker back to its wait  *)
(* loop (or it died).  After a lost job the worker is there as well, with  *)
(* no job.go: the next submission finds none to remove, and the job.go it  *)
(* writes stays until the worker has read it.                              *)
InvLost ==
  /\ hpc = "unlGo" /\ ~go => wpc \in {"wait", "dead"}
  /\ hpc = "idle" /\ cur \in Jobs /\ Lost(cur) => wpc \in {"wait", "dead"} /\ ~go
  /\ \A j \in Jobs : j + 1 = cur /\ cur \in Jobs /\ Lost(j) =>
       /\ hpc \in Submitting => wpc \in {"wait", "dead"} /\ ~go /\ hpc # "unlGo"
       /\ hpc \in Polling /\ runs[cur] = 0 => wpc \in {"wait", "read", "dead"} /\ go
  /\ NeverLostTwice

LEMMA InvCurNext == ASSUME TypeInv, InvCur, [Next]_vars PROVE InvCur'
<1> USE Ranges
    DEF TypeInv, HostTypeOK, CurOK, HostPc, Submitting, Polling, Quit, Cmds, Jobs, InvCur,
        hostVars
<1>1. CASE Start
  BY <1>1 DEF Start
<1>2. CASE StartReturns
  BY <1>2 DEF StartReturns
<1>3. CASE SubmitJob
  BY <1>3 DEF SubmitJob
<1>4. CASE SubmitQuit
  BY <1>4 DEF SubmitQuit
<1>5. CASE ClearStatus
  BY <1>5 DEF ClearStatus
<1>6. CASE CheckGo
  BY <1>6 DEF CheckGo
<1>7. CASE ClearGo
  BY <1>7 DEF ClearGo
<1>8. CASE GoVanished
  BY <1>8 DEF GoVanished, AfterRaise
<1>9. CASE ClearLog
  BY <1>9 DEF ClearLog
<1>10. CASE OpenCmd
  BY <1>10 DEF OpenCmd
<1>11. CASE WriteCmd
  BY <1>11 DEF WriteCmd
<1>12. CASE WriteGo
  BY <1>12 DEF WriteGo
<1>13. CASE PollSees
  BY <1>13 DEF PollSees
<1>14. CASE PollMisses
  BY <1>14 DEF PollMisses
<1>15. CASE CheckAlive
  BY <1>15 DEF CheckAlive
<1>16. CASE CheckDead
  BY <1>16 DEF CheckDead, AfterRaise
<1>17. CASE Timeout
  BY <1>17 DEF Timeout, AfterRaise, Answerable
<1>18. CASE ReadStatus
  BY <1>18 DEF ReadStatus
<1>19. CASE ReadLogFail
  BY <1>19 DEF ReadLogFail, AfterRaise
<1>20. CASE ReadLogOk
  BY <1>20 DEF ReadLogOk
<1>21. CASE ReadOut
  BY <1>21 DEF ReadOut
<1>22. CASE Terminate
  BY <1>22 DEF Terminate
<1>23. CASE WSeeGo /\ UNCHANGED hostVars
  BY <1>23 DEF WSeeGo
<1>24. CASE WReadNothing /\ UNCHANGED hostVars
  BY <1>24 DEF WReadNothing
<1>25. CASE WReadQuit /\ UNCHANGED hostVars
  BY <1>25 DEF WReadQuit
<1>26. CASE WReadJob /\ UNCHANGED hostVars
  BY <1>26 DEF WReadJob
<1>27. CASE WRunFails /\ UNCHANGED hostVars
  BY <1>27 DEF WRunFails
<1>28. CASE WRunComputes /\ UNCHANGED hostVars
  BY <1>28 DEF WRunComputes
<1>29. CASE WRunWrites /\ UNCHANGED hostVars
  BY <1>29 DEF WRunWrites
<1>30. CASE WWriteLog /\ UNCHANGED hostVars
  BY <1>30 DEF WWriteLog
<1>31. CASE WOpenStatus /\ UNCHANGED hostVars
  BY <1>31 DEF WOpenStatus
<1>32. CASE WCloseStatus /\ UNCHANGED hostVars
  BY <1>32 DEF WCloseStatus
<1>33. CASE WUnlinkGo /\ UNCHANGED hostVars
  BY <1>33 DEF WUnlinkGo
<1>34. CASE WCrash /\ UNCHANGED hostVars
  BY <1>34 DEF WCrash
<1>35. CASE UNCHANGED vars
  BY <1>35 DEF vars
<1>36. QED
  BY <1>1, <1>2, <1>3, <1>4, <1>5, <1>6, <1>7, <1>8, <1>9, <1>10, <1>11,
     <1>12, <1>13, <1>14, <1>15, <1>16, <1>17, <1>18, <1>19, <1>20, <1>21,
     <1>22, <1>23, <1>24, <1>25, <1>26, <1>27, <1>28, <1>29, <1>30, <1>31,
     <1>32, <1>33, <1>34, <1>35
     DEF Next, HostStep, WorkerStep, Finished

LEMMA InvLostNext ==
  ASSUME "slow" \notin Faults, TypeInv, IInv, InvCur, InvLost, [Next]_vars
  PROVE  InvLost'
<1> USE Ranges
    DEF TypeInv, HostTypeOK, CurOK, WorkerOK, ControlDirTypeOK,
        HostPc, WorkerPc, Submitting, Polling, Working,
        IInv, InvPhase, InvWorking, InvWaitGo, InvCleared, InvHandle, AtMostOnce,
        InvCur, InvLost, Lost, NeverLostTwice, dirVars, workerVars, hostVars
<1>1. CASE Start
  BY <1>1 DEF Start
<1>2. CASE StartReturns
  BY <1>2 DEF StartReturns
<1>3. CASE SubmitJob
  BY <1>3 DEF SubmitJob
<1>4. CASE SubmitQuit
  BY <1>4 DEF SubmitQuit
<1>5. CASE ClearStatus
  BY <1>5 DEF ClearStatus
<1>6. CASE CheckGo
  BY <1>6 DEF CheckGo
<1>7. CASE ClearGo
  BY <1>7 DEF ClearGo
<1>8. CASE GoVanished
  <2>1. /\ hpc = "unlGo" /\ wpc \in {"wait", "dead"} /\ ~go
        /\ raw' = [raw EXCEPT ![cur] = "gone"] /\ hpc' \in {"term", "idle"}
        /\ UNCHANGED <<wpc, go, runs, cur, next>>
    BY <1>8 DEF GoVanished, AfterRaise
  <2>2. ASSUME NEW j \in Jobs, j + 1 \in Jobs, Lost(j)', Lost(j + 1)'
        PROVE  FALSE
    <3>1. CASE j + 1 = cur
      BY <2>1, <2>2, <3>1
    <3>2. CASE j = cur
      BY <2>1, <2>2, <3>2
    <3>3. CASE j # cur /\ j + 1 # cur
      BY <2>1, <2>2, <3>3
    <3>4. QED
      BY <3>1, <3>2, <3>3
  <2>3. NeverLostTwice'
    BY <2>1, <2>2
  <2>4. QED
    BY <2>1, <2>3
<1>9. CASE ClearLog
  BY <1>9 DEF ClearLog
<1>10. CASE OpenCmd
  BY <1>10 DEF OpenCmd
<1>11. CASE WriteCmd
  BY <1>11 DEF WriteCmd
<1>12. CASE WriteGo
  BY <1>12 DEF WriteGo
<1>13. CASE PollSees
  BY <1>13 DEF PollSees
<1>14. CASE PollMisses
  BY <1>14 DEF PollMisses
<1>15. CASE CheckAlive
  BY <1>15 DEF CheckAlive
<1>16. CASE CheckDead
  BY <1>16 DEF CheckDead, AfterRaise
<1>17. CASE Timeout
  <2>1. /\ hpc = "poll" /\ wpc \in {"wait", "dead"} /\ ~go
        /\ raw' = [raw EXCEPT ![cur] = "timeout"] /\ hpc' \in {"term", "idle"}
        /\ UNCHANGED <<wpc, go, runs, cur>>
    BY <1>17 DEF Timeout, AfterRaise, Answerable
  <2>2. ASSUME NEW j \in Jobs, j + 1 \in Jobs, Lost(j)', Lost(j + 1)'
        PROVE  FALSE
    <3>1. CASE j + 1 = cur
      <4>1. Lost(j) /\ cur \in Jobs
        BY <2>1, <2>2, <3>1
      <4>2. runs[cur] # 0
        BY <2>1, <4>1, <3>1
      <4>3. QED
        BY <2>1, <2>2, <4>2, <3>1
    <3>2. CASE j = cur
      <4>1. j + 1 = next
        BY <2>2, <3>2
      <4>2. raw'[j + 1] = "none"
        BY <2>1, <2>2, <4>1, <3>2
      <4>3. QED
        BY <2>2, <4>2
    <3>3. CASE j # cur /\ j + 1 # cur
      BY <2>1, <2>2, <3>3
    <3>4. QED
      BY <3>1, <3>2, <3>3
  <2>3. NeverLostTwice'
    BY <2>1, <2>2
  <2>4. QED
    BY <2>1, <2>3
<1>18. CASE ReadStatus
  BY <1>18 DEF ReadStatus
<1>19. CASE ReadLogFail
  BY <1>19 DEF ReadLogFail, AfterRaise
<1>20. CASE ReadLogOk
  BY <1>20 DEF ReadLogOk
<1>21. CASE ReadOut
  BY <1>21 DEF ReadOut
<1>22. CASE Terminate
  BY <1>22 DEF Terminate
<1>23. CASE WSeeGo /\ UNCHANGED hostVars
  BY <1>23 DEF WSeeGo
<1>24. CASE WReadNothing /\ UNCHANGED hostVars
  BY <1>24 DEF WReadNothing
<1>25. CASE WReadQuit /\ UNCHANGED hostVars
  BY <1>25 DEF WReadQuit
<1>26. CASE WReadJob /\ UNCHANGED hostVars
  BY <1>26 DEF WReadJob
<1>27. CASE WRunFails /\ UNCHANGED hostVars
  BY <1>27 DEF WRunFails
<1>28. CASE WRunComputes /\ UNCHANGED hostVars
  BY <1>28 DEF WRunComputes
<1>29. CASE WRunWrites /\ UNCHANGED hostVars
  BY <1>29 DEF WRunWrites
<1>30. CASE WWriteLog /\ UNCHANGED hostVars
  BY <1>30 DEF WWriteLog
<1>31. CASE WOpenStatus /\ UNCHANGED hostVars
  BY <1>31 DEF WOpenStatus
<1>32. CASE WCloseStatus /\ UNCHANGED hostVars
  BY <1>32 DEF WCloseStatus
<1>33. CASE WUnlinkGo /\ UNCHANGED hostVars
  BY <1>33 DEF WUnlinkGo
<1>34. CASE WCrash /\ UNCHANGED hostVars
  BY <1>34 DEF WCrash
<1>35. CASE UNCHANGED vars
  BY <1>35 DEF vars
<1>36. QED
  BY <1>1, <1>2, <1>3, <1>4, <1>5, <1>6, <1>7, <1>8, <1>9, <1>10, <1>11,
     <1>12, <1>13, <1>14, <1>15, <1>16, <1>17, <1>18, <1>19, <1>20, <1>21,
     <1>22, <1>23, <1>24, <1>25, <1>26, <1>27, <1>28, <1>29, <1>30, <1>31,
     <1>32, <1>33, <1>34, <1>35
     DEF Next, HostStep, WorkerStep, Finished

(* The late unlink of job.go never costs two jobs in a row, be it that     *)
(* their job.go goes unseen or that an old one vanishes under the host.    *)
THEOREM LostAtMostOnce == ASSUME "slow" \notin Faults PROVE Spec => []NeverLostTwice
<1> DEFINE I == TypeInv /\ IInv /\ InvCur /\ InvLost
<1>1. Init => I
  BY TypeInvInit, IInvInit, Ranges
     DEF Init, InvCur, InvLost, Lost, NeverLostTwice, Submitting, Polling, NoJob, Quit
<1>2. I /\ [Next]_vars => I'
  BY TypeInvNext, IInvNext, InvCurNext, InvLostNext
<1>3. I => NeverLostTwice
  BY DEF InvLost
<1>4. QED
  BY <1>1, <1>2, <1>3, PTL DEF Spec

-----------------------------------------------------------------------------
(* Before a job has run it has no verdict, and from the end of its run to  *)
(* the host's reading job.status everything on the way agrees with it.     *)
InvVerdict ==
  /\ \A j \in Jobs : runs[j] = 0 => verdict[j] = "none"
  /\ wpc \in {"run", "out"} => verdict[wjob] = "none" /\ runs[wjob] # 0
  /\ wpc \in {"log", "status"} /\ cur \in Jobs => verdict[cur] = wrc
  /\ cur \in Jobs /\ hpc \in Polling =>
       /\ handle = "linked" => verdict[cur] = wrc
       /\ status # "none" => verdict[cur] # "none" /\ status \in {"empty", verdict[cur]}
       /\ hpc = "readLog" => verdict[cur] # "none" /\ seen \in {"empty", verdict[cur]}

LEMMA InvVerdictNext ==
  ASSUME "slow" \notin Faults, TypeInv, IInv, InvVerdict, [Next]_vars
  PROVE  InvVerdict'
<1> USE Ranges
    DEF TypeInv, HostTypeOK, CurOK, WorkerOK, ControlDirTypeOK,
        HostPc, WorkerPc, Submitting, Polling, Working,
        IInv, InvPhase, InvWorking, InvWaitGo, InvCleared, InvHandle, InvAnswer,
        InvVerdict, dirVars, workerVars, hostVars
<1>1. CASE Start
  BY <1>1 DEF Start
<1>2. CASE StartReturns
  BY <1>2 DEF StartReturns
<1>3. CASE SubmitJob
  BY <1>3 DEF SubmitJob
<1>4. CASE SubmitQuit
  BY <1>4 DEF SubmitQuit
<1>5. CASE ClearStatus
  BY <1>5 DEF ClearStatus
<1>6. CASE CheckGo
  BY <1>6 DEF CheckGo
<1>7. CASE ClearGo
  BY <1>7 DEF ClearGo
<1>8. CASE GoVanished
  BY <1>8 DEF GoVanished, AfterRaise
<1>9. CASE ClearLog
  BY <1>9 DEF ClearLog
<1>10. CASE OpenCmd
  BY <1>10 DEF OpenCmd
<1>11. CASE WriteCmd
  BY <1>11 DEF WriteCmd
<1>12. CASE WriteGo
  BY <1>12 DEF WriteGo
<1>13. CASE PollSees
  BY <1>13 DEF PollSees
<1>14. CASE PollMisses
  BY <1>14 DEF PollMisses
<1>15. CASE CheckAlive
  BY <1>15 DEF CheckAlive
<1>16. CASE CheckDead
  BY <1>16 DEF CheckDead, AfterRaise
<1>17. CASE Timeout
  BY <1>17 DEF Timeout, AfterRaise
<1>18. CASE ReadStatus
  BY <1>18 DEF ReadStatus
<1>19. CASE ReadLogFail
  BY <1>19 DEF ReadLogFail, AfterRaise
<1>20. CASE ReadLogOk
  BY <1>20 DEF ReadLogOk
<1>21. CASE ReadOut
  BY <1>21 DEF ReadOut
<1>22. CASE Terminate
  BY <1>22 DEF Terminate
<1>23. CASE WSeeGo /\ UNCHANGED hostVars
  BY <1>23 DEF WSeeGo
<1>24. CASE WReadNothing /\ UNCHANGED hostVars
  BY <1>24 DEF WReadNothing
<1>25. CASE WReadQuit /\ UNCHANGED hostVars
  BY <1>25 DEF WReadQuit
<1>26. CASE WReadJob /\ UNCHANGED hostVars
  BY <1>26 DEF WReadJob
<1>27. CASE WRunFails /\ UNCHANGED hostVars
  BY <1>27 DEF WRunFails
<1>28. CASE WRunComputes /\ UNCHANGED hostVars
  BY <1>28 DEF WRunComputes
<1>29. CASE WRunWrites /\ UNCHANGED hostVars
  BY <1>29 DEF WRunWrites
<1>30. CASE WWriteLog /\ UNCHANGED hostVars
  BY <1>30 DEF WWriteLog
<1>31. CASE WOpenStatus /\ UNCHANGED hostVars
  BY <1>31 DEF WOpenStatus
<1>32. CASE WCloseStatus /\ UNCHANGED hostVars
  BY <1>32 DEF WCloseStatus
<1>33. CASE WUnlinkGo /\ UNCHANGED hostVars
  BY <1>33 DEF WUnlinkGo
<1>34. CASE WCrash /\ UNCHANGED hostVars
  BY <1>34 DEF WCrash
<1>35. CASE UNCHANGED vars
  BY <1>35 DEF vars
<1>36. QED
  BY <1>1, <1>2, <1>3, <1>4, <1>5, <1>6, <1>7, <1>8, <1>9, <1>10, <1>11,
     <1>12, <1>13, <1>14, <1>15, <1>16, <1>17, <1>18, <1>19, <1>20, <1>21,
     <1>22, <1>23, <1>24, <1>25, <1>26, <1>27, <1>28, <1>29, <1>30, <1>31,
     <1>32, <1>33, <1>34, <1>35
     DEF Next, HostStep, WorkerStep, Finished

(* The channel's view at the two ends of a submission: what the host's     *)
(* place in its code says of the phase, and what ends a job ends its reply.*)
PhaseFacts ==
  /\ hpc \in {"new", "starting", "idle", "readOut"} => ChannelPhase = "idle"
  /\ hpc \in Submitting \cup Polling /\ cur # Quit => ChannelPhase = "waiting"
  /\ hpc \in {"term", "stopped", "broken"} => ChannelPhase = "closed"
  /\ hpc \in Submitting \cup Polling /\ cur = Quit => ChannelPhase = "closed"
  /\ cur \in Jobs => next - 1 = cur

LEMMA PhaseIs == ASSUME TypeInv, InvCur PROVE PhaseFacts
<1> USE DEF PhaseFacts, ChannelPhase, Submitting, Polling
<1>1. cur \in Jobs => next - 1 = cur
  BY Ranges DEF TypeInv, HostTypeOK, InvCur, Jobs, Cmds, Quit
<1>2. CASE hpc \in {"new", "starting", "idle", "readOut"}
  BY <1>1, <1>2
<1>3. CASE hpc \in Submitting \cup Polling /\ cur # Quit
  BY <1>1, <1>3
<1>4. CASE hpc \in {"term", "stopped", "broken"}
  BY <1>1, <1>4
<1>5. CASE hpc \in Submitting \cup Polling /\ cur = Quit
  BY <1>1, <1>5
<1>6. QED
  BY <1>2, <1>3, <1>4, <1>5 DEF TypeInv, HostTypeOK, HostPc

LEMMA ReplyIs ==
  ASSUME TypeInv, NEW r \in {"ok", "fail", "died", "timeout", "gone"},
         raw' = [raw EXCEPT ![cur] = r], cur \in Jobs
  PROVE  ChannelReply' = [ChannelReply EXCEPT ![cur] =
                             IF r \in {"died", "timeout", "gone"} THEN "lost" ELSE r]
  BY Ranges DEF TypeInv, HostTypeOK, ChannelReply

(* QUIT is no job: how its submission ends is no reply.                    *)
LEMMA QuitIsNoReply ==
  ASSUME TypeInv, NEW r, raw' = [raw EXCEPT ![Quit] = r]
  PROVE  ChannelReply' = ChannelReply
  BY Ranges DEF TypeInv, HostTypeOK, ChannelReply

LEMMA PhaseIsNext == ASSUME TypeInv, InvCur, [Next]_vars PROVE PhaseFacts'
<1>1. TypeInv' /\ InvCur'
  BY TypeInvNext, InvCurNext
<1> USE DEF PhaseFacts, ChannelPhase, Submitting, Polling
<1>2. cur' \in Jobs => next' - 1 = cur'
  <2>1. cur' # Quit => cur' + 1 = next'
    BY <1>1 DEF InvCur
  <2>2. QED
    BY <2>1, ConstantsAssumption DEF Jobs, Quit
<1>3. CASE hpc' \in {"new", "starting", "idle", "readOut"}
  BY <1>2, <1>3
<1>4. CASE hpc' \in Submitting \cup Polling /\ cur' # Quit
  BY <1>2, <1>4
<1>5. CASE hpc' \in {"term", "stopped", "broken"}
  BY <1>2, <1>5
<1>6. CASE hpc' \in Submitting \cup Polling /\ cur' = Quit
  BY <1>2, <1>6
<1>7. QED
  BY <1>1, <1>3, <1>4, <1>5, <1>6 DEF TypeInv, HostTypeOK, HostPc

RefInv == TypeInv /\ IInv /\ InvCur /\ InvVerdict

(* Each step of the pool is a step of the channel or leaves it as it is:   *)
(* the caller's hand-over submits, the end of the worker's run runs, the   *)
(* last read of _submit_raw replies, its exceptions lose the job, and      *)
(* stop(), or a start that raises, closes.                                 *)
LEMMA ChannelStep ==
  ASSUME "slow" \notin Faults, RefInv, [Next]_vars
  PROVE  [Channel!Next]_(Channel!channelVars)
<1> USE Ranges
    DEF RefInv, TypeInv, HostTypeOK, CurOK, WorkerOK, ControlDirTypeOK, Submitting, Polling,
        Working, dirVars, workerVars, hostVars, Channel!channelVars, Channel!Next
<1>0. PhaseFacts /\ PhaseFacts'
  BY PhaseIs, PhaseIsNext
<1>1. CASE Start
  BY <1>1 DEF Start, ChannelPhase, ChannelReply
<1>2. CASE StartReturns
  BY <1>2 DEF StartReturns, ChannelPhase, ChannelReply, Channel!Close
<1>3. CASE SubmitJob
  <2>1. ChannelPhase = "idle" /\ ChannelPhase' = "waiting"
    BY <1>0, <1>3 DEF SubmitJob, PhaseFacts
  <2>2. next \in Jobs /\ next' = next + 1 /\ UNCHANGED <<verdict, ChannelReply>>
    BY <1>3 DEF SubmitJob, ChannelReply
  <2>3. next - 1 < NJobs /\ next' - 1 = (next - 1) + 1
    BY <2>2, ConstantsAssumption DEF Jobs
  <2>4. QED
    BY <2>1, <2>2, <2>3 DEF Channel!Submit
<1>4. CASE SubmitQuit
  BY <1>4 DEF SubmitQuit, ChannelPhase, ChannelReply, Channel!Close
<1>5. CASE ClearStatus
  BY <1>5 DEF ClearStatus, ChannelPhase, ChannelReply
<1>6. CASE CheckGo
  BY <1>6 DEF CheckGo, ChannelPhase, ChannelReply
<1>7. CASE ClearGo
  BY <1>7 DEF ClearGo, ChannelPhase, ChannelReply
<1>8. CASE GoVanished
  <2>1. CASE cur = Quit
    <3>1. ChannelReply' = ChannelReply
      BY <1>8, <2>1, QuitIsNoReply DEF GoVanished
    <3>2. ChannelPhase = "closed" /\ ChannelPhase' = "closed"
      BY <1>8, <2>1, <1>0 DEF GoVanished, PhaseFacts, AfterRaise
    <3>3. QED
      BY <1>8, <3>1, <3>2 DEF GoVanished
  <2>2. CASE cur # Quit
    <3>1. cur \in Jobs /\ next - 1 = cur
      BY <1>8, <2>2, <1>0 DEF PhaseFacts, GoVanished
    <3>2. ChannelReply' = [ChannelReply EXCEPT ![cur] = "lost"]
      BY <1>8, <3>1, ReplyIs DEF GoVanished
    <3>3. ChannelPhase = "waiting" /\ ChannelPhase' = "idle"
      BY <1>8, <2>2, <1>0 DEF GoVanished, PhaseFacts, AfterRaise
    <3>4. UNCHANGED <<next, verdict>>
      BY <1>8 DEF GoVanished
    <3>5. QED
      BY <3>1, <3>2, <3>3, <3>4 DEF Channel!Lose
  <2>3. QED
    BY <2>1, <2>2
<1>9. CASE ClearLog
  BY <1>9 DEF ClearLog, ChannelPhase, ChannelReply
<1>10. CASE OpenCmd
  BY <1>10 DEF OpenCmd, ChannelPhase, ChannelReply
<1>11. CASE WriteCmd
  BY <1>11 DEF WriteCmd, ChannelPhase, ChannelReply
<1>12. CASE WriteGo
  BY <1>12 DEF WriteGo, ChannelPhase, ChannelReply
<1>13. CASE PollSees
  BY <1>13 DEF PollSees, ChannelPhase, ChannelReply
<1>14. CASE PollMisses
  BY <1>14 DEF PollMisses, ChannelPhase, ChannelReply
<1>15. CASE CheckAlive
  BY <1>15 DEF CheckAlive, ChannelPhase, ChannelReply
<1>16. CASE CheckDead
  <2>1. CASE cur = Quit
    <3>1. ChannelReply' = ChannelReply
      BY <1>16, <2>1, QuitIsNoReply DEF CheckDead
    <3>2. ChannelPhase = "closed" /\ ChannelPhase' = "closed"
      BY <1>16, <2>1, <1>0 DEF CheckDead, PhaseFacts, AfterRaise
    <3>3. QED
      BY <1>16, <3>1, <3>2 DEF CheckDead
  <2>2. CASE cur # Quit
    <3>1. cur \in Jobs /\ next - 1 = cur
      BY <1>16, <2>2, <1>0 DEF PhaseFacts, CheckDead
    <3>2. ChannelReply' = [ChannelReply EXCEPT ![cur] = "lost"]
      BY <1>16, <3>1, ReplyIs DEF CheckDead
    <3>3. ChannelPhase = "waiting" /\ ChannelPhase' = "idle"
      BY <1>16, <2>2, <1>0 DEF CheckDead, PhaseFacts, AfterRaise
    <3>4. UNCHANGED <<next, verdict>>
      BY <1>16 DEF CheckDead
    <3>5. QED
      BY <3>1, <3>2, <3>3, <3>4 DEF Channel!Lose
  <2>3. QED
    BY <2>1, <2>2
<1>17. CASE Timeout
  <2>1. CASE cur = Quit
    <3>1. ChannelReply' = ChannelReply
      BY <1>17, <2>1, QuitIsNoReply DEF Timeout
    <3>2. ChannelPhase = "closed" /\ ChannelPhase' = "closed"
      BY <1>17, <2>1, <1>0 DEF Timeout, PhaseFacts, AfterRaise
    <3>3. QED
      BY <1>17, <3>1, <3>2 DEF Timeout
  <2>2. CASE cur # Quit
    <3>1. cur \in Jobs /\ next - 1 = cur
      BY <1>17, <2>2, <1>0 DEF PhaseFacts, Timeout
    <3>2. ChannelReply' = [ChannelReply EXCEPT ![cur] = "lost"]
      BY <1>17, <3>1, ReplyIs DEF Timeout
    <3>3. ChannelPhase = "waiting" /\ ChannelPhase' = "idle"
      BY <1>17, <2>2, <1>0 DEF Timeout, PhaseFacts, AfterRaise
    <3>4. UNCHANGED <<next, verdict>>
      BY <1>17 DEF Timeout
    <3>5. QED
      BY <3>1, <3>2, <3>3, <3>4 DEF Channel!Lose
  <2>3. QED
    BY <2>1, <2>2
<1>18. CASE ReadStatus
  BY <1>18 DEF ReadStatus, ChannelPhase, ChannelReply
<1>19. CASE ReadLogFail
  <2>1. CASE cur = Quit
    <3>1. ChannelReply' = ChannelReply
      BY <1>19, <2>1, QuitIsNoReply DEF ReadLogFail
    <3>2. ChannelPhase = "closed" /\ ChannelPhase' = "closed"
      BY <1>19, <2>1, <1>0 DEF ReadLogFail, PhaseFacts, AfterRaise
    <3>3. QED
      BY <1>19, <3>1, <3>2 DEF ReadLogFail
  <2>2. CASE cur # Quit
    <3>1. cur \in Jobs /\ next - 1 = cur
      BY <1>19, <2>2, <1>0 DEF PhaseFacts, ReadLogFail
    <3>2. ChannelReply' = [ChannelReply EXCEPT ![cur] = "fail"]
      BY <1>19, <3>1, ReplyIs DEF ReadLogFail
    <3>3. ChannelPhase = "waiting" /\ ChannelPhase' = "idle"
      BY <1>19, <2>2, <1>0 DEF ReadLogFail, PhaseFacts, AfterRaise
    <3>4. UNCHANGED <<next, verdict>>
      BY <1>19 DEF ReadLogFail
    <3>5. verdict[cur] = "FAIL"
      BY <1>19, <3>1 DEF ReadLogFail, InvVerdict
    <3>6. QED
      BY <3>1, <3>2, <3>3, <3>4, <3>5 DEF Channel!Reply, Channel!Honest
  <2>3. QED
    BY <2>1, <2>2
<1>20. CASE ReadLogOk
  <2>1. CASE cur = Quit
    <3>1. ChannelReply' = ChannelReply
      BY <1>20, <2>1, QuitIsNoReply DEF ReadLogOk
    <3>2. ChannelPhase = "closed" /\ ChannelPhase' = "closed"
      BY <1>20, <2>1, <1>0 DEF ReadLogOk, PhaseFacts, AfterRaise
    <3>3. QED
      BY <1>20, <3>1, <3>2 DEF ReadLogOk
  <2>2. CASE cur # Quit
    <3>1. cur \in Jobs /\ next - 1 = cur
      BY <1>20, <2>2, <1>0 DEF PhaseFacts, ReadLogOk
    <3>2. ChannelReply' = [ChannelReply EXCEPT ![cur] = "ok"]
      BY <1>20, <3>1, ReplyIs DEF ReadLogOk
    <3>3. ChannelPhase = "waiting" /\ ChannelPhase' = "idle"
      BY <1>20, <2>2, <1>0 DEF ReadLogOk, PhaseFacts, AfterRaise
    <3>4. UNCHANGED <<next, verdict>>
      BY <1>20 DEF ReadLogOk
    <3>5. verdict[cur] # "none"
      BY <1>20, <3>1 DEF ReadLogOk, InvVerdict
    <3>6. QED
      BY <3>1, <3>2, <3>3, <3>4, <3>5 DEF Channel!Reply
  <2>3. QED
    BY <2>1, <2>2
<1>21. CASE ReadOut
  BY <1>21 DEF ReadOut, ChannelPhase, ChannelReply
<1>22. CASE Terminate
  BY <1>22 DEF Terminate, ChannelPhase, ChannelReply, InvCur
<1>23. CASE WSeeGo /\ UNCHANGED hostVars
  BY <1>23 DEF WSeeGo, ChannelPhase, ChannelReply
<1>24. CASE WReadNothing /\ UNCHANGED hostVars
  BY <1>24 DEF WReadNothing, ChannelPhase, ChannelReply
<1>25. CASE WReadQuit /\ UNCHANGED hostVars
  BY <1>25 DEF WReadQuit, ChannelPhase, ChannelReply
<1>26. CASE WReadJob /\ UNCHANGED hostVars
  BY <1>26 DEF WReadJob, ChannelPhase, ChannelReply
<1>27. CASE WRunFails /\ UNCHANGED hostVars
  <2>1. cur = wjob /\ wjob \in Jobs /\ hpc \in Polling
    BY <1>27 DEF WRunFails, IInv, InvWorking
  <2>2. ChannelPhase = "waiting" /\ next - 1 = wjob
    BY <1>0, <2>1 DEF PhaseFacts
  <2>3. verdict[wjob] = "none" /\ verdict' = [verdict EXCEPT ![wjob] = "FAIL"]
    BY <1>27 DEF WRunFails, InvVerdict
  <2>4. UNCHANGED <<ChannelPhase, ChannelReply, next>>
    BY <1>27 DEF ChannelPhase, ChannelReply
  <2>5. QED
    BY <2>2, <2>3, <2>4 DEF Channel!Run
<1>28. CASE WRunComputes /\ UNCHANGED hostVars
  BY <1>28 DEF WRunComputes, ChannelPhase, ChannelReply
<1>29. CASE WRunWrites /\ UNCHANGED hostVars
  <2>1. cur = wjob /\ wjob \in Jobs /\ hpc \in Polling
    BY <1>29 DEF WRunWrites, IInv, InvWorking
  <2>2. ChannelPhase = "waiting" /\ next - 1 = wjob
    BY <1>0, <2>1 DEF PhaseFacts
  <2>3. verdict[wjob] = "none" /\ verdict' = [verdict EXCEPT ![wjob] = "DONE"]
    BY <1>29 DEF WRunWrites, InvVerdict
  <2>4. UNCHANGED <<ChannelPhase, ChannelReply, next>>
    BY <1>29 DEF ChannelPhase, ChannelReply
  <2>5. QED
    BY <2>2, <2>3, <2>4 DEF Channel!Run
<1>30. CASE WWriteLog /\ UNCHANGED hostVars
  BY <1>30 DEF WWriteLog, ChannelPhase, ChannelReply
<1>31. CASE WOpenStatus /\ UNCHANGED hostVars
  BY <1>31 DEF WOpenStatus, ChannelPhase, ChannelReply
<1>32. CASE WCloseStatus /\ UNCHANGED hostVars
  BY <1>32 DEF WCloseStatus, ChannelPhase, ChannelReply
<1>33. CASE WUnlinkGo /\ UNCHANGED hostVars
  BY <1>33 DEF WUnlinkGo, ChannelPhase, ChannelReply
<1>34. CASE WCrash /\ UNCHANGED hostVars
  BY <1>34 DEF WCrash, ChannelPhase, ChannelReply
<1>35. CASE UNCHANGED vars
  BY <1>35 DEF vars, ChannelPhase, ChannelReply
<1>36. QED
  BY <1>1, <1>2, <1>3, <1>4, <1>5, <1>6, <1>7, <1>8, <1>9, <1>10, <1>11,
     <1>12, <1>13, <1>14, <1>15, <1>16, <1>17, <1>18, <1>19, <1>20, <1>21,
     <1>22, <1>23, <1>24, <1>25, <1>26, <1>27, <1>28, <1>29, <1>30, <1>31,
     <1>32, <1>33, <1>34, <1>35
     DEF Next, HostStep, WorkerStep, Finished

(* The control directory, file by file and poll by poll, implements the    *)
(* channel its callers count on: jobs one after the other, each run at     *)
(* most once and only while its caller waits, and no reply to a job that   *)
(* did not run.                                                            *)
THEOREM PoolIsChannel == ASSUME "slow" \notin Faults PROVE Spec => ImplementsChannel
<1>1. Init => RefInv /\ Channel!Init
  <2> SUFFICES ASSUME Init PROVE RefInv /\ Channel!Init
    OBVIOUS
  <2>1. TypeInv /\ IInv
    BY TypeInvInit, IInvInit
  <2>2. InvCur /\ InvVerdict
    BY Ranges DEF Init, ControlDirInit, InvCur, InvVerdict, Submitting, Polling, NoJob, Quit
  <2>3. ChannelPhase = "idle"
    BY DEF Init, ChannelPhase, Submitting, Polling
  <2>4. ChannelReply = [j \in Jobs |-> "none"]
    BY Ranges DEF Init, ChannelReply
  <2>5. QED
    BY <2>1, <2>2, <2>3, <2>4 DEF Init, ControlDirInit, RefInv, Channel!Init, Jobs
<1>2. RefInv /\ [Next]_vars => RefInv' /\ [Channel!Next]_(Channel!channelVars)
  BY TypeInvNext, IInvNext, InvCurNext, InvVerdictNext, ChannelStep DEF RefInv
<1>3. QED
  BY <1>1, <1>2, PTL DEF Spec, ImplementsChannel, Channel!Spec
=============================================================================
