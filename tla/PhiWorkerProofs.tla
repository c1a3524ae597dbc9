------------------------- MODULE PhiWorkerProofs -------------------------
(***************************************************************************)
(* Theorems about PhiWorker, for any number of jobs.  The type invariant   *)
(* holds whatever fails.  The rest is proved for workers that crash and    *)
(* fail to write at any point, as long as the link holds and no job        *)
(* outlasts the wait for it: a submission that is given up while the       *)
(* worker is still in its job leaves the one in.bin and out.bin of all     *)
(* jobs to two of them.                                                    *)
(***************************************************************************)
EXTENDS PhiWorker, TLAPS

-----------------------------------------------------------------------------
(* How the ranges of job and command numbers lie in each other.            *)
LEMMA Ranges ==
  /\ NoJob \in 0..NJobs /\ NoJob \in 0..Quit /\ NoJob \notin Cmds
  /\ Jobs \subseteq Cmds /\ Jobs \subseteq 0..NJobs /\ Cmds \subseteq 0..Quit
  /\ Quit \in Cmds /\ Quit \notin Jobs /\ 1 \in Cmds
  /\ \A j \in Jobs : Slot(j) \in Jobs /\ j \in Nat /\ j + 1 \in Cmds
  /\ \A j \in Cmds : j \in Nat /\ (j # Quit => j \in Jobs)
  BY ConstantsAssumption DEF NoJob, Jobs, Cmds, Quit, Slot

(* A worker inside a job has read the number of one.                       *)
WorkerOK ==
  /\ ControlDirTypeOK
  /\ wpc \in {"run", "out", "log"} => wjob \in Jobs

(* The types hold initially, and no step of the worker, its crash          *)
(* included, breaks them.                                                  *)
LEMMA InitWorkerOK == ASSUME ControlDirInit PROVE WorkerOK
  BY Ranges DEF ControlDirInit, WorkerOK, ControlDirTypeOK, WorkerPc

LEMMA WorkerStepOK ==
  ASSUME WorkerOK, WorkerStep \/ WCrash
  PROVE  WorkerOK'
<1> USE Ranges DEF WorkerOK, ControlDirTypeOK, WorkerPc, dirVars
<1>1. CASE WSeeGo
  BY <1>1 DEF WSeeGo
<1>2. CASE WReadNothing
  BY <1>2 DEF WReadNothing
<1>3. CASE WReadQuit
  BY <1>3 DEF WReadQuit
<1>4. CASE WReadJob
  BY <1>4 DEF WReadJob
<1>5. CASE WRunFails
  BY <1>5 DEF WRunFails
<1>6. CASE WRunComputes
  BY <1>6 DEF WRunComputes
<1>7. CASE WRunWrites
  BY <1>7 DEF WRunWrites
<1>8. CASE WWriteLog
  BY <1>8 DEF WWriteLog
<1>9. CASE WOpenStatus
  BY <1>9 DEF WOpenStatus
<1>10. CASE WCloseStatus
  BY <1>10 DEF WCloseStatus
<1>11. CASE WUnlinkGo
  BY <1>11 DEF WUnlinkGo
<1>12. CASE WCrash
  BY <1>12 DEF WCrash
<1>13. QED
  BY <1>1, <1>2, <1>3, <1>4, <1>5, <1>6,
     <1>7, <1>8, <1>9, <1>10, <1>11, <1>12
     DEF WorkerStep

-----------------------------------------------------------------------------
(* A submission is for a command, and a result is fetched for a job.       *)
CurOK ==
  /\ hpc \in {"put"} \cup Script \cup Polling => cur \in Cmds
  /\ hpc \in {"put", "get"} => cur \in Jobs

TypeInv == TypeOK /\ WorkerOK /\ CurOK

LEMMA TypeInvInit == Init => TypeInv
<1> SUFFICES ASSUME Init PROVE TypeInv
  OBVIOUS
<1>1. sshUp \in BOOLEAN
  BY DEF Init
<1>2. WorkerOK
  BY InitWorkerOK DEF Init
<1>3. QED
  BY <1>1, <1>2, Ranges
     DEF Init, TypeInv, TypeOK, WorkerOK, CurOK, HostPc, Script, Polling, Cmds

LEMMA TypeInvNext == TypeInv /\ [Next]_vars => TypeInv'
<1> SUFFICES ASSUME TypeInv, [Next]_vars PROVE TypeInv'
  OBVIOUS
<1> USE Ranges DEF TypeInv, TypeOK, CurOK, HostPc, Script, Polling,
                   WorkerOK, ControlDirTypeOK, WorkerPc, dirVars, workerVars
<1>1. CASE Start
  BY <1>1 DEF Start
<1>2. CASE StartReturns
  BY <1>2 DEF StartReturns
<1>3. CASE Scale
  BY <1>3 DEF Scale
<1>4. CASE PutDone
  BY <1>4 DEF PutDone
<1>5. CASE Stop
  BY <1>5 DEF Stop
<1>6. CASE RmStatus
  BY <1>6 DEF RmStatus
<1>7. CASE RmLog
  BY <1>7 DEF RmLog
<1>8. CASE OpenCmd
  BY <1>8 DEF OpenCmd
<1>9. CASE WriteCmd
  BY <1>9 DEF WriteCmd
<1>10. CASE WriteGo
  BY <1>10 DEF WriteGo
<1>11. CASE PollSees
  BY <1>11 DEF PollSees
<1>12. CASE PollMisses
  BY <1>12 DEF PollMisses
<1>13. CASE CatStatus
  BY <1>13 DEF CatStatus
<1>14. CASE Answered
  BY <1>14 DEF Answered, AfterRaise
<1>15. CASE NotYet
  BY <1>15 DEF NotYet
<1>16. CASE CheckAlive
  BY <1>16 DEF CheckAlive
<1>17. CASE CheckDead
  BY <1>17 DEF CheckDead, AfterRaise
<1>18. CASE Timeout
  BY <1>18 DEF Timeout, AfterRaise
<1>19. CASE Get
  <2>1. out[Slot(cur)] \in 0..NJobs
    BY <1>19 DEF Get
  <2>2. QED
    BY <1>19, <2>1 DEF Get
<1>20. CASE Terminate
  <2>1. sshUp' \in BOOLEAN
    BY <1>20 DEF Terminate
  <2>2. QED
    BY <1>20, <2>1 DEF Terminate
<1>21. CASE LinkStep
  <2>1. CASE DeployFails
    BY <2>1 DEF DeployFails
  <2>2. CASE ControlFails
    BY <2>2 DEF ControlFails, AfterRaise
  <2>3. CASE PollTimesOut
    BY <2>3 DEF PollTimesOut, AfterRaise
  <2>4. CASE PollIgnored
    BY <2>4 DEF PollIgnored
  <2>5. QED
    BY <1>21, <2>1, <2>2, <2>3, <2>4 DEF LinkStep
<1>22. CASE SshEnds
  <2>1. sshUp' \in BOOLEAN
    BY <1>22 DEF SshEnds
  <2>2. QED
    BY <1>22, <2>1 DEF SshEnds
<1>23. CASE (WorkerStep \/ WCrash) /\ UNCHANGED hostVars
  <2>1. WorkerOK'
    BY <1>23, WorkerStepOK
  <2>2. QED
    BY <1>23, <2>1 DEF hostVars
<1>24. CASE UNCHANGED vars
  BY <1>24 DEF vars, hostVars
<1>25. QED
  BY <1>1, <1>2, <1>3, <1>4, <1>5, <1>6, <1>7, <1>8, <1>9, <1>10, <1>11,
     <1>12, <1>13, <1>14, <1>15, <1>16, <1>17, <1>18, <1>19, <1>20, <1>21,
     <1>22, <1>23, <1>24
     DEF Next, HostStep, WorkerStep, Finished

(* TypeOK, whatever fails: the card's files, its worker and the host keep  *)
(* to their states, and every job number to its range.                     *)
THEOREM TypeCorrect == Spec => []TypeOK
<1>1. TypeInv => TypeOK
  BY DEF TypeInv
<1>2. QED
  BY TypeInvInit, TypeInvNext, <1>1, PTL DEF Spec

-----------------------------------------------------------------------------
(* The worker is between noticing job.go and creating job.status.          *)
Working == {"read", "run", "out", "log", "status"}

(* The worker is off until it is started; the job being submitted is the   *)
(* last one handed over, and it does not run before it is submitted.       *)
InvPhase ==
  /\ hpc = "new" <=> wpc = "off"
  /\ \A j \in Jobs : j >= next => runs[j] = 0
  /\ cur # Quit => cur + 1 = next
  /\ hpc \in {"new", "starting", "idle", "put", "get"} => cur # Quit
  /\ hpc = "term" => cur = Quit
  /\ hpc \in {"put"} \cup Script /\ cur \in Jobs => runs[cur] = 0

(* Only a worker that fills job.status has it open.                        *)
InvHandle ==
  /\ handle # "closed" => wpc = "fill"
  /\ handle = "linked" => status # "none"

(* A worker that works, works on the command the host waits on, and has    *)
(* not answered it.                                                        *)
InvWorking ==
  wpc \in Working =>
    /\ hpc \in {"poll", "chkProc"} /\ status = "none"
    /\ wpc # "read" => wjob = cur
    /\ wpc = "read" /\ cur \in Jobs => runs[cur] = 0

(* A job.go that is there when the worker looks is of the command that is  *)
(* waited on, although nothing but the worker removes it.                  *)
InvWaitGo ==
  wpc = "wait" /\ go =>
    /\ hpc \in {"poll", "chkProc"} /\ status = "none"
    /\ cur \in Jobs => runs[cur] = 0

(* The control script so far, and what stays of it during the wait.        *)
InvScript ==
  /\ hpc \in Script \ {"rmStatus"} => status = "none" /\ handle # "linked"
  /\ hpc \in {"writeGo"} \cup Polling => cmd = cur
  /\ hpc \in {"catStatus", "catLog"} => status # "none"

(* While the link holds, ssh ends only after the worker.                   *)
InvSsh == hpc \notin {"new", "stopped"} => sshUp \/ wpc = "dead"

RunOnce == \A j \in Jobs : runs[j] <= 1

(* Before a job has run it has no verdict, and from the end of its run to  *)
(* the host's reading job.status everything on the way agrees with it.     *)
InvVerdict ==
  /\ \A j \in Jobs : runs[j] = 0 => verdict[j] = "none"
  /\ wpc \in {"run", "out"} => verdict[wjob] = "none" /\ runs[wjob] # 0
  /\ wpc \in {"log", "status"} /\ cur \in Jobs => verdict[cur] = wrc
  /\ cur \in Jobs /\ hpc \in Polling =>
       /\ handle = "linked" => verdict[cur] = wrc
       /\ status # "none" => verdict[cur] # "none" /\ status \in {"empty", verdict[cur]}
       /\ hpc = "catLog" => verdict[cur] # "none" /\ seen \in {"empty", verdict[cur]}

(* in.bin holds the operands of the job that is submitted, and once that   *)
(* job is done out.bin holds its result or nothing that can be decoded.    *)
InvData ==
  /\ cur \in Jobs /\ hpc \in Script \cup Polling => inp[Slot(cur)] = cur
  /\ wpc = "out" => wdata = wjob /\ out[Slot(wjob)] = NoJob
  /\ hpc = "get" => verdict[cur] = "DONE"
  /\ cur \in Jobs /\ verdict[cur] = "DONE" => out[Slot(cur)] \in {cur, NoJob}

ProtocolInv ==
  InvPhase /\ InvHandle /\ InvWorking /\ InvWaitGo /\ InvScript /\ InvSsh /\ RunOnce

IInv == TypeInv /\ ProtocolInv /\ InvVerdict /\ InvData /\ ResultIsOwn

LEMMA IInvInit == Init => IInv
<1> SUFFICES ASSUME Init PROVE IInv
  OBVIOUS
<1>1. TypeInv
  BY TypeInvInit
<1>2. QED
  BY <1>1, Ranges
     DEF Init, ControlDirInit, IInv, ProtocolInv, InvPhase, InvHandle, InvWorking, InvWaitGo,
         InvScript, InvSsh, RunOnce, InvVerdict, InvData, ResultIsOwn, Working, Script,
         Polling, NoJob, Quit

(* The protocol: who may be where, and what the control files hold then.   *)
LEMMA ProtocolNext ==
  ASSUME "slow" \notin Faults, "link" \notin Faults,
         TypeInv, ProtocolInv, InvVerdict, [Next]_vars
  PROVE  ProtocolInv'
<1> USE Ranges
    DEF TypeInv, TypeOK, CurOK, WorkerOK, ControlDirTypeOK, HostPc, WorkerPc,
        Script, Polling, Working, ProtocolInv, InvPhase, InvHandle, InvWorking, InvWaitGo,
        InvScript, InvSsh, RunOnce, dirVars, workerVars, hostVars
<1>1. CASE Start
  BY <1>1 DEF Start
<1>2. CASE StartReturns
  BY <1>2 DEF StartReturns
<1>3. CASE Scale
  BY <1>3 DEF Scale
<1>4. CASE PutDone
  BY <1>4 DEF PutDone
<1>5. CASE Stop
  BY <1>5 DEF Stop
<1>6. CASE RmStatus
  BY <1>6 DEF RmStatus
<1>7. CASE RmLog
  BY <1>7 DEF RmLog
<1>8. CASE OpenCmd
  BY <1>8 DEF OpenCmd
<1>9. CASE WriteCmd
  BY <1>9 DEF WriteCmd
<1>10. CASE WriteGo
  BY <1>10 DEF WriteGo
<1>11. CASE PollSees
  BY <1>11 DEF PollSees
<1>12. CASE PollMisses
  BY <1>12 DEF PollMisses
<1>13. CASE CatStatus
  BY <1>13 DEF CatStatus
<1>14. CASE Answered
  BY <1>14 DEF Answered, AfterRaise, InvVerdict
<1>15. CASE NotYet
  BY <1>15 DEF NotYet
<1>16. CASE CheckAlive
  BY <1>16 DEF CheckAlive
<1>17. CASE CheckDead
  BY <1>17 DEF CheckDead, AfterRaise
<1>18. CASE Timeout
  BY <1>18 DEF Timeout, AfterRaise
<1>19. CASE Get
  BY <1>19 DEF Get
<1>20. CASE Terminate
  BY <1>20 DEF Terminate
<1>21. CASE LinkStep
  BY <1>21 DEF LinkStep, DeployFails, ControlFails, PollTimesOut, PollIgnored
<1>22. CASE SshEnds
  BY <1>22 DEF SshEnds
<1>23. CASE WSeeGo /\ UNCHANGED hostVars
  BY <1>23 DEF WSeeGo
<1>24. CASE WReadNothing /\ UNCHANGED hostVars
  BY <1>24 DEF WReadNothing
<1>25. CASE WReadQuit /\ UNCHANGED hostVars
  BY <1>25 DEF WReadQuit
<1>26. CASE WReadJob /\ UNCHANGED hostVars
  <2>1. cmd = cur /\ cur \in Jobs /\ runs[cur] = 0
    BY <1>26 DEF WReadJob
  <2>2. runs' = [runs EXCEPT ![cur] = 1]
    BY <1>26, <2>1 DEF WReadJob
  <2>3. \A j \in Jobs : runs'[j] = IF j = cur THEN 1 ELSE runs[j]
    BY <2>2
  <2>4. RunOnce'
    BY <2>1, <2>3
  <2>5. cur < next
    BY <2>1
  <2>6. InvPhase'
    BY <1>26, <2>1, <2>3, <2>5 DEF WReadJob
  <2>7. QED
    BY <1>26, <2>1, <2>4, <2>6 DEF WReadJob
<1>27. CASE WRunFails /\ UNCHANGED hostVars
  BY <1>27 DEF WRunFails
<1>28. CASE WRunComputes /\ UNCHANGED hostVars
  BY <1>28 DEF WRunComputes
<1>29. CASE WRunWrites /\ UNCHANGED hostVars
  BY <1>29 DEF WRunWrites
<1>30. CASE WWriteLog /\ UNCHANGED hostVars
  BY <1>30 DEF WWriteLog
<1>31. CASE WOpenStatus /\ UNCHANGED hostVars
  BY <1>31 DEF WOpenStatus
<1>32. CASE WCloseStatus /\ UNCHANGED hostVars
  BY <1>32 DEF WCloseStatus
<1>33. CASE WUnlinkGo /\ UNCHANGED hostVars
  BY <1>33 DEF WUnlinkGo
<1>34. CASE WCrash /\ UNCHANGED hostVars
  BY <1>34 DEF WCrash
<1>35. CASE UNCHANGED vars
  BY <1>35 DEF vars
<1>36. QED
  BY <1>1, <1>2, <1>3, <1>4, <1>5, <1>6, <1>7, <1>8, <1>9, <1>10, <1>11,
     <1>12, <1>13, <1>14, <1>15, <1>16, <1>17, <1>18, <1>19, <1>20, <1>21,
     <1>22, <1>23, <1>24, <1>25, <1>26, <1>27, <1>28, <1>29, <1>30, <1>31,
     <1>32, <1>33, <1>34, <1>35
     DEF Next, HostStep, WorkerStep, Finished

LEMMA VerdictNext ==
  ASSUME "slow" \notin Faults, "link" \notin Faults,
         TypeInv, ProtocolInv, InvVerdict, [Next]_vars
  PROVE  InvVerdict'
<1> USE Ranges
    DEF TypeInv, TypeOK, CurOK, WorkerOK, ControlDirTypeOK, HostPc, WorkerPc,
        Script, Polling, Working, ProtocolInv, InvPhase, InvHandle, InvWorking, InvWaitGo,
        InvScript, RunOnce, InvVerdict, dirVars, workerVars, hostVars
<1>1. CASE Start
  BY <1>1 DEF Start
<1>2. CASE StartReturns
  BY <1>2 DEF StartReturns
<1>3. CASE Scale
  BY <1>3 DEF Scale
<1>4. CASE PutDone
  BY <1>4 DEF PutDone
<1>5. CASE Stop
  BY <1>5 DEF Stop
<1>6. CASE RmStatus
  BY <1>6 DEF RmStatus
<1>7. CASE RmLog
  BY <1>7 DEF RmLog
<1>8. CASE OpenCmd
  BY <1>8 DEF OpenCmd
<1>9. CASE WriteCmd
  BY <1>9 DEF WriteCmd
<1>10. CASE WriteGo
  BY <1>10 DEF WriteGo
<1>11. CASE PollSees
  BY <1>11 DEF PollSees
<1>12. CASE PollMisses
  BY <1>12 DEF PollMisses
<1>13. CASE CatStatus
  BY <1>13 DEF CatStatus
<1>14. CASE Answered
  BY <1>14 DEF Answered, AfterRaise
<1>15. CASE NotYet
  BY <1>15 DEF NotYet
<1>16. CASE CheckAlive
  BY <1>16 DEF CheckAlive
<1>17. CASE CheckDead
  BY <1>17 DEF CheckDead, AfterRaise
<1>18. CASE Timeout
  BY <1>18 DEF Timeout, AfterRaise
<1>19. CASE Get
  BY <1>19 DEF Get
<1>20. CASE Terminate
  BY <1>20 DEF Terminate
<1>21. CASE LinkStep
  BY <1>21 DEF LinkStep, DeployFails, ControlFails, PollTimesOut, PollIgnored
<1>22. CASE SshEnds
  BY <1>22 DEF SshEnds
<1>23. CASE WSeeGo /\ UNCHANGED hostVars
  BY <1>23 DEF WSeeGo
<1>24. CASE WReadNothing /\ UNCHANGED hostVars
  BY <1>24 DEF WReadNothing
<1>25. CASE WReadQuit /\ UNCHANGED hostVars
  BY <1>25 DEF WReadQuit
<1>26. CASE WReadJob /\ UNCHANGED hostVars
  BY <1>26 DEF WReadJob
<1>27. CASE WRunFails /\ UNCHANGED hostVars
  BY <1>27 DEF WRunFails
<1>28. CASE WRunComputes /\ UNCHANGED hostVars
  BY <1>28 DEF WRunComputes
<1>29. CASE WRunWrites /\ UNCHANGED hostVars
  BY <1>29 DEF WRunWrites
<1>30. CASE WWriteLog /\ UNCHANGED hostVars
  BY <1>30 DEF WWriteLog
<1>31. CASE WOpenStatus /\ UNCHANGED hostVars
  BY <1>31 DEF WOpenStatus
<1>32. CASE WCloseStatus /\ UNCHANGED hostVars
  BY <1>32 DEF WCloseStatus
<1>33. CASE WUnlinkGo /\ UNCHANGED hostVars
  BY <1>33 DEF WUnlinkGo
<1>34. CASE WCrash /\ UNCHANGED hostVars
  BY <1>34 DEF WCrash
<1>35. CASE UNCHANGED vars
  BY <1>35 DEF vars
<1>36. QED
  BY <1>1, <1>2, <1>3, <1>4, <1>5, <1>6, <1>7, <1>8, <1>9, <1>10, <1>11,
     <1>12, <1>13, <1>14, <1>15, <1>16, <1>17, <1>18, <1>19, <1>20, <1>21,
     <1>22, <1>23, <1>24, <1>25, <1>26, <1>27, <1>28, <1>29, <1>30, <1>31,
     <1>32, <1>33, <1>34, <1>35
     DEF Next, HostStep, WorkerStep, Finished

(* The data: out.bin changes only inside the run of the job whose call     *)
(* waits, so that the call fetches what that run left.                     *)
LEMMA DataNext ==
  ASSUME "slow" \notin Faults, "link" \notin Faults,
         TypeInv, ProtocolInv, InvVerdict, InvData, ResultIsOwn, [Next]_vars
  PROVE  InvData' /\ ResultIsOwn'
<1> USE Ranges
    DEF TypeInv, TypeOK, CurOK, WorkerOK, ControlDirTypeOK, HostPc, WorkerPc,
        Script, Polling, Working, ProtocolInv, InvPhase, InvHandle, InvWorking, InvWaitGo,
        InvVerdict, InvData, ResultIsOwn, dirVars, workerVars, hostVars
<1>1. CASE Start
  BY <1>1 DEF Start
<1>2. CASE StartReturns
  BY <1>2 DEF StartReturns
<1>3. CASE Scale
  BY <1>3 DEF Scale
<1>4. CASE PutDone
  BY <1>4 DEF PutDone
<1>5. CASE Stop
  BY <1>5 DEF Stop
<1>6. CASE RmStatus
  BY <1>6 DEF RmStatus
<1>7. CASE RmLog
  BY <1>7 DEF RmLog
<1>8. CASE OpenCmd
  BY <1>8 DEF OpenCmd
<1>9. CASE WriteCmd
  BY <1>9 DEF WriteCmd
<1>10. CASE WriteGo
  BY <1>10 DEF WriteGo
<1>11. CASE PollSees
  BY <1>11 DEF PollSees
<1>12. CASE PollMisses
  BY <1>12 DEF PollMisses
<1>13. CASE CatStatus
  BY <1>13 DEF CatStatus
<1>14. CASE Answered
  BY <1>14 DEF Answered, AfterRaise
<1>15. CASE NotYet
  BY <1>15 DEF NotYet
<1>16. CASE CheckAlive
  BY <1>16 DEF CheckAlive
<1>17. CASE CheckDead
  BY <1>17 DEF CheckDead, AfterRaise
<1>18. CASE Timeout
  BY <1>18 DEF Timeout, AfterRaise
<1>19. CASE Get
  BY <1>19 DEF Get
<1>20. CASE Terminate
  BY <1>20 DEF Terminate
<1>21. CASE LinkStep
  BY <1>21 DEF LinkStep, DeployFails, ControlFails, PollTimesOut, PollIgnored
<1>22. CASE SshEnds
  BY <1>22 DEF SshEnds
<1>23. CASE WSeeGo /\ UNCHANGED hostVars
  BY <1>23 DEF WSeeGo
<1>24. CASE WReadNothing /\ UNCHANGED hostVars
  BY <1>24 DEF WReadNothing
<1>25. CASE WReadQuit /\ UNCHANGED hostVars
  BY <1>25 DEF WReadQuit
<1>26. CASE WReadJob /\ UNCHANGED hostVars
  BY <1>26 DEF WReadJob
<1>27. CASE WRunFails /\ UNCHANGED hostVars
  BY <1>27 DEF WRunFails
<1>28. CASE WRunComputes /\ UNCHANGED hostVars
  BY <1>28 DEF WRunComputes
<1>29. CASE WRunWrites /\ UNCHANGED hostVars
  BY <1>29 DEF WRunWrites
<1>30. CASE WWriteLog /\ UNCHANGED hostVars
  BY <1>30 DEF WWriteLog
<1>31. CASE WOpenStatus /\ UNCHANGED hostVars
  BY <1>31 DEF WOpenStatus
<1>32. CASE WCloseStatus /\ UNCHANGED hostVars
  BY <1>32 DEF WCloseStatus
<1>33. CASE WUnlinkGo /\ UNCHANGED hostVars
  BY <1>33 DEF WUnlinkGo
<1>34. CASE WCrash /\ UNCHANGED hostVars
  BY <1>34 DEF WCrash
<1>35. CASE UNCHANGED vars
  BY <1>35 DEF vars
<1>36. QED
  BY <1>1, <1>2, <1>3, <1>4, <1>5, <1>6, <1>7, <1>8, <1>9, <1>10, <1>11,
     <1>12, <1>13, <1>14, <1>15, <1>16, <1>17, <1>18, <1>19, <1>20, <1>21,
     <1>22, <1>23, <1>24, <1>25, <1>26, <1>27, <1>28, <1>29, <1>30, <1>31,
     <1>32, <1>33, <1>34, <1>35
     DEF Next, HostStep, WorkerStep, Finished

LEMMA IInvNext ==
  ASSUME "slow" \notin Faults, "link" \notin Faults, IInv, [Next]_vars
  PROVE  IInv'
  BY TypeInvNext, ProtocolNext, VerdictNext, DataNext DEF IInv

(* What scale fetches from the out.bin of all jobs is the result of its    *)
(* own job or cannot be decoded.                                           *)
THEOREM FetchedIsOwn ==
  ASSUME "slow" \notin Faults, "link" \notin Faults
  PROVE  Spec => []ResultIsOwn
<1>1. IInv /\ [Next]_vars => IInv'
  BY IInvNext
<1>2. IInv => ResultIsOwn
  BY DEF IInv
<1>3. QED
  BY IInvInit, <1>1, <1>2, PTL DEF Spec

-----------------------------------------------------------------------------
(* The channel's view of a submission: what the host's place in its code   *)
(* says of the phase.                                                      *)
PhaseFacts ==
  /\ hpc \in {"new", "starting", "idle", "get"} => ChannelPhase = "idle"
  /\ hpc \in {"put"} \cup Script \cup Polling /\ cur # Quit => ChannelPhase = "waiting"
  /\ hpc \in {"term", "stopped", "broken"} => ChannelPhase = "closed"
  /\ hpc \in {"put"} \cup Script \cup Polling /\ cur = Quit => ChannelPhase = "closed"
  /\ cur \in Jobs => next - 1 = cur

LEMMA PhaseIs == ASSUME TypeInv, ProtocolInv PROVE PhaseFacts
<1> USE DEF PhaseFacts, ChannelPhase, Script, Polling
<1>1. cur \in Jobs => next - 1 = cur
  BY Ranges DEF TypeInv, TypeOK, ProtocolInv, InvPhase, Jobs, Cmds, Quit
<1>2. CASE hpc \in {"new", "starting", "idle", "get"}
  BY <1>1, <1>2
<1>3. CASE hpc \in {"put"} \cup Script \cup Polling /\ cur # Quit
  BY <1>1, <1>3
<1>4. CASE hpc \in {"term", "stopped", "broken"}
  BY <1>1, <1>4
<1>5. CASE hpc \in {"put"} \cup Script \cup Polling /\ cur = Quit
  BY <1>1, <1>5
<1>6. QED
  BY <1>2, <1>3, <1>4, <1>5 DEF TypeInv, TypeOK, HostPc

LEMMA PhaseIsNext == ASSUME TypeInv', ProtocolInv' PROVE PhaseFacts'
<1> USE DEF PhaseFacts, ChannelPhase, Script, Polling
<1>1. cur' \in Jobs => next' - 1 = cur'
  <2>1. cur' # Quit => cur' + 1 = next'
    BY DEF ProtocolInv, InvPhase
  <2>2. QED
    BY <2>1, ConstantsAssumption DEF Jobs, Quit
<1>2. CASE hpc' \in {"new", "starting", "idle", "get"}
  BY <1>1, <1>2
<1>3. CASE hpc' \in {"put"} \cup Script \cup Polling /\ cur' # Quit
  BY <1>1, <1>3
<1>4. CASE hpc' \in {"term", "stopped", "broken"}
  BY <1>1, <1>4
<1>5. CASE hpc' \in {"put"} \cup Script \cup Polling /\ cur' = Quit
  BY <1>1, <1>5
<1>6. QED
  BY <1>2, <1>3, <1>4, <1>5 DEF TypeInv, TypeOK, HostPc

(* What ends a job's submission is its reply; what ends QUIT's is none.    *)
LEMMA ReplyIs ==
  ASSUME TypeInv, NEW r \in {"ok", "fail", "ctl", "died", "timeout"},
         res' = [res EXCEPT ![cur] = r], cur \in Jobs
  PROVE  ChannelReply' = [ChannelReply EXCEPT ![cur] =
                             IF r \in {"ctl", "died", "timeout"} THEN "lost" ELSE r]
  BY Ranges DEF TypeInv, TypeOK, ChannelReply

LEMMA QuitIsNoReply ==
  ASSUME TypeInv, NEW r, res' = [res EXCEPT ![Quit] = r]
  PROVE  ChannelReply' = ChannelReply
  BY Ranges DEF TypeInv, TypeOK, ChannelReply

(* Each step of the card is a step of the channel or leaves it as it is.   *)
LEMMA ChannelStep ==
  ASSUME "slow" \notin Faults, "link" \notin Faults, IInv, [Next]_vars
  PROVE  [Channel!Next]_(Channel!channelVars)
<1>0. PhaseFacts /\ PhaseFacts'
  BY PhaseIs, PhaseIsNext, IInvNext DEF IInv
<1> USE Ranges
    DEF IInv, TypeInv, TypeOK, CurOK, WorkerOK, ControlDirTypeOK, Script, Polling,
        Working, dirVars, workerVars, hostVars, Channel!channelVars, Channel!Next
<1>1. CASE Start
  BY <1>1 DEF Start, ChannelPhase, ChannelReply
<1>2. CASE StartReturns
  BY <1>2 DEF StartReturns, ChannelPhase, ChannelReply, Channel!Close
<1>3. CASE Scale
  <2>1. ChannelPhase = "idle" /\ ChannelPhase' = "waiting"
    BY <1>0, <1>3 DEF Scale, PhaseFacts
  <2>2. next \in Jobs /\ next' = next + 1 /\ UNCHANGED <<verdict, ChannelReply>>
    BY <1>3 DEF Scale, ChannelReply
  <2>3. next - 1 < NJobs /\ next' - 1 = (next - 1) + 1
    BY <2>2, ConstantsAssumption DEF Jobs
  <2>4. QED
    BY <2>1, <2>2, <2>3 DEF Channel!Submit
<1>4. CASE PutDone
  BY <1>4 DEF PutDone, ChannelPhase, ChannelReply
<1>5. CASE Stop
  BY <1>5 DEF Stop, ChannelPhase, ChannelReply, Channel!Close, ProtocolInv, InvPhase
<1>6. CASE RmStatus
  BY <1>6 DEF RmStatus, ChannelPhase, ChannelReply
<1>7. CASE RmLog
  BY <1>7 DEF RmLog, ChannelPhase, ChannelReply
<1>8. CASE OpenCmd
  BY <1>8 DEF OpenCmd, ChannelPhase, ChannelReply
<1>9. CASE WriteCmd
  BY <1>9 DEF WriteCmd, ChannelPhase, ChannelReply
<1>10. CASE WriteGo
  BY <1>10 DEF WriteGo, ChannelPhase, ChannelReply
<1>11. CASE PollSees
  BY <1>11 DEF PollSees, ChannelPhase, ChannelReply
<1>12. CASE PollMisses
  BY <1>12 DEF PollMisses, ChannelPhase, ChannelReply
<1>13. CASE CatStatus
  BY <1>13 DEF CatStatus, ChannelPhase, ChannelReply
<1>14. CASE Answered
  <2>1. CASE cur = Quit
    <3>1. ChannelReply' = ChannelReply
      BY <1>14, <2>1, QuitIsNoReply DEF Answered
    <3>2. ChannelPhase = "closed" /\ ChannelPhase' = "closed"
      BY <1>14, <2>1, <1>0 DEF Answered, PhaseFacts, AfterRaise
    <3>3. QED
      BY <1>14, <3>1, <3>2 DEF Answered
  <2>2. CASE cur # Quit
    <3>1. cur \in Jobs /\ next - 1 = cur
      BY <1>14, <2>2, <1>0 DEF PhaseFacts, Answered
    <3>2. ChannelReply' = [ChannelReply EXCEPT ![cur] = IF seen = "DONE" THEN "ok" ELSE "fail"]
      BY <1>14, <3>1, ReplyIs DEF Answered
    <3>3. ChannelPhase = "waiting" /\ ChannelPhase' = "idle"
      BY <1>14, <2>2, <1>0 DEF Answered, PhaseFacts, AfterRaise
    <3>4. UNCHANGED <<next, verdict>>
      BY <1>14 DEF Answered
    <3>5. verdict[cur] = seen /\ seen \in {"DONE", "FAIL"}
      BY <1>14, <3>1 DEF Answered, InvVerdict
    <3>6. QED
      BY <3>1, <3>2, <3>3, <3>4, <3>5 DEF Channel!Reply, Channel!Honest
  <2>3. QED
    BY <2>1, <2>2
<1>15. CASE NotYet
  BY <1>15 DEF NotYet, ChannelPhase, ChannelReply
<1>16. CASE CheckAlive
  BY <1>16 DEF CheckAlive, ChannelPhase, ChannelReply
<1>17. CASE CheckDead
  <2>1. CASE cur = Quit
    <3>1. ChannelReply' = ChannelReply
      BY <1>17, <2>1, QuitIsNoReply DEF CheckDead
    <3>2. ChannelPhase = "closed" /\ ChannelPhase' = "closed"
      BY <1>17, <2>1, <1>0 DEF CheckDead, PhaseFacts, AfterRaise
    <3>3. QED
      BY <1>17, <3>1, <3>2 DEF CheckDead
  <2>2. CASE cur # Quit
    <3>1. cur \in Jobs /\ next - 1 = cur
      BY <1>17, <2>2, <1>0 DEF PhaseFacts, CheckDead
    <3>2. ChannelReply' = [ChannelReply EXCEPT ![cur] = "lost"]
      BY <1>17, <3>1, ReplyIs DEF CheckDead
    <3>3. ChannelPhase = "waiting" /\ ChannelPhase' = "idle"
      BY <1>17, <2>2, <1>0 DEF CheckDead, PhaseFacts, AfterRaise
    <3>4. UNCHANGED <<next, verdict>>
      BY <1>17 DEF CheckDead
    <3>5. QED
      BY <3>1, <3>2, <3>3, <3>4 DEF Channel!Lose
  <2>3. QED
    BY <2>1, <2>2
<1>18. CASE Timeout
  <2>1. CASE cur = Quit
    <3>1. ChannelReply' = ChannelReply
      BY <1>18, <2>1, QuitIsNoReply DEF Timeout
    <3>2. ChannelPhase = "closed" /\ ChannelPhase' = "closed"
      BY <1>18, <2>1, <1>0 DEF Timeout, PhaseFacts, AfterRaise
    <3>3. QED
      BY <1>18, <3>1, <3>2 DEF Timeout
  <2>2. CASE cur # Quit
    <3>1. cur \in Jobs /\ next - 1 = cur
      BY <1>18, <2>2, <1>0 DEF PhaseFacts, Timeout
    <3>2. ChannelReply' = [ChannelReply EXCEPT ![cur] = "lost"]
      BY <1>18, <3>1, ReplyIs DEF Timeout
    <3>3. ChannelPhase = "waiting" /\ ChannelPhase' = "idle"
      BY <1>18, <2>2, <1>0 DEF Timeout, PhaseFacts, AfterRaise
    <3>4. UNCHANGED <<next, verdict>>
      BY <1>18 DEF Timeout
    <3>5. QED
      BY <3>1, <3>2, <3>3, <3>4 DEF Channel!Lose
  <2>3. QED
    BY <2>1, <2>2
<1>19. CASE Get
  BY <1>19 DEF Get, ChannelPhase, ChannelReply
<1>20. CASE Terminate
  BY <1>20 DEF Terminate, ChannelPhase, ChannelReply, ProtocolInv, InvPhase
<1>21. CASE LinkStep
  BY <1>21 DEF LinkStep, DeployFails, ControlFails, PollTimesOut, PollIgnored
<1>22. CASE SshEnds
  BY <1>22 DEF SshEnds, ChannelPhase, ChannelReply
<1>23. CASE WSeeGo /\ UNCHANGED hostVars
  BY <1>23 DEF WSeeGo, ChannelPhase, ChannelReply
<1>24. CASE WReadNothing /\ UNCHANGED hostVars
  BY <1>24 DEF WReadNothing, ChannelPhase, ChannelReply
<1>25. CASE WReadQuit /\ UNCHANGED hostVars
  BY <1>25 DEF WReadQuit, ChannelPhase, ChannelReply
<1>26. CASE WReadJob /\ UNCHANGED hostVars
  BY <1>26 DEF WReadJob, ChannelPhase, ChannelReply
<1>27. CASE WRunFails /\ UNCHANGED hostVars
  <2>1. cur = wjob /\ wjob \in Jobs /\ hpc \in Polling
    BY <1>27 DEF WRunFails, ProtocolInv, InvWorking
  <2>2. ChannelPhase = "waiting" /\ next - 1 = wjob
    BY <1>0, <2>1 DEF PhaseFacts
  <2>3. verdict[wjob] = "none" /\ verdict' = [verdict EXCEPT ![wjob] = "FAIL"]
    BY <1>27 DEF WRunFails, InvVerdict
  <2>4. UNCHANGED <<ChannelPhase, ChannelReply, next>>
    BY <1>27 DEF ChannelPhase, ChannelReply
  <2>5. QED
    BY <2>2, <2>3, <2>4 DEF Channel!Run
<1>28. CASE WRunComputes /\ UNCHANGED hostVars
  BY <1>28 DEF WRunComputes, ChannelPhase, ChannelReply
<1>29. CASE WRunWrites /\ UNCHANGED hostVars
  <2>1. cur = wjob /\ wjob \in Jobs /\ hpc \in Polling
    BY <1>29 DEF WRunWrites, ProtocolInv, InvWorking
  <2>2. ChannelPhase = "waiting" /\ next - 1 = wjob
    BY <1>0, <2>1 DEF PhaseFacts
  <2>3. verdict[wjob] = "none" /\ verdict' = [verdict EXCEPT ![wjob] = "DONE"]
    BY <1>29 DEF WRunWrites, InvVerdict
  <2>4. UNCHANGED <<ChannelPhase, ChannelReply, next>>
    BY <1>29 DEF ChannelPhase, ChannelReply
  <2>5. QED
    BY <2>2, <2>3, <2>4 DEF Channel!Run
<1>30. CASE WWriteLog /\ UNCHANGED hostVars
  BY <1>30 DEF WWriteLog, ChannelPhase, ChannelReply
<1>31. CASE WOpenStatus /\ UNCHANGED hostVars
  BY <1>31 DEF WOpenStatus, ChannelPhase, ChannelReply
<1>32. CASE WCloseStatus /\ UNCHANGED hostVars
  BY <1>32 DEF WCloseStatus, ChannelPhase, ChannelReply
<1>33. CASE WUnlinkGo /\ UNCHANGED hostVars
  BY <1>33 DEF WUnlinkGo, ChannelPhase, ChannelReply
<1>34. CASE WCrash /\ UNCHANGED hostVars
  BY <1>34 DEF WCrash, ChannelPhase, ChannelReply
<1>35. CASE UNCHANGED vars
  BY <1>35 DEF vars, ChannelPhase, ChannelReply
<1>36. QED
  BY <1>1, <1>2, <1>3, <1>4, <1>5, <1>6, <1>7, <1>8, <1>9, <1>10, <1>11,
     <1>12, <1>13, <1>14, <1>15, <1>16, <1>17, <1>18, <1>19, <1>20, <1>21,
     <1>22, <1>23, <1>24, <1>25, <1>26, <1>27, <1>28, <1>29, <1>30, <1>31,
     <1>32, <1>33, <1>34, <1>35
     DEF Next, HostStep, WorkerStep, Finished

(* The card's control directory implements the channel whose replies are   *)
(* verdicts: "ok" is only said of a job that was done, "fail" of one that  *)
(* failed, each job runs at most once and only while its caller waits.     *)
THEOREM CardIsChannel ==
  ASSUME "slow" \notin Faults, "link" \notin Faults
  PROVE  Spec => ImplementsChannel
<1>1. Init => Channel!Init
  <2> SUFFICES ASSUME Init PROVE Channel!Init
    OBVIOUS
  <2>1. ChannelPhase = "idle"
    BY DEF Init, ChannelPhase, Script, Polling
  <2>2. ChannelReply = [j \in Jobs |-> "none"]
    BY Ranges DEF Init, ChannelReply
  <2>3. QED
    BY <2>1, <2>2 DEF Init, ControlDirInit, Channel!Init, Jobs
<1>2. IInv /\ [Next]_vars => IInv' /\ [Channel!Next]_(Channel!channelVars)
  BY IInvNext, ChannelStep
<1>3. QED
  BY IInvInit, <1>1, <1>2, PTL DEF Spec, ImplementsChannel, Channel!Spec
=============================================================================
