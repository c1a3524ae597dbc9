---------------------------- MODULE JobServer ----------------------------
(***************************************************************************)
(* uct-serve (runtime/serve.py): a main thread that accepts, one daemon    *)
(* thread per connection, and the jobs (runtime/job_runner.py, by way of   *)
(* JobSpec) the threads run under the job lock.  A thread takes the        *)
(* session's own lock call by call (the actions of AveoSession) and uses   *)
(* the pool it was given in between; the main thread's shutdown takes the  *)
(* session's lock only.                                                    *)
(***************************************************************************)
EXTENDS AveoSession

CONSTANTS
  Conns,      \* client connections, at most the listen backlog of 32
  NoConn,     \* the holder of a free lock
  Requests,   \* the requests clients send
  HomeNode,   \* --ve-node
  Preload,    \* --preload, NoShape when not given
  Batches     \* "batches" of a job: its pinned GEMMs after the warm-up

Ops == {"ping", "health", "shutdown", "bad", "run"}

(* path "host": host_dgemm does the job; "raises": no valid job, so that   *)
(* run_job raises at once; "aveo": the job runs on VE node.                *)
Request == [op : Ops, path : {"host", "raises", "aveo"}, node : Nodes,
            shape : Shape, mode : {"grow", "strict"},
            single : BOOLEAN,    \* sparse_dense and dataprep: one GEMM
            oneshot : BOOLEAN,   \* compare_oneshot
            close : BOOLEAN]     \* shutdown_session

ASSUME JobServerAssumption ==
  /\ NoConn \notin Conns
  /\ Requests \subseteq Request
  /\ \A r \in Requests : r.op = "run" /\ r.path = "aveo" => r.shape.m > 0
  /\ HomeNode \in Nodes /\ Preload \in Shape
  /\ Preload.m > 0 => Preload.n > 0 /\ Preload.k > 0
  /\ Batches \in Nat \ {0}

VARIABLES
  mpc,      \* the main thread
  stop,     \* self._stop
  bound,    \* the socket accepts connections
  cpc,      \* each connection and its thread
  req,      \* the request its client sent, or NoRequest
  answer,   \* the response that was written to it
  jlock,    \* the holder of self._lock
  left,     \* the GEMMs its job still has to do, the warm-up first
  held,     \* the pool its GEMM uses
  bad       \* a counted GEMM of its job was not computed: "call" when the
            \* device failed, "pool" when its pool was gone or too small

serverVars == <<mpc, stop, bound, cpc, req, answer, jlock, left, held, bad>>
allVars == <<sessionVars, serverVars>>

NoRequest == [op |-> "none"]

(* The states of a thread that runs a job.                                 *)
InJob == {"job", "oneshot", "get", "gemm", "call", "using", "end", "raise"}
ConnPc == {"new", "queued", "reading", "lock", "reply", "done"} \cup InJob

ServerTypeOK ==
  /\ SessionTypeOK
  /\ mpc \in {"boot", "loop", "accept", "closing", "closed", "atexit", "exited"}
  /\ stop \in BOOLEAN /\ bound \in BOOLEAN
  /\ cpc \in [Conns -> ConnPc]
  /\ req \in [Conns -> Requests \cup {NoRequest}]
  /\ answer \in [Conns -> {"none", "control", "pass", "fail", "error"}]
  /\ jlock \in Conns \cup {NoConn}
  /\ left \in [Conns -> 0..(Batches + 1)]
  /\ held \in [Conns -> {NoPool} \cup Pools]
  /\ bad \in [Conns -> {"no", "call", "pool"}]

(* The main thread is before its finally block.                            *)
Serving == mpc \in {"boot", "loop", "accept"}

JobServerInit ==
  /\ SessionInit
  /\ mpc = "boot" /\ stop = FALSE /\ bound = FALSE
  /\ cpc = [c \in Conns |-> "new"] /\ req = [c \in Conns |-> NoRequest]
  /\ answer = [c \in Conns |-> "none"]
  /\ jlock = NoConn /\ left = [c \in Conns |-> 0]
  /\ held = [c \in Conns |-> NoPool] /\ bad = [c \in Conns |-> "no"]

Goto(c, pc) == cpc' = [cpc EXCEPT ![c] = pc]

-----------------------------------------------------------------------------
(* The main thread.  A preload that raises is skipped.                     *)
Boot ==
  /\ mpc = "boot"
  /\ IF Preload = NoShape THEN UNCHANGED sessionVars
     ELSE \E p \in {NoPool} \cup Pools : GetAveoPool({HomeNode}, Preload, "grow", p)
  /\ bound' = TRUE /\ mpc' = "loop"
  /\ UNCHANGED <<stop, cpc, req, answer, jlock, left, held, bad>>

(* Variant: the loop does not look at self._stop.                          *)
CheckStopNot ==
  /\ mpc = "loop"
  /\ mpc' = "accept"
  /\ UNCHANGED <<sessionVars, stop, bound, cpc, req, answer, jlock, left, held, bad>>

(* while not self._stop.is_set()                                           *)
CheckStop ==
  /\ mpc = "loop"
  /\ mpc' = IF stop THEN "closing" ELSE "accept"
  /\ UNCHANGED <<sessionVars, stop, bound, cpc, req, answer, jlock, left, held, bad>>

Accept ==
  /\ mpc = "accept"
  /\ \E c \in Conns : cpc[c] = "queued" /\ Goto(c, "reading")
  /\ mpc' = "loop"
  /\ UNCHANGED <<sessionVars, stop, bound, req, answer, jlock, left, held, bad>>

AcceptTimesOut ==
  /\ mpc = "accept" /\ \A c \in Conns : cpc[c] # "queued"
  /\ mpc' = "loop"
  /\ UNCHANGED <<sessionVars, stop, bound, cpc, req, answer, jlock, left, held, bad>>

(* SIGINT or SIGTERM.                                                      *)
Signal ==
  /\ bound /\ ~stop
  /\ stop' = TRUE
  /\ UNCHANGED <<sessionVars, mpc, bound, cpc, req, answer, jlock, left, held, bad>>

(* ss.close() and unlink: connections nobody accepted are reset.           *)
CloseListener ==
  /\ mpc = "closing"
  /\ bound' = FALSE /\ mpc' = "closed"
  /\ cpc' = [c \in Conns |-> IF cpc[c] = "queued" THEN "done" ELSE cpc[c]]
  /\ UNCHANGED <<sessionVars, stop, req, answer, jlock, left, held, bad>>

(* finally: shutdown_sessions(), and once more from atexit.                *)
MainShutdown ==
  /\ mpc \in {"closed", "atexit"}
  /\ ShutdownSessions
  /\ mpc' = IF mpc = "closed" THEN "atexit" ELSE "exited"
  /\ UNCHANGED <<stop, bound, cpc, req, answer, jlock, left, held, bad>>

-----------------------------------------------------------------------------
(* Clients.                                                                *)
Connect(c) ==
  /\ bound /\ cpc[c] = "new"
  /\ Goto(c, "queued")
  /\ UNCHANGED <<sessionVars, mpc, stop, bound, req, answer, jlock, left, held, bad>>

Send(c) ==
  /\ cpc[c] \in {"queued", "reading"} /\ req[c] = NoRequest
  /\ \E r \in Requests : req' = [req EXCEPT ![c] = r]
  /\ UNCHANGED <<sessionVars, mpc, stop, bound, cpc, answer, jlock, left, held, bad>>

(* The client closes without a request: the thread sees the end of file.   *)
HangUp(c) ==
  /\ cpc[c] = "reading" /\ req[c] = NoRequest
  /\ Goto(c, "done")
  /\ UNCHANGED <<sessionVars, mpc, stop, bound, req, answer, jlock, left, held, bad>>

-----------------------------------------------------------------------------
(* The connection's thread.                                                *)
Control(c) ==
  /\ cpc[c] = "reading" /\ req[c].op \in {"ping", "health", "shutdown", "bad"}
  /\ stop' = (stop \/ req[c].op = "shutdown")
  /\ answer' = [answer EXCEPT ![c] = IF req[c].op = "bad" THEN "error" ELSE "control"]
  /\ Goto(c, "reply")
  /\ UNCHANGED <<sessionVars, mpc, bound, req, jlock, left, held, bad>>

Queue(c) ==
  /\ cpc[c] = "reading" /\ req[c].op = "run"
  /\ Goto(c, "lock")
  /\ UNCHANGED <<sessionVars, mpc, stop, bound, req, answer, jlock, left, held, bad>>

(* A dense job warms up and then counts its batches.                       *)
Gemms(r) == IF r.single THEN 1 ELSE Batches + 1

(* Variant: jobs are not serialized.                                       *)
LockFree(c) ==
  /\ cpc[c] = "lock"
  /\ jlock' = c /\ Goto(c, "job")
  /\ left' = [left EXCEPT ![c] = Gemms(req[c])]
  /\ UNCHANGED <<sessionVars, mpc, stop, bound, req, answer, held, bad>>

Lock(c) ==
  /\ cpc[c] = "lock" /\ jlock = NoConn
  /\ jlock' = c /\ Goto(c, "job")
  /\ left' = [left EXCEPT ![c] = Gemms(req[c])]
  /\ UNCHANGED <<sessionVars, mpc, stop, bound, req, answer, held, bad>>

(* compare_oneshot of a job on a VE: ve_exec before the AVEO GEMMs.        *)
OneshotFirst(c) == req[c].path = "aveo" /\ req[c].oneshot

(* Variant: the session is not freed before ve_exec.                       *)
BeginJobKeeps(c) ==
  /\ cpc[c] = "job"
  /\ Goto(c, CASE req[c].path = "host"   -> "end"
               [] req[c].path = "raises" -> "raise"
               [] OneshotFirst(c)        -> "oneshot"
               [] OTHER                  -> "get")
  /\ UNCHANGED <<sessionVars, mpc, stop, bound, req, answer, jlock, left, held, bad>>

(* Load the operands, choose a path.                                       *)
BeginJob(c) ==
  /\ cpc[c] = "job"
  /\ Goto(c, CASE req[c].path = "host"   -> "end"
               [] req[c].path = "raises" -> "raise"
               [] OneshotFirst(c)        -> "oneshot"
               [] OTHER                  -> "get")
  /\ IF OneshotFirst(c) THEN ShutdownSessions ELSE UNCHANGED sessionVars
  /\ UNCHANGED <<mpc, stop, bound, req, answer, jlock, left, held, bad>>

(* run_ve_dgemm_shard: ve_exec has the node until it ends, or fails.       *)
OneshotEnds(c) ==
  /\ cpc[c] = "oneshot"
  /\ \/ Goto(c, "get")
     \/ SessionFaults \cap {"open", "call"} # {} /\ Goto(c, "raise")
  /\ UNCHANGED <<sessionVars, mpc, stop, bound, req, answer, jlock, left, held, bad>>

(* get_aveo_pool with the job's shape; what it returns is not kept.        *)
PinJob(c) ==
  /\ cpc[c] = "get"
  /\ \E p \in {NoPool} \cup Pools :
       /\ GetAveoPool({req[c].node}, req[c].shape, req[c].mode, p)
       /\ Goto(c, IF p = NoPool THEN "raise" ELSE "gemm")
  /\ UNCHANGED <<mpc, stop, bound, req, answer, jlock, left, held, bad>>

(* The warm-up multiplies the operands' first 32 rows and columns, the     *)
(* unit of Shapes.                                                         *)
GemmShape(c) == IF left[c] > Batches THEN [m |-> 1, n |-> 1, k |-> 1] ELSE req[c].shape

(* dgemm_shared_aveo: get_aveo_pool again for every GEMM ...               *)
GemmGet(c) ==
  /\ cpc[c] = "gemm"
  /\ \E p \in {NoPool} \cup Pools :
       /\ GetAveoPool({req[c].node}, GemmShape(c), req[c].mode, p)
       /\ held' = [held EXCEPT ![c] = p]
       /\ Goto(c, IF p = NoPool THEN "raise" ELSE "call")
  /\ UNCHANGED <<mpc, stop, bound, req, answer, jlock, left, bad>>

(* ... self._sessions[ve_node] raises once the pool was stopped.           *)
GemmCall(c) ==
  /\ cpc[c] = "call"
  /\ Goto(c, IF pstate[held[c]] = "open" THEN "using" ELSE "raise")
  /\ UNCHANGED <<sessionVars, mpc, stop, bound, req, answer, jlock, left, held, bad>>

Computes(c) == /\ pstate[held[c]] = "open"
               /\ Fits(GemmShape(c), cap[held[c]][req[c].node])

(* The device refuses or fails the call: rc is not 0, the result buffer is *)
(* as np.empty left it, and nobody looks at r.status.  The warm-up's       *)
(* result is not looked at in any way.                                     *)
GemmEnds(c) ==
  /\ cpc[c] = "using"
  /\ \/ Computes(c) /\ UNCHANGED bad
     \/ /\ ~Computes(c)
        /\ bad' = IF left[c] <= Batches THEN [bad EXCEPT ![c] = "pool"] ELSE bad
     \/ /\ Computes(c) /\ "call" \in SessionFaults
        /\ bad' = IF left[c] <= Batches /\ bad[c] = "no" THEN [bad EXCEPT ![c] = "call"]
                                                        ELSE bad
  /\ left' = [left EXCEPT ![c] = @ - 1]
  /\ held' = [held EXCEPT ![c] = NoPool]
  /\ Goto(c, IF left[c] = 1 THEN "end" ELSE "gemm")
  /\ UNCHANGED <<sessionVars, mpc, stop, bound, req, answer, jlock>>

(* The session was freed under the running call: the process may die.      *)
CallCrashes(c) ==
  /\ cpc[c] = "using" /\ pstate[held[c]] # "open"
  /\ mpc' = "exited"
  /\ UNCHANGED <<sessionVars, stop, bound, cpc, req, answer, jlock, left, held, bad>>

(* The response: "ok" when the job's status is "pass".                     *)
Respond(c, a) == answer' = [answer EXCEPT ![c] = a]

(* status is "pass" when the largest error is small.  Over a buffer nobody *)
(* wrote that is left to chance: it may hold the product of the last GEMM, *)
(* or NaNs, which max() drops.                                             *)
EndJob(c) ==
  /\ cpc[c] = "end"
  /\ \E s \in {"pass", "fail"} :
       /\ s = "fail" => bad[c] # "no"
       /\ Respond(c, s)
  /\ IF req[c].close THEN ShutdownSessions ELSE UNCHANGED sessionVars
  /\ jlock' = NoConn /\ Goto(c, "reply")
  /\ UNCHANGED <<mpc, stop, bound, req, left, held, bad>>

(* Variant: a job that raises does not release the lock.                   *)
JobRaisesLocked(c) ==
  /\ cpc[c] = "raise"
  /\ Respond(c, "error")
  /\ Goto(c, "reply")
  /\ UNCHANGED <<sessionVars, mpc, stop, bound, req, jlock, left, held, bad>>

JobRaises(c) ==
  /\ cpc[c] = "raise"
  /\ Respond(c, "error")
  /\ jlock' = NoConn /\ Goto(c, "reply")
  /\ UNCHANGED <<sessionVars, mpc, stop, bound, req, left, held, bad>>

(* Write the response, close the connection.                               *)
Reply(c) ==
  /\ cpc[c] = "reply"
  /\ Goto(c, "done")
  /\ UNCHANGED <<sessionVars, mpc, stop, bound, req, answer, jlock, left, held, bad>>

-----------------------------------------------------------------------------
MainStep == Boot \/ CheckStop \/ Accept \/ AcceptTimesOut \/ CloseListener \/ MainShutdown
Thread(c) ==
  \/ Control(c) \/ Queue(c) \/ Lock(c) \/ BeginJob(c) \/ OneshotEnds(c)
  \/ PinJob(c) \/ GemmGet(c) \/ GemmCall(c) \/ GemmEnds(c) \/ CallCrashes(c)
  \/ EndJob(c) \/ JobRaises(c) \/ Reply(c)
Client(c) == Connect(c) \/ Send(c) \/ HangUp(c)

(* The daemon threads end with the process.                                *)
ServerNext ==
  /\ mpc # "exited"
  /\ MainStep \/ Signal \/ \E c \in Conns : Thread(c) \/ Client(c)

Exited == mpc = "exited" /\ UNCHANGED allVars

JobServerSpec == JobServerInit /\ [][ServerNext \/ Exited]_allVars

(* The main thread and every connection's thread are scheduled; clients    *)
(* and signals need never come.  A lock that is free again and again is    *)
(* in the end free for good, as each of the threads takes it once.         *)
FairJobServer ==
  /\ JobServerSpec
  /\ WF_allVars(mpc # "exited" /\ MainStep)
  /\ \A c \in Conns : WF_allVars(mpc # "exited" /\ Thread(c))

-----------------------------------------------------------------------------
(* While the server serves, a GEMM in flight keeps its pool: no other      *)
(* connection's job stops it, replaces it or pins it anew under the call,  *)
(* and its buffers take the operands.                                      *)
GemmKeepsPool == \A c \in Conns : Serving /\ cpc[c] = "using" => Computes(c)

(* "ve_exec and AVEO cannot share a VE node": while ve_exec runs on a node *)
(* no AVEO session is open, neither the shared one nor a forgotten one.    *)
OneshotAlone == \A c \in Conns : cpc[c] = "oneshot" => \A p \in Pools : pstate[p] # "open"

(* While it serves, a job that is answered "pass" was computed, but for    *)
(* what the device itself failed: no counted GEMM found its pool gone, or  *)
(* its buffers too small.                                                  *)
PassIsComputed == \A c \in Conns : Serving /\ answer[c] = "pass" => bad[c] # "pool"

(* A request on an accepted connection is answered, or the server exits.   *)
RequestAnswered ==
  \A c \in Conns : cpc[c] = "reading" /\ req[c] # NoRequest
                     ~> cpc[c] = "done" \/ mpc = "exited"

(* A shutdown request or a signal ends the process, whatever the jobs do.  *)
StopExits == stop ~> mpc = "exited"
=============================================================================
