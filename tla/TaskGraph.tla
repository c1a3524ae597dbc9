----------------------------- MODULE TaskGraph -----------------------------
(***************************************************************************)
(* run_task_graph (bridge/task_graph_bridge.py): a job graph is handed to  *)
(* the uni scheduler when there is one, and run by the local asyncio       *)
(* executor when there is none or it raises.  The local executor goes in   *)
(* waves: gather a task for each node whose dependencies are done, then    *)
(* fold the results.  Each task reserves its device's power in a PowerCap  *)
(* (power.py, its local accounting) around run_fn.                         *)
(*                                                                         *)
(* The event loop is one thread: a run_fn that returns no coroutine holds  *)
(* it until it returns, the others only to their first await.              *)
(*                                                                         *)
(* SpmvGemm... is the one graph the bridge builds itself                   *)
(* (build_spmv_gemm_graph_fns).                                            *)
(***************************************************************************)
EXTENDS Integers, Sequences, FiniteSets, Functions

CONSTANTS
  Tasks,      \* the nodes of the graph
  Names,      \* the names "depends_on" may hold, nodes or not
  Graphs,     \* the dependencies tried: functions from Tasks to sets of names
  Device,     \* each node's "device"
  Watts,      \* each node's estimate_power(device, op)
  Limit,      \* effective_limit of the power cap
  Async,      \* the nodes whose run_fn returns a coroutine that suspends
  Raises,     \* the nodes whose run_fn may raise
  Reports,    \* the nodes whose run_fn may return {"status": "fail"}
  Critical,   \* critical_nodes
  WithUni     \* prefer_uni, and the uni scheduler can be imported

ASSUME TaskGraphAssumption ==
  /\ Tasks \subseteq Names /\ IsFiniteSet(Tasks)
  /\ Graphs \subseteq [Tasks -> SUBSET Names]
  /\ Watts \in [Tasks -> Nat \ {0}] /\ Limit \in Nat
  /\ DOMAIN Device = Tasks
  /\ Async \subseteq Tasks /\ Raises \subseteq Tasks /\ Reports \subseteq Tasks
  /\ Critical \subseteq Tasks
  /\ WithUni \in BOOLEAN

VARIABLES
  deps,      \* the graph
  pc,        \* "uni": graph.execute runs; "wave": pick the ready nodes;
             \* "gather": their tasks run; "end"
  backend,   \* which executor ran the graph last
  uni,       \* what the uni scheduler has of each node
  done,      \* the local executor's results; "none" is pending
  tpc,       \* the task of each node of the wave
  out,       \* what it returned
  reserved,  \* _reserved, 0 for a device without a reservation
  waited,    \* the tasks of this wave that were over the cap
  runs,      \* history: how often the local executor called each run_fn
  status     \* of the BridgeGraphResult; "raised" when there is none

vars == <<deps, pc, backend, uni, done, tpc, out, reserved, waited, runs, status>>

Devices  == {Device[t] : t \in Tasks}
Returned == {"pass", "payfail"}      \* a dict whose own status may be "fail"
Outcomes == Returned \cup {"fail"}   \* run_fn raised
Pending  == {t \in Tasks : done[t] = "none"}
Wave     == {t \in Tasks : tpc[t] # "idle"}
Running  == {t \in Tasks : tpc[t] = "run"}

TypeOK ==
  /\ deps \in Graphs
  /\ pc \in {"uni", "wave", "gather", "end"}
  /\ backend \in {"uni", "local"}
  /\ uni \in [Tasks -> {"none", "pass", "fail"}]
  /\ done \in [Tasks -> {"none", "skip"} \cup Outcomes]
  /\ tpc \in [Tasks -> {"idle", "start", "sleep", "run", "ended"}]
  /\ out \in [Tasks -> {"none"} \cup Outcomes]
  /\ DOMAIN reserved = Devices
  /\ \A d \in Devices : reserved[d] \in {0} \cup {Watts[t] : t \in {u \in Tasks : Device[u] = d}}
  /\ waited \subseteq Tasks
  /\ runs \in [Tasks -> Nat]
  /\ status \in {"none", "pass", "fail", "raised"}

Init ==
  /\ deps \in Graphs
  /\ pc = IF WithUni THEN "uni" ELSE "wave"
  /\ backend = IF WithUni THEN "uni" ELSE "local"
  /\ uni = [t \in Tasks |-> "none"] /\ done = [t \in Tasks |-> "none"]
  /\ tpc = [t \in Tasks |-> "idle"] /\ out = [t \in Tasks |-> "none"]
  /\ reserved = [d \in Devices |-> 0] /\ waited = {}
  /\ runs = [t \in Tasks |-> 0] /\ status = "none"

-----------------------------------------------------------------------------
(* SpMV, scale, GEMM: a chain, whose nodes hand the matrix on in a dict.   *)
SpmvGemmDeps == [t \in {"spmv", "prep", "gemm"} |->
  CASE t = "spmv" -> {} [] t = "prep" -> {"spmv"} [] t = "gemm" -> {"prep"}]

(* The GEMM holds the power of the first VE only, wherever its plan runs.  *)
SpmvGemmDevice(phi, devices) == [t \in {"spmv", "prep", "gemm"} |->
  CASE t = "prep" /\ phi -> "phi0"
    [] t = "gemm" /\ devices # <<>> -> Head(devices)
    [] OTHER -> "host"]

(* The builder of the matrix and execute_plan may raise; for a Phi that    *)
(* raises the host scales, but a wrong result is only reported, as that of *)
(* the GEMM is.                                                            *)
SpmvGemmRaises == {"spmv", "gemm"}
SpmvGemmReports(phi) == {"gemm"} \cup (IF phi THEN {"prep"} ELSE {})

SpmvGemmCritical == {"gemm"}

-----------------------------------------------------------------------------
(* The uni scheduler, which is not part of this repository: it calls the   *)
(* run_fn of nodes in the order of their dependencies ...                  *)
UniRuns(t) ==
  /\ pc = "uni" /\ uni[t] = "none"
  /\ \A d \in deps[t] : d \in Tasks /\ uni[d] # "none"
  /\ \E o \in {"pass"} \cup {"fail" : u \in {t} \cap (Raises \cup Reports)} :
       uni' = [uni EXCEPT ![t] = o]
  /\ UNCHANGED <<deps, pc, backend, done, tpc, out, reserved, waited, runs, status>>

(* ... and returns the results it has: a node without one is "missing".    *)
UniReturns ==
  /\ pc = "uni"
  /\ status' = IF \E c \in Critical : uni[c] # "pass" THEN "fail" ELSE "pass"
  /\ pc' = "end"
  /\ UNCHANGED <<deps, backend, uni, done, tpc, out, reserved, waited, runs>>

(* It raises, after any of the nodes: the local executor starts anew.      *)
UniRaises ==
  /\ pc = "uni"
  /\ pc' = "wave" /\ backend' = "local" /\ uni' = [t \in Tasks |-> "none"]
  /\ UNCHANGED <<deps, done, tpc, out, reserved, waited, runs, status>>

-----------------------------------------------------------------------------
(* "while pending": the ready nodes, a task for each.                      *)
Ready == {t \in Pending : \A d \in deps[t] : d \in Tasks /\ done[d] # "none"}

StartWave ==
  /\ pc = "wave" /\ Ready # {}
  /\ tpc' = [t \in Tasks |-> IF t \in Ready THEN "start" ELSE "idle"]
  /\ waited' = {}
  /\ pc' = "gather"
  /\ UNCHANGED <<deps, backend, uni, done, out, reserved, runs, status>>

(* "deadlock or missing deps"                                              *)
Deadlocked ==
  /\ pc = "wave" /\ Pending # {} /\ Ready = {}
  /\ status' = "raised" /\ pc' = "end"
  /\ UNCHANGED <<deps, backend, uni, done, tpc, out, reserved, waited, runs>>

(* Variant: only the critical nodes are looked at.                         *)
VerdictOfCritical ==
  IF \E c \in Critical : done[c] \notin {"pass", "skip"} THEN "fail" ELSE "pass"

(* The result's status: any failed node, else the critical ones decide.    *)
Verdict ==
  IF \/ \E t \in Tasks : done[t] = "fail"
     \/ \E c \in Critical : done[c] \notin {"pass", "skip"}
  THEN "fail" ELSE "pass"

Finish ==
  /\ pc = "wave" /\ Pending = {}
  /\ status' = Verdict /\ pc' = "end"
  /\ UNCHANGED <<deps, backend, uni, done, tpc, out, reserved, waited, runs>>

-----------------------------------------------------------------------------
(* The tasks of a wave.                                                    *)
LoopIsFree == Running \subseteq Async

(* Variants: a second reservation of a device adds to the first; a task    *)
(* that raised does not release; only the task itself is counted.          *)
ReserveAdds(t) == reserved' = [reserved EXCEPT ![Device[t]] = @ + Watts[t]]
ReleaseUnlessFailed(t) ==
  reserved' = IF out'[t] = "fail" THEN reserved ELSE [reserved EXCEPT ![Device[t]] = 0]
CanLaunchAlone(t) == Watts[t] <= Limit

Reserve(t) == reserved' = [reserved EXCEPT ![Device[t]] = Watts[t]]
Release(t) == reserved' = [reserved EXCEPT ![Device[t]] = 0]

CanLaunch(t) == SumFunction(reserved) + Watts[t] <= Limit

(* Each task's first step, until it suspends.                              *)
Launch(t) ==
  /\ LoopIsFree /\ tpc[t] = "start" /\ CanLaunch(t)
  /\ Reserve(t) /\ tpc' = [tpc EXCEPT ![t] = "run"]
  /\ runs' = [runs EXCEPT ![t] = @ + 1]
  /\ UNCHANGED <<deps, pc, backend, uni, done, out, waited, status>>

OverCap(t) ==
  /\ LoopIsFree /\ tpc[t] = "start" /\ ~CanLaunch(t)
  /\ tpc' = [tpc EXCEPT ![t] = "sleep"] /\ waited' = waited \cup {t}
  /\ UNCHANGED <<deps, pc, backend, uni, done, out, reserved, runs, status>>

(* Variant: the task sleeps again until there is room.                     *)
WakeWhenFits(t) ==
  /\ LoopIsFree /\ tpc[t] = "sleep"
  /\ IF CanLaunch(t)
     THEN /\ Reserve(t) /\ tpc' = [tpc EXCEPT ![t] = "run"]
          /\ runs' = [runs EXCEPT ![t] = @ + 1]
          /\ UNCHANGED <<deps, pc, backend, uni, done, out, waited, status>>
     ELSE UNCHANGED vars

(* After its 50 ms the task reserves without looking again.  By then every *)
(* task of the wave has had its first step.                                *)
Wake(t) ==
  /\ LoopIsFree /\ tpc[t] = "sleep" /\ \A u \in Tasks : tpc[u] # "start"
  /\ Reserve(t) /\ tpc' = [tpc EXCEPT ![t] = "run"]
  /\ runs' = [runs EXCEPT ![t] = @ + 1]
  /\ UNCHANGED <<deps, pc, backend, uni, done, out, waited, status>>

(* run_fn returns or raises; finally releases the device, whoever else has *)
(* reserved it.  (A run_fn that guards its own device with the same cap, as *)
(* in examples/, has released it before, or raised.)                       *)
RunReturns(t) ==
  /\ tpc[t] = "run"
  /\ t \in Async => LoopIsFree /\ \A u \in Tasks : tpc[u] # "start"
  /\ \E o \in Outcomes :
       /\ o = "fail" => t \in Raises
       /\ o = "payfail" => t \in Reports
       /\ out' = [out EXCEPT ![t] = o]
  /\ Release(t) /\ tpc' = [tpc EXCEPT ![t] = "ended"]
  /\ UNCHANGED <<deps, pc, backend, uni, done, waited, runs, status>>

(* Variant: a failed node does not end the graph.                          *)
GatheredGoesOn ==
  /\ pc = "gather" /\ \A t \in Wave : tpc[t] = "ended"
  /\ done' = [t \in Tasks |-> IF t \in Wave THEN out[t] ELSE done[t]]
  /\ tpc' = [t \in Tasks |-> "idle"] /\ out' = [t \in Tasks |-> "none"]
  /\ waited' = {} /\ pc' = "wave"
  /\ UNCHANGED <<deps, backend, uni, reserved, runs, status>>

(* The results, in the order of the wave, which is that of a set: all of   *)
(* them, or some that passed and the first that failed, and then every     *)
(* other node is skipped, those that ran included.                         *)
Gathered ==
  /\ pc = "gather" /\ \A t \in Wave : tpc[t] = "ended"
  /\ \/ /\ \A t \in Wave : out[t] # "fail"
        /\ done' = [t \in Tasks |-> IF t \in Wave THEN out[t] ELSE done[t]]
     \/ \E f \in Wave, before \in SUBSET Wave :
          /\ out[f] = "fail" /\ \A t \in before : out[t] # "fail"
          /\ done' = [t \in Tasks |-> CASE t \in before \cup {f} -> out[t]
                                        [] t \in Pending \ (before \cup {f}) -> "skip"
                                        [] OTHER -> done[t]]
  /\ tpc' = [t \in Tasks |-> "idle"] /\ out' = [t \in Tasks |-> "none"]
  /\ waited' = {} /\ pc' = "wave"
  /\ UNCHANGED <<deps, backend, uni, reserved, runs, status>>

-----------------------------------------------------------------------------
Executor ==
  \/ StartWave \/ Deadlocked \/ Finish \/ Gathered
  \/ \E t \in Tasks : Launch(t) \/ OverCap(t) \/ Wake(t) \/ RunReturns(t)
Uni == UniReturns \/ UniRaises \/ \E t \in Tasks : UniRuns(t)

Ended == pc = "end" /\ UNCHANGED vars

Next == Executor \/ Uni \/ Ended

Spec == Init /\ [][Next]_vars

(* The event loop runs and every run_fn returns in the end.  The uni       *)
(* scheduler is trusted for as much.                                       *)
FairSpec == Spec /\ WF_vars(Executor) /\ WF_vars(UniReturns \/ UniRaises)

-----------------------------------------------------------------------------
(* A node runs only after every node it depends on has returned: results   *)
(* are recorded for failed and skipped nodes too, and "ready" asks for a   *)
(* record only.                                                            *)
DepsReturned ==
  \A t \in Running : \A d \in deps[t] : d \in Tasks /\ done[d] \in Returned

(* "pass" from the local executor is the status of a graph that ran: every *)
(* node once, none failed, and no critical one reports a failure.  What    *)
(* the uni scheduler did before it raised does not count.                  *)
PassMeansAllRan ==
  status = "pass" /\ backend = "local" =>
    /\ \A t \in Tasks : runs[t] = 1 /\ done[t] \in Returned
    /\ \A c \in Critical : done[c] = "pass"

(* A reservation never outlives the tasks of its device, whatever they     *)
(* return, and so none is left when the graph has ended.                   *)
NothingLeaks == \A d \in Devices : reserved[d] > 0 => \E t \in Running : Device[t] = d

(* Of the tasks whose device no other task of the wave has, those that did *)
(* not have to wait fit the cap together.  (One that waited reserves       *)
(* whatever the load; on a shared device a reservation hides the other,    *)
(* and the first task to end releases it for both.)                        *)
HasOwnDevice(t) == \A u \in Wave : Device[u] = Device[t] => u = t
Counted == {t \in Running \ waited : HasOwnDevice(t)}
CapHeldByOthers == SumFunctionOnSet(Watts, Counted) <= Limit

(* Every graph ends, one with a cycle or a missing name included.          *)
GraphEnds == <>(pc = "end")
=============================================================================
