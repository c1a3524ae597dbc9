------------------------------ MODULE PlanRun ------------------------------
(***************************************************************************)
(* GEMMs that are cut into shards: execute_plan (partition/runner.py), the *)
(* row-sharded multi-VE functions of the backends, the data planes over    *)
(* them (runtime/dataplane.py), run_spmv_dataprep_pipeline                 *)
(* (apps/spmv_dataprep.py), which scales, places and executes, and         *)
(* run_hetero_phi_ve_gemm (apps/hetero_pipeline.py), which scales and      *)
(* takes one of the multi-VE functions.  One thread calls, a thread per    *)
(* shard computes; the pools are those of VePools, the plans those of      *)
(* Placement.                                                              *)
(***************************************************************************)
EXTENDS Placement, VePools

CONSTANTS
  Shapes,      \* the extents tried, <<m, n, k>>
  Devices,     \* the VEs' numbers, in the order callers list them
  Backends,    \* the plan backends tried
  ShardFaults  \* whether a VE, a Phi or AVEO may fail a GEMM

ASSUME PlanRunAssumption ==
  /\ Shapes \subseteq Nat \X Nat \X Nat
  /\ Devices \in Seq(VeIds) /\ Len(Devices) > 0
  /\ Backends \subseteq {"VE_NLC", "PHI_MKL", "HOST_REF"}
  /\ ShardFaults \in BOOLEAN

VARIABLES
  pc,     \* the calling thread
  call,   \* what it calls, with which plan
  left,   \* the left operand: "raw", "scaled" or "junk"
  use,    \* the pool its shards use, NoPool for one-shot processes
  th,     \* the shards' threads
  c,      \* the result so far
  broken, \* history: an AVEO call returned an error code, not an exception
  out     \* how the last call ended

runVars == <<pc, call, left, use, th, c, broken, out>>
vars == <<poolVars, runVars>>

(* "plan": execute_plan;  "pipeline": the same, after scale and placement; *)
(* "pooled", "aveo", "file": the row-sharded multi-VE functions, over the  *)
(* VEs of ids.                                                             *)
Hows   == {"plan", "pipeline", "pooled", "aveo", "file"}
NoCall == [how |-> "plan", ids |-> {},
           plan |-> MakePlan("row_blocks", 0, 0, 0, <<0>>, "HOST_REF")]
Junk   == -1   \* a cell of a buffer nobody wrote

RunTypeOK ==
  /\ pc \in {"idle", "scale", "place", "route", "pick", "run", "join", "stop", "check"}
  /\ call.how \in Hows /\ call.ids \subseteq VeIds
  /\ left \in {"raw", "scaled", "junk"} /\ use \in {NoPool} \cup Pools
  /\ \A i \in DOMAIN th : th[i] \in {"run", "ok", "junk", "raised", "taken"}
  /\ broken \in BOOLEAN /\ out \in {"none", "host", "device", "raised"}

Init ==
  /\ PoolsInit
  /\ pc = "idle" /\ call = NoCall /\ left = "raw" /\ use = NoPool
  /\ th = <<>> /\ c = <<>> /\ broken = FALSE /\ out = "none"

plan == call.plan
Shards == DOMAIN plan.shards
IdsOf(p) == {p.shards[i].device : i \in DOMAIN p.shards}
Plain == call.how \in {"plan", "pipeline"}

-----------------------------------------------------------------------------
(* What a shard adds to C, and C after it: rows and columns are assigned,  *)
(* partial sums over K are added.                                          *)
Part(s, x) == IF In(x[3], s.ks) THEN 1 ELSE 0
With(p, s, old) ==
  [x \in Cells(p) |->
     CASE p.strategy = "k_split" -> old[x] + Part(s, x)
       [] p.strategy # "k_split" /\ InBlock(s, x) -> Part(s, x)
       [] OTHER -> old[x]]
JunkFrom(p, s, old) == [x \in Cells(p) |-> IF InBlock(s, x) THEN Junk ELSE old[x]]

(* _host_execute: the partial sums over K add up, of rows and columns the  *)
(* last assignment stays, on a C of zeros.                                 *)
Latest(s) == CHOOSE i \in s : \A j \in s : j <= i
HostExecute(p) ==
  [x \in Cells(p) |->
     LET writers == {i \in DOMAIN p.shards : InBlock(p.shards[i], x)}
     IN  CASE p.strategy = "k_split" ->
                Cardinality({i \in writers : Part(p.shards[i], x) = 1})
           [] p.strategy # "k_split" /\ writers # {} -> Part(p.shards[Latest(writers)], x)
           [] OTHER -> 0]

(* The largest error of an empty product: np.max raises.                   *)
Empty == plan.m * plan.n = 0

Goto(where) == pc' = where
Ends(how)   == out' = how /\ pc' = "idle"

-----------------------------------------------------------------------------
(* The calls, made one after the other.  A session_scope asks for a worker *)
(* pool; a data plane or a multi-batch call ("batch") opens a pool of its  *)
(* own and keeps it over its GEMMs.                                        *)
IdSets == {{Devices[i] : i \in 1..l} : l \in DOMAIN Devices}
InBatch == hold # NoPool /\ shared = hold

(* The caller has looked at the last call's result.                        *)
Forget ==
  /\ pc = "idle" /\ call # NoCall
  /\ UNCHANGED <<poolVars, pc>>
  /\ call' = NoCall /\ left' = "raw" /\ use' = NoPool
  /\ th' = <<>> /\ c' = <<>> /\ broken' = FALSE /\ out' = "none"

Free == pc = "idle" /\ call = NoCall

SessionCall ==
  /\ Free /\ ~InBatch
  /\ \/ ShutdownWorkers
     \/ \E ids \in IdSets : GetWorkerPool(ids)
  /\ UNCHANGED runVars

PlaneOpens ==
  /\ Free
  /\ \E ids \in IdSets, k \in {"worker", "aveo", "batch"} :
       OpenHold(IF k = "aveo" THEN k ELSE "worker", ids, k = "batch")
  /\ UNCHANGED runVars

PlaneCloses == Free /\ CloseHold(InBatch) /\ UNCHANGED runVars

Call(how, ids, p) ==
  /\ call' = [how |-> how, ids |-> ids, plan |-> p]
  /\ c' = Zeros(p) /\ th' = <<>> /\ use' = NoPool /\ broken' = FALSE /\ out' = "none"

(* execute_plan on a plan somebody has built.                              *)
CallPlan ==
  /\ Free
  /\ \E s \in Strategies, x \in Shapes, size \in DOMAIN Devices, b \in Backends :
       LET devs == Pick(Devices, 1..size) IN
         /\ Buildable(s, x[1], x[2], x[3], devs)
         /\ Call("plan", {}, MakePlan(s, x[1], x[2], x[3], devs, b))
  /\ left' = "scaled" /\ Goto("route")
  /\ UNCHANGED poolVars

(* partition_to_devices, for the multi-VE functions: over the VEs of the   *)
(* open plane, or any.                                                     *)
CallRows ==
  /\ Free /\ ~InBatch
  /\ \E how \in {"pooled", "aveo", "file"}, x \in Shapes, size \in DOMAIN Devices :
       LET devs == Pick(Devices, 1..size)
           ids  == {devs[i] : i \in DOMAIN devs}
           kind == IF how = "pooled" THEN "worker" ELSE "aveo"
       IN  /\ Buildable("row_blocks", x[1], x[2], x[3], devs)
           /\ Call(how, ids, MakePlan("row_blocks", x[1], x[2], x[3], devs, "VE_NLC"))
           /\ how = "pooled" => hold # NoPool
           /\ hold # NoPool /\ how # "file" => pool[hold].kind = kind /\ pool[hold].ids = ids
  /\ left' = "scaled" /\ Goto("pick")
  /\ UNCHANGED poolVars

(* The pipeline: SpMV gives the raw operand.                               *)
CallPipeline ==
  /\ Free /\ ~InBatch
  /\ \E x \in Shapes :
       Call("pipeline", {}, MakePlan("row_blocks", x[1], x[2], x[3], <<0>>, "HOST_REF"))
  /\ left' = "raw" /\ Goto("scale")
  /\ UNCHANGED poolVars

(* run_hetero_phi_ve_gemm: any pool it needs is its own.                   *)
CallHetero ==
  /\ Free /\ hold = NoPool
  /\ \E how \in {"pooled", "aveo", "file"}, x \in Shapes, size \in DOMAIN Devices :
       LET devs == Pick(Devices, 1..size) IN
         /\ Buildable("row_blocks", x[1], x[2], x[3], devs)
         /\ Call(how, {devs[i] : i \in DOMAIN devs},
                 MakePlan("row_blocks", x[1], x[2], x[3], devs, "VE_NLC"))
  /\ left' = "raw" /\ Goto("scale")
  /\ UNCHANGED poolVars

-----------------------------------------------------------------------------
(* run_phi_prep_scale raises, reports a wrong result or a right one; but   *)
(* for the last the pipeline's host scales, and the hetero GEMM raises.    *)
PhiScales == {"scaled"} \cup (IF ShardFaults THEN {"junk", "raises"} ELSE {})
Scale ==
  /\ pc = "scale"
  /\ \E y \in PhiScales :
       \/ /\ y = "scaled" \/ Plain
          /\ left' = "scaled"
          /\ Goto(IF Plain THEN "place" ELSE "pick")
          /\ UNCHANGED out
       \/ /\ y # "scaled" /\ ~Plain
          /\ left' = IF y = "junk" THEN "junk" ELSE left
          /\ Ends("raised")
  /\ UNCHANGED <<poolVars, call, use, th, c, broken>>

(* Under a cap that leaves room for so many VEs: the longest prefix of the *)
(* devices that can be launched, the placement among them.  No devices, or *)
(* force_host_gemm, means the host; no room or no plan raises, and so does *)
(* an empty product.                                                       *)
Place ==
  /\ pc = "place"
  /\ \/ /\ c' = Product(plan) /\ Ends(IF Empty THEN "raised" ELSE "host")
        /\ UNCHANGED call
     \/ \E room \in 0..Len(Devices) :
          LET devs == Pick(Devices, 1..room)
              chosen == IF room = 0 THEN {}
                        ELSE Chosen(plan.m, plan.n, plan.k, devs, "VE_NLC", room)
          IN  \/ chosen = {} /\ Ends("raised") /\ UNCHANGED <<call, c>>
              \/ \E p \in chosen :
                   /\ call' = [call EXCEPT !.plan = p]
                   /\ c' = Zeros(p) /\ Goto("route") /\ UNCHANGED out
  /\ UNCHANGED <<poolVars, left, use, th, broken>>

-----------------------------------------------------------------------------
(* execute_plan's choice of a path.                                        *)
OnHost == plan.backend = "HOST_REF" \/ plan.shards = <<>>
AveoAlone == shared = NoPool /\ Len(plan.shards) = 1 /\ plan.strategy # "k_split"

RouteHost ==
  /\ pc = "route"
  /\ OnHost \/ (plan.backend = "PHI_MKL" /\ Len(plan.shards) > 1)
  /\ c' = HostExecute(plan) /\ Goto("check")
  /\ UNCHANGED <<poolVars, call, left, use, th, broken, out>>

(* run_phi_dgemm: what it raises reaches the caller.                       *)
RoutePhi ==
  /\ pc = "route" /\ ~OnHost
  /\ plan.backend = "PHI_MKL" /\ Len(plan.shards) = 1
  /\ \/ ~Empty /\ c' = Product(plan) /\ Goto("check") /\ UNCHANGED out
     \/ (ShardFaults \/ Empty) /\ Ends("raised") /\ UNCHANGED c
  /\ UNCHANGED <<poolVars, call, left, use, th, broken>>

(* A session of its own for the one shard.  An error code of the GEMM is   *)
(* no exception: np.empty's buffer is returned.  A session that does not   *)
(* open is skipped, and so is a result that cannot be checked.             *)
RouteAveo ==
  /\ pc = "route" /\ ~OnHost /\ plan.backend = "VE_NLC" /\ AveoAlone
  /\ \/ /\ ~Empty /\ c' = With(plan, plan.shards[1], c) /\ Ends("device")
        /\ UNCHANGED broken
     \/ /\ ShardFaults /\ ~Empty
        /\ c' = JunkFrom(plan, plan.shards[1], c) /\ broken' = TRUE /\ Ends("device")
     \/ Goto("pick") /\ UNCHANGED <<c, broken, out>>
  /\ UNCHANGED <<poolVars, call, left, use, th>>

RouteWorkers ==
  /\ pc = "route" /\ ~OnHost /\ plan.backend = "VE_NLC" /\ ~AveoAlone
  /\ Goto("pick")
  /\ UNCHANGED <<poolVars, call, left, use, th, c, broken, out>>

-----------------------------------------------------------------------------
Submit(p) == use' = p /\ th' = [i \in Shards |-> "run"] /\ Goto("run")
Fallback  == c' = HostExecute(plan) /\ Goto("check") /\ UNCHANGED out

(* Variant: the workers are tried again.                                   *)
RaisesAgain == Goto("pick") /\ c' = Zeros(plan) /\ UNCHANGED out

(* What a raised exception leads to: execute_plan computes on the host.    *)
Raises == IF Plain THEN Fallback ELSE (Ends("raised") /\ UNCHANGED c)

(* The pool that is there, or one started for this GEMM.                   *)
Given == CASE Plain /\ shared # NoPool /\ IdsOf(plan) \subseteq pool[shared].ids -> shared
           [] call.how \in {"pooled", "aveo"} -> hold
           [] OTHER -> NoPool
OwnKind == IF call.how = "aveo" THEN "aveo" ELSE "worker"
OwnIds  == IF Plain THEN IdsOf(plan) ELSE call.ids

(* ThreadPoolExecutor(0) raises; multi_ve_layout_dgemm needs none then.    *)
PickNone ==
  /\ pc = "pick" /\ plan.shards = <<>>
  /\ IF call.how = "file" THEN (Goto("check") /\ UNCHANGED out) ELSE Ends("raised")
  /\ UNCHANGED <<poolVars, call, left, use, th, c, broken>>

PickGiven ==
  /\ pc = "pick" /\ plan.shards # <<>> /\ (Given # NoPool \/ call.how = "file")
  /\ Submit(Given)
  /\ UNCHANGED <<poolVars, call, left, c, broken, out>>

PickOwn ==
  /\ pc = "pick" /\ plan.shards # <<>> /\ Given = NoPool /\ call.how # "file"
  /\ \/ /\ StartOwn(OwnKind, OwnIds) /\ Submit(own')
        /\ UNCHANGED <<c, out>>
     \/ /\ OwnFails /\ Raises
        /\ UNCHANGED <<use, th>>
  /\ UNCHANGED <<call, left, broken>>

(* A shard's thread: its worker computes, or the GEMM raises; a worker of  *)
(* a stopped pool is not found.  AVEO may return an error code.            *)
HasWorker(i) == use # NoPool => plan.shards[i].device \in pool[use].up
ShardEnds(i) ==
  /\ pc \in {"run", "join"} /\ th[i] = "run"
  /\ \/ /\ HasWorker(i) /\ ~Empty
        /\ th' = [th EXCEPT ![i] = "ok"]
     \/ /\ ShardFaults \/ Empty \/ ~HasWorker(i)
        /\ th' = [th EXCEPT ![i] = "raised"]
     \/ /\ ShardFaults /\ call.how = "aveo"
        /\ th' = [th EXCEPT ![i] = "junk"]
  /\ UNCHANGED <<poolVars, pc, call, left, use, c, broken, out>>

(* as_completed: the results are taken in the order they come in.          *)
Take(i) ==
  /\ pc = "run" /\ th[i] \in {"ok", "junk"}
  /\ c' = IF th[i] = "ok" THEN With(plan, plan.shards[i], c)
                          ELSE JunkFrom(plan, plan.shards[i], c)
  /\ broken' = (broken \/ th[i] = "junk")
  /\ th' = [th EXCEPT ![i] = "taken"]
  /\ UNCHANGED <<poolVars, pc, call, left, use, out>>

(* The first exception, or the last result, leaves the loop.               *)
LeaveLoop ==
  /\ pc = "run"
  /\ (\E i \in Shards : th[i] = "raised") \/ (\A i \in Shards : th[i] = "taken")
  /\ Goto("join")
  /\ UNCHANGED <<poolVars, call, left, use, th, c, broken, out>>

(* Variant: the executor's block does not wait for the other threads.      *)
JoinNot ==
  /\ pc = "join"
  /\ Goto("stop")
  /\ UNCHANGED <<poolVars, call, left, use, th, c, broken, out>>

Join ==
  /\ pc = "join" /\ \A i \in Shards : th[i] # "run"
  /\ Goto("stop")
  /\ UNCHANGED <<poolVars, call, left, use, th, c, broken, out>>

(* Variant: what a shard raised is swallowed.                              *)
FinishSwallows ==
  /\ pc = "stop"
  /\ IF own = NoPool THEN UNCHANGED poolVars ELSE StopOwn
  /\ Goto("check")
  /\ UNCHANGED <<call, left, use, th, c, broken, out>>

(* finally: the GEMM's own pool is stopped.                                *)
Finish ==
  /\ pc = "stop"
  /\ IF own = NoPool THEN UNCHANGED poolVars ELSE StopOwn
  /\ IF \E i \in Shards : th[i] = "raised" THEN Raises
     ELSE (Goto("check") /\ UNCHANGED <<c, out>>)
  /\ UNCHANGED <<call, left, use, th, broken>>

(* The largest error, if it is asked for.                                  *)
Check ==
  /\ pc = "check" /\ call.how # "pipeline"
  /\ Ends("device") \/ (Empty /\ Ends("raised"))
  /\ UNCHANGED <<poolVars, call, left, use, th, c, broken>>

(* The pipeline always asks: against the host's own SpMV, scale and GEMM.  *)
CheckPipeline ==
  /\ pc = "check" /\ call.how = "pipeline"
  /\ Ends(IF Empty THEN "raised" ELSE "device")
  /\ UNCHANGED <<poolVars, call, left, use, th, c, broken>>

-----------------------------------------------------------------------------
Step == Scale \/ Place \/ RouteHost \/ RoutePhi \/ RouteAveo \/ RouteWorkers
        \/ PickNone \/ PickGiven \/ PickOwn \/ LeaveLoop \/ Join \/ Finish \/ Check \/ CheckPipeline
        \/ \E i \in DOMAIN th : Take(i)
Thread == \E i \in DOMAIN th : ShardEnds(i)
Environment == Forget \/ SessionCall \/ PlaneOpens \/ PlaneCloses
               \/ CallPlan \/ CallRows \/ CallPipeline \/ CallHetero

Next == Step \/ Thread \/ Environment
Spec == Init /\ [][Next]_vars

(* A GEMM on a device returns or raises (VeWorker and PhiWorker: within    *)
(* its timeout), and the caller takes what there is.                       *)
FairSpec == Spec /\ WF_vars(Step) /\ WF_vars(Thread)

TypeOK == PoolsTypeOK /\ RunTypeOK

-----------------------------------------------------------------------------
(* Whatever plan was chosen, whichever shard failed after others had       *)
(* written their part of C and whoever computed it again: a call that      *)
(* returns has every product a[i, l] * b[l, j] summed once into C, of the  *)
(* scaled operand.  The exception is AVEO's error code.                    *)
ResultIsProduct ==
  pc = "idle" /\ out \in {"host", "device"} /\ ~broken =>
    left = "scaled" /\ c = Product(plan)

(* More devices than rows, a remainder, any strategy: the operands of a    *)
(* call can be cut for any of the devices, and what the partition          *)
(* functions build is a tiling, which validate accepts.                    *)
PartitionTiles ==
  plan.m > 0 /\ plan.n > 0 /\ plan.k > 0 =>
    \A s \in Strategies, size \in DOMAIN Devices :
      Valid(MakePlan(s, plan.m, plan.n, plan.k, Pick(Devices, 1..size), "VE_NLC"))

(* No pool is stopped under a shard that runs in it.                       *)
StoppedOnlyUnused ==
  [][\A i \in DOMAIN th : th[i] = "run" /\ th' # <<>> /\ use # NoPool =>
       pool'[use].up = pool[use].up]_vars

(* Every call returns or raises.                                           *)
CallEnds == pc # "idle" ~> pc = "idle"
=============================================================================
