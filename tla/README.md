# Formal model of uni-tensor-layout

TLA+ modules, TLC configurations and TLAPS proofs for the stateful core of
`uni_cute_tensor` (`src/src/uni_cute_tensor/`): the protocols with which a host
drives NEC Vector Engines (VE) and a Xeon Phi, the device session they share,
the GEMMs that are cut into shards over them, the pipelines, and the job
server on top.

## 1. Inventory

| Component | State | Operations | Hard behaviour | Modelled |
|---|---|---|---|---|
| VE worker pool (`backends/ve_worker.py`, `kernels/ve/dgemm_worker.c`) | per VE a control directory (`job.cmd`, `job.go`, `job.status`, `job.log`), a worker process, result files | `start`, `_submit_raw` (from `run_combined`, `run_split`), `stop`; the worker's loop | two processes without a lock interleave file by file; crash, failed write, timeout with a late answer | yes |
| Phi worker (`backends/phi_worker.py`, `kernels/phi/phi_worker.c`) | the same directory on the card, one `in.bin`/`out.bin` for all jobs, the local ssh process | `start`, `scale`, `stop` | every host step is an ssh or scp that may fail; the ssh process and the worker end separately | yes |
| Shared AVEO session (`runtime/session.py`, `backends/ve_aveo.py`, `kernels/host/veo_dgemm_host.c`) | `_aveo` (nodes, pool, recorded pin), the VE processes, the device buffers and their capacities | `get_aveo_pool` (grow or strict), `shutdown_sessions`, `pin_all`, `dgemm_pinned` | a record on the host of buffers on a device: partial failure makes them differ | yes |
| Native GEMM calls (`veo_dgemm_host.c:119-424`) | two slots of device buffers, outstanding requests | session, pinned, one-shot, async and batch GEMM | slot reuse, errors with requests outstanding | yes |
| Worker pools of a process (`session.get_worker_pool`, `runner._REUSE_POOL`, data planes) | `_worker`, `_REUSE_POOL`, a plane's pool, a GEMM's own pool | get, set, clear, open, close, start, stop | several references to one pool | yes |
| Placement and plan execution (`partition/multi_device.py`, `runner.py`, `dispatch.py`, `backends/ve_dgemm.py`) | a plan with shards, the result they write into, a thread per shard | split, validate, choose, execute, fall back | ranges must tile; one shard of several fails | yes |
| Cost model (`partition/cost_model.py`) | calibration table | enumerate candidates, estimate, choose under a power cap | floating point | candidates and fallback |
| Data planes (`runtime/dataplane.py`) | an open plane | open, gemm, close | release when `open` fails | without timing |
| One-shot runs (`backends/ve_dgemm.py`, `phi_dgemm.py`, `phi_prep.py`, `host_dgemm.py`) | built programs on disk, files on the card, a process per call | build, stage, launch, read back | a half-built program, files shared by all callers, a run that goes on after its time limit | yes |
| Kernels (`kernels/`) | none between calls | GEMM and scaling loops | tails, padding, threads past the end | index arithmetic |
| Job server (`runtime/serve.py`, `runtime/job_runner.py`) | socket, `_stop`, `_lock`, counters, one daemon thread per connection | accept, request handling, jobs, shutdown | threads share the session; shutdown beside running jobs | without reports |
| Task graph bridge (`bridge/task_graph_bridge.py`), power cap (`power.py`) | `done`, `pending`, tasks, reservations by device | waves, reserve, release, fallback | asyncio interleaving, cap, failure inside a wave | local executor and cap |
| Heterogeneous pipelines (`apps/hetero_pipeline.py`, `apps/spmv_dataprep.py`) | prepared batches, pool, worker, reservation | overlap of batch i+1's preparation with batch i's GEMM | order of batches, release on every path | without sparse numerics |
| Power sampler (`power_sample.py`) | samples, stop event, thread | start, stop | restart beside a late thread | no |
| CLI, client, protocol, timeline, scripts | none of their own | | | no |
| Hardware tables, atoms | none | | | no |

Interaction: a job of the server calls `get_aveo_pool` / `shutdown_sessions`
(the session's own `RLock`, one call at a time) and uses the pool it got with
that lock released; `execute_plan` drives `VeWorkerPool`, one caller thread per
VE, over the pool somebody installed or one of its own; the pipelines drive
`PhiWorker` and `VeWorkerPool` from two threads; the task graph calls any of them as `run_fn`.

What makes each correct:

* workers: an answer belongs to the command that waits for it, a job runs at most
  once and only on a complete command, a result that is delivered is that of the
  job, every submission ends, `stop` leaves no worker behind;
* session: at most one pool is open, a pool that is returned takes the shape that
  was asked for, a device buffer is gone or as large as recorded;
* native calls: a slot serves one batch at a time, "ok" means every batch's own product, buffers are freed;
* plan execution: whatever fails and whoever computes again, each product is summed once into C; no
  pool is stopped under a shard, lost, or shared when it is down;
* one-shot runs: what is returned is the product of the caller's own operands;
* server: no GEMM loses its pool to another job, `ve_exec` has its node alone,
  "pass" means computed, every request is answered, a stop ends the process;
* graph and pipelines: dependencies first, an honest status, nothing left reserved or
  running, batches in order.

`hazards` in `PROJECT.json` names the lines where each could go wrong.

## 2. Modules

    ControlDir      control directory + worker loop
      VeWorker      + the host side of ve_worker.py        VeWorkerProofs
      PhiWorker     + the host side of phi_worker.py       PhiWorkerProofs
    JobChannel      what a worker promises (abstract)
    AveoSession     the shared session's operators
      SessionCalls  + any caller                           SessionProofs
      JobServer     + server threads and jobs              SessionProofs
    JobSpec         from a job's JSON to a request of JobServer
    BatchSlots      the native GEMM calls                  BatchSlotsProofs
    Partition       how a product is cut
      Placement     which cuts are weighed
      Kernels       the GEMM loops
        OneShot     + build, stage, run, read back         OneShotProofs
    VePools         who holds which workers
      PlanRun       Placement + VePools + the calls        PlanRunProofs
    TaskGraph       task graph executor and power cap      TaskGraphProofs
    MultiBatch      the two overlapped pipelines           MultiBatchProofs
    MC*             constants for TLC

An operator whose comment starts with "Variant" is never part of a
specification: it is a plausible bug, kept to show that a property would notice.

### ControlDir, VeWorker, PhiWorker

Every file operation is one step, because the two processes share nothing else:
`write_text` is a truncation (`OpenCmd`) and a write (`WriteCmd`), `fopen`/`fclose`
of `job.status` are `WOpenStatus` and `WCloseStatus`; `exists` and `unlink` of `job.go` are `CheckGo` and
`ClearGo`, since the worker unlinks it as well, and where it does so in between the submission raises (`GoVanished`). An unlinked file that is still open is
`handle = "orphan"`: what is written to it is never seen. Data is the number of
the job it belongs to. `statusOf`, `runs` and `verdict`, and the VE host's `of`, are history variables.
`cmd` starts with anything an earlier worker of the directory may have left.
QUIT is a command like any other, submitted by `stop`.

The worker's loop is one module because `main` of the two C programs is the same
protocol; `SharedFiles` says whether the jobs share operand and result files (Phi)
or have their own (VE). The abstraction of `run_combined`, `run_split` and
`run_scale` is: read operands, compute or fail, create the result file
(truncated), complete it.

`Faults` switches what may go wrong: `crash` (the worker dies at any step), `io` (a
write of the worker fails), `slow` (a job outlasts the host's wait), `link` (an ssh
or scp command fails, or the ssh process dies). What a failed command does to `PhiWorker` depends on who looks at it: a failed
deployment makes `start` raise (`DeployFails`), the `rm -f` of the old control files is not looked at and may have removed
none (`Start`), the control script and the copies of the data raise (`ControlFails`), a poll raises when its own 30 s run out
(`PollTimesOut`) and else counts for one that saw no answer (`PollIgnored`). A timeout without `slow` happens only
when nobody will answer: the limit is 300 s for a job.

`VeWorker` is the code of `_submit_raw`: whatever it reads but `FAIL` is success.
`PhiWorker` waits for `DONE` or `FAIL`. `JobChannel` (constant `Exact`) is the
promise of both: jobs are handed over in order, one at a time, run at most once,
and a reply is given only to a job that ran; with `Exact` the reply is the verdict.
`ImplementsChannel` says that each is a refinement: Phi of the exact channel, VE
of the inexact one only, which is the price of reading an empty `job.status`.

### AveoSession, SessionCalls, JobServer, JobSpec

`get_aveo_pool` and `shutdown_sessions` hold the lock throughout, so each is one
step with its outcomes as disjuncts (`Reuse`, `StrictRaises`, `Grow`, `GrowFails`,
`Replace`, `StartFails`, `FirstPinFails`). `cap` is what the C side allocated, `entry.pin` what
the host recorded; the host compares dimension by dimension (`Covers`), the
device by bytes, that is by products (`Fits`). `PinFailed` is a `pin_all` that raises at
a node: the nodes before it have new buffers, it has none, those after it the old.

`SessionCalls` lets any caller ask for anything, with `grant` the last call.
`JobServer` has the main thread (`mpc`), the job lock (`jlock`) and one thread per
connection (`cpc`); a dense job on a VE is: optional one-shot comparison
(after `shutdown_sessions`), `get_aveo_pool`, a warm-up of 32 x 32 x 32 (the unit of shapes) and `Batches` GEMMs, each
of which asks for the pool again, uses it without the session's lock, and ends computed or not (`bad`); `single` jobs
have one GEMM. A client may hang up, a signal may come, and the process
may die when the session is freed under a call. Everything after the end of the
accept loop (`CloseListener`, `MainShutdown`, again from `atexit`) runs without the job lock, as in the code.
`JobSpec` translates a job's JSON (type, devices, backend, pin mode) into what its thread does:
`_resolve_devices`, the choice between host and VE, the fields each type ignores, and operands from files: the shape a job has when
`matrix_a` or `matrix_b` is loaded, and the files it raises on (`LoadFails`). The requests of `server_safe` are computed with it.

### BatchSlots

One call of `veo_dgemm_host.c` on an open session. The host hands requests to the context
(`out`) and waits for results; `Execute` and `ExecuteFails` carry out any outstanding request, in any order, so
that nothing depends on the context's queue. A buffer holds the number of the batch whose data it has; a
freed one holds nothing. The five entry points are `op`; `LookedAt` says after which
transfers each looks at the code, and `unseen` records a failure that was overlooked. `AveoPlane`'s
`gemm_pinned` and `dgemm_pinned` are `"pinned"`.

### Partition, Placement, VePools, PlanRun

`Partition` is `_split_extent`, the partition functions and `validate` on boxes of integers. A cell
`<<i, j, l>>` stands for the term `A[i, l] * B[l, j]`, and C is how often each was summed: 1 is right. `Placement` is
the enumeration of `choose_best_placement`; its floating-point estimates are a free choice among the candidates, and
the power cap is a number of VEs. A call checks its operands before it plans (`Check`, `CheckPipeline`). `VePools` has the references to pools that a process keeps: the
session's, the installed one, a data plane's or multi-batch call's (`hold`) and a running GEMM's own. `PlanRun` is one calling
thread with its calls: `execute_plan` on any plan, the three row-sharded multi-VE functions,
`run_spmv_dataprep_pipeline` and `run_hetero_phi_ve_gemm`, each with a thread per shard. Between calls
sessions and planes come and go. An exception leads `execute_plan` to the host (`Fallback`), the others to their caller. `broken`
records AVEO's error code, which is no exception and leaves a part of C unwritten. A plan for `HOST_OBLAS` takes
the path of `HOST_REF`: one call of a library in place of the loop over the shards, with the same result.

### Kernels, OneShot

`Kernels` is the loop structure of the five kernels of the project, on addresses: an index beyond a row writes to
the next one. `OneShot` has any number of calls at once, each of which takes a built program by its age or builds
it, stages its files, starts a process and reads the result. What is modelled of the way there: the probe of the
Intel license, which decides between MKL and the IMCI program and may outlast its limit; compilers that write the final name, and container
builds that are copied out, where one build may spoil another's copy; the upload of the card's libraries, where `test -s` takes
a part of one for the library; MKL's failure under `auto`, after which the IMCI program is tried.
On the Phi all calls share two files, and a run given up by `subprocess.run` goes on there; `alone` says
that nobody else was at the files. Operands of different calls differ, so that another call's product
never agrees with one's own, equal shapes included. `run_phi_prep_scale` does not act on a bad status (kind `"prep"`);
`_prep_scale` and the pipeline around it do, and fall back to the host then and when it raises (kind `"scale"`). `host`, `tiled` and
`numpy` are the calls within the process.

### TaskGraph

`run_task_graph` over any graph of named nodes. The local executor goes in waves:
`StartWave` makes a task for each ready node, `Gathered` folds their results and
skips the rest at the first failure, `Finish` and `Deadlocked` end the loop. A task's
steps are its awaits: `Launch` or `OverCap` is the first one, `Wake` the one after the 50 ms sleep,
`RunReturns` the end of `run_fn`. The event loop is one thread, so that a
`run_fn` that returns no coroutine holds all of it (`LoopIsFree`). The order of a wave is that
of a Python set, hence `before` in `Gathered`. The power cap is `power.py`'s
local accounting: one reservation per device name, overwritten by a second, popped by the first to end, which thereby
releases for both. `SpmvGemmDeps`, `SpmvGemmDevice` and their like are the graph of `build_spmv_gemm_graph_fns`.
The uni scheduler is not in this repository; `UniRuns` is what the bridge relies on, and it may raise at any point.

### MultiBatch

`run_hetero_multibatch` and `run_spmv_dataprep_multibatch` are the same loop over
different workers, and are one module with `set.app` where they differ: spmv has
its `try` after `pool.start()`, installs the pool for `execute_plan` and takes it
out before it stops it. Its preparation, on the host, does not raise; its multiplication does on a batch that does not fit
the plan, which is made from the first batch alone (fault `misfit`, `GemmRaises`). Before the loop come the checks of the operands
and the baseline product (`Baseline`), and for spmv the plan (`ChoosePlan`), each of which may raise. There are three threads: the
caller (`pc`), the multiplication (`gemm`) and the preparation (`prep`); leaving the
`ThreadPoolExecutor` block waits for both (`Join`). A batch is its number; what a multiplication is
given is a triple of numbers, as left operand, right operand and reference reach it by different variables.

## 3. Runs

| Run | Bounds | Shows |
|---|---|---|
| `ve_safe` | 3 jobs + QUIT, crash + io | `AnswerIsOwn`, `AtMostOnce`, `NoTornCommand`, `DeliveredWasDone`, `NeverLostTwice`, refinement of `JobChannel` |
| `ve_late` | 2 jobs + QUIT, crash + io + slow, fairness | `DeliveredIsOwn`, `CallsEnd` |
| `phi_safe` | 3 jobs + QUIT, crash + io, fairness | `ResultIsOwn`, `QuitEnds`, refinement of the exact `JobChannel` |
| `phi_late` | 2 jobs + QUIT, slow + link (ignored polls included), fairness | `CallsReturn` |
| `session_safe` | 2 nodes, 5 shapes, 3 pools, failing starts and allocations | `OneSession`, `GrantFitsUntilOom`, `BuffersGoneOrFit` |
| `server_safe` | 2 connections, jobs of every type, 2 VEs, failing starts and calls, fairness | `GemmKeepsPool`, `OneshotAlone`, `PassIsComputed`, `RequestAnswered`, `StopExits` |
| `graph` | 4 nodes, 3 devices, the graph of `build_spmv_gemm_graph_fns` beside a fourth node, every graph over 3 names and some more, fairness | `TypeOK`, `DepsReturned`, `PassMeansAllRan`, `NothingLeaks`, `CapHeldByOthers`, `GraphEnds` |
| `batches` | every setting, 1 to 4 batches, any failure, a batch of another shape, fairness | `BatchesInOrder`, `UsedIsOpen`, `NothingIsLeft`, `CallEnds` |
| `plans` | 2 VEs, extents 0 to 3, every strategy, backend and path, any failure, fairness | `ResultIsProduct`, `PartitionTiles`, `WorkersOwned`, `SharedIsUp`, `StoppedOnlyUnused`, `CallEnds` |
| `slots` | 5 entry points, 1 to 5 batches, any request fails | `OkIsOwn`, `SlotExclusive`, `BuffersReturned` |
| `oneshot` | 2 calls of each kind in several shapes, license or not, any build cache and libraries, any failure | `ReturnedIsProduct` |
| `batches_last` | overlapped hetero, no fault | `EveryBatchComputed` is violated |

Why the bounds are enough: the hazards of the control directory are between a
command, the one before it and the one after; three jobs and the QUIT have all three, and
the theorems below hold for any number. Shapes are chosen so that none
dominates (`2x1x1`, `1x1x2`, `2x2x1`), which is what tells a comparison by
dimension from one by product. A third pool is needed to replace a replaced one; in `SessionCalls`
the bound does cut behaviours off (no more sessions are opened), in `JobServer` no
behaviour uses more than four of its five.
Two connections give a job, a job that interferes, and the main thread.
`Batches = 2` has a warm-up, a GEMM with a successor and a last one.
Four nodes give a wave of two tasks on one device beside a third, a node after it, and cycles of every
length; the limit lets two of them run and not all. Four batches have a first, a
last and two between; from the second on the loop repeats itself.
Two VEs over three rows leave a remainder, over one row a VE without work, over none an empty plan; one shard
can fail before, between or after the other; `PlansAreTilings` and the theorems of `PlanRun` cover the rest. Its pools are five for four references, so
that a start never lacks one (`FreshUnused`).
Five batches use each slot again at least twice. `OneShot`'s vectors have two doubles, unrolled by two, panels and tiles of two, so that
rows of up to seven meet the unrolled loop, the vectors and the rest.
Deadlock is checked in all runs: a stopped pool, an exited process and finished calls stutter explicitly.

A divergence found (`batches_last`, with its line in `PROJECT.json`): the overlapped hetero loop reads `prepped[0]` without
taking it off at the first batch (hetero_pipeline.py:193), and so multiplies batch 0 twice and the last one never, and reports "pass".

Seen while modelling, without a run of their own; the properties except them by name:

* the VE worker unlinks `job.go` after it published the answer. It can so unlink the next
  job's, which then times out though nothing failed; or it unlinks the old one between the next submission's `exists()` and `unlink()`
  (ve_worker.py:154-155), which raises FileNotFoundError, so that the job is lost at once and its command never written. In `stop()` that
  exception is swallowed, and the worker is ended by `terminate` without a QUIT. `NeverLostTwice` counts both as a loss (`Lost`), and says that
  the job after a lost one is not lost;
* `_submit_raw` that reads `job.status` between the worker's `fopen`
  and `fclose` finds it empty and returns normally from a job that may have failed.
  `DeliveredWasDone` limits the damage: such a job has no result file that can be decoded;
* a Phi worker whose `rm -f` failed starts on the `job.go` and `job.cmd` of the one before it (phi_worker.py:101); a poll that fails
  again and again is noticed only by the liveness check of the local `ssh` or the time limit;
* with `slow` or `link` a Phi call may be answered by the late status of the job before it, so that
  `ResultIsOwn` and `QuitEnds` hold only without them;
* after a grow that failed, the session's record still names the old pin though buffers are gone, and a pool may be
  returned that does not take the shape (`oom` in `GrantFitsUntilOom`); a first
  `pin_all` that raises leaves a started pool that nobody can stop (`leaked` in `OneSession`);
* `serve_forever` shuts the session down without the job lock, under a running GEMM (`GemmKeepsPool` is about a
  server that serves);
* a strict job with the default `compare_oneshot` closes the preloaded
  session first and is then not held to it (docs/SERVICE.md:104); the callers of `dgemm_shared_aveo`
  ignore the status of the call, so that a call the device fails is left
  to the comparison with the reference (`PassIsComputed` leaves it out);
* a read that the context refuses in the batch call, and failed transfers of the session and pinned
  calls, are not looked at: 0 is returned with C not written (`unseen` in `OkIsOwn`). A batch call that fails
  frees its buffers while requests on them may be outstanding;
* `get_worker_pool` stops the old pool before it starts the new one, and when that raises leaves the stopped one installed (`lost`
  in `SharedIsUp`); `execute_plan` then finds no worker and computes on the host. `clear_shared_ve_pool` at the end of a multi-batch call
  takes out the session's pool, too, if that was installed meanwhile;
* an error code of `AveoSessionPool.dgemm` is no exception, and a result with rows nobody wrote is returned (`broken`);
* `run_spmv_dataprep_multibatch` takes its plan from the first batch and compares only the lengths of its lists (spmv_dataprep.py:401):
  a later batch with another number of columns raises out of `execute_plan` in the middle of the call, through the `finally` block
  (`misfit`). `UsedIsOpen`, `NothingIsLeft` and `CallEnds` hold on that way out;
* the workers of a `VeWorkerPool` whose `start` raised in the middle are never stopped
  (`WorkersOwned` and `NothingIsLeft` do not count them);
* two builds at once write one file, and a copy out of the container that broke off stays in the cache: a
  run of it fails, it computes nothing wrong. So with the libraries, of which a part on the card is taken for the
  whole by `test -s`;
* two calls on the Phi that share the two files may each read the other's product (`alone` in `ReturnedIsProduct`);
* the task graph reports "skip" for nodes that did run, when another of their wave failed; a task over the power cap sleeps
  once and reserves without asking again, a second task of a device hides the
  first from the cap, and the first of them to end releases for both. `CapHeldByOthers` therefore sums only the tasks that did not
  wait and whose device no other task has.

## 4. Fairness

* `VeWorker`, `PhiWorker`: the worker process and the submitting thread are scheduled
  (weak fairness); a poll loop that comes back to its time limit again and again
  finds it passed (strong fairness of `Timeout`); nobody has to submit a job
  or to call `stop`. A crash, a failing write or link is never required.
  The ssh process notices that its remote command ended.
* `JobServer`: the main thread and each connection's thread are scheduled. Clients and
  signals need never come. Weak fairness is enough for the lock, as each thread takes it once.
* `TaskGraph`: the event loop runs, and every `run_fn` returns or raises in the
  end; the uni scheduler, too, is trusted to return or raise.
* `MultiBatch`: the three threads run, scaling and multiplying return or raise,
  which `phi_late` and `ve_late` show for the workers.
* `PlanRun`: the calling thread and the shards' threads run; a shard's GEMM returns or
  raises, for the same reason. Nobody has to make a call.
* `BatchSlots` and `OneShot` state no fairness: their properties are safety.

## 5. Proofs

| Theorem | Statement | Assumes |
|---|---|---|
| `VeWorkerProofs!TypeCorrect` | `Spec => []TypeOK` |  |
| `VeWorkerProofs!AnswerOwned` | `Spec => []AnswerIsOwn` | `"slow" \notin Faults` |
| `VeWorkerProofs!RunAtMostOnce` | `Spec => []AtMostOnce` | `"slow" \notin Faults` |
| `VeWorkerProofs!CommandIntact` | `Spec => []NoTornCommand` | `"slow" \notin Faults` |
| `VeWorkerProofs!DeliveredOwn` | `Spec => []DeliveredIsOwn` | `SharedFiles = FALSE` |
| `VeWorkerProofs!DeliveredDone` | `Spec => []DeliveredWasDone` | `"slow" \notin Faults`, `SharedFiles = FALSE` |
| `VeWorkerProofs!LostAtMostOnce` | `Spec => []NeverLostTwice` | `"slow" \notin Faults` |
| `VeWorkerProofs!PoolIsChannel` | `Spec => ImplementsChannel` | `"slow" \notin Faults` |
| `PhiWorkerProofs!TypeCorrect` | `Spec => []TypeOK` |  |
| `PhiWorkerProofs!FetchedIsOwn` | `Spec => []ResultIsOwn` | `"slow", "link" \notin Faults` |
| `PhiWorkerProofs!CardIsChannel` | `Spec => ImplementsChannel` | `"slow", "link" \notin Faults` |
| `SessionProofs!TypeCorrect` | `Spec => []TypeOK` |  |
| `SessionProofs!BuffersSound` | `Spec => []BuffersGoneOrFit` |  |
| `SessionProofs!SessionAlone` | `Spec => []OneSession` |  |
| `SessionProofs!GrantsFit` | `Spec => []GrantFitsUntilOom` |  |
| `SessionProofs!ServerTypeCorrect` | `JobServerSpec => []ServerTypeOK` |  |
| `SessionProofs!GemmsKeepPools` | `JobServerSpec => []GemmKeepsPool` | `"alloc" \notin SessionFaults` |
| `SessionProofs!VeExecAlone` | `JobServerSpec => []OneshotAlone` | `"alloc" \notin SessionFaults` |
| `SessionProofs!PassComputed` | `JobServerSpec => []PassIsComputed` | `"alloc" \notin SessionFaults` |
| `TaskGraphProofs!TypeCorrect` | `Spec => []TypeOK` |  |
| `TaskGraphProofs!DependenciesFirst` | `Spec => []DepsReturned` |  |
| `TaskGraphProofs!ReservationsReturned` | `Spec => []NothingLeaks` |  |
| `TaskGraphProofs!CapHeld` | `Spec => []CapHeldByOthers` |  |
| `TaskGraphProofs!PassIsEarned` | `Spec => []PassMeansAllRan` |  |
| `BatchSlotsProofs!TypeCorrect` | `Spec => []TypeOK` |  |
| `BatchSlotsProofs!SlotsExclusive` | `Spec => []SlotExclusive` |  |
| `BatchSlotsProofs!OkIsOwnResult` | `Spec => []OkIsOwn` |  |
| `BatchSlotsProofs!BuffersFreed` | `Spec => []BuffersReturned` |  |
| `PlanRunProofs!PlansAreTilings` | `Valid(MakePlan(...))` | positive extents and number of devices |
| `PlanRunProofs!PlansTile` | `Spec => []PartitionTiles` |  |
| `PlanRunProofs!WorkersHaveOwners` | `Spec => []WorkersOwned` |  |
| `PlanRunProofs!SharedPoolIsUp` | `Spec => []SharedIsUp` |  |
| `PlanRunProofs!PoolsOutliveShards` | `Spec => StoppedOnlyUnused` |  |
| `PlanRunProofs!ResultsAreProducts` | `Spec => []ResultIsProduct` |  |
| `MultiBatchProofs!TypeCorrect` | `Spec => []TypeOK` |  |
| `MultiBatchProofs!Ordered` | `Spec => []BatchesInOrder` |  |
| `MultiBatchProofs!OpenWhileUsed` | `Spec => []UsedIsOpen` |  |
| `MultiBatchProofs!NothingLeft` | `Spec => []NothingIsLeft` |  |
| `OneShotProofs!KernelsAreProducts` | `Computed(loop, p, threads) = Product(p)` | positive extents and number of threads |
| `OneShotProofs!ReturnedIsOwnProduct` | `Spec => []ReturnedIsProduct` |  |

The other assumptions are those on the constants (`ConstantsAssumption`, `SessionAssumption`, `JobServerAssumption`,
`TaskGraphAssumption`, `BatchSlotsAssumption`, `VePoolsAssumption`, `PlanRunAssumption`, `MultiBatchAssumption`,
`KernelAssumption`, `OneShotAssumption`). The theorems hold for any number of jobs, batches, connections and calls, for any
nodes, node sets, shapes, VEs and number of session pools, for any graph, devices, wattages and limit,
and for any vector width, unrolling, panel and tile. Every safety property of the passing runs is stated by one of them.

What the last column assumes is needed. With `slow` a host gives up on a worker that still computes, and its late
answer, or a lost `job.go`, falls to a later job; `link` does the same to the Phi, whose host does not know what its `ssh`
did. `SharedFiles = FALSE` is `ve_worker.py`, where each job names its own files. `alloc` is a device
allocation that fails, after which the record of the session no longer describes the devices (the divergences
above); the runs check the same properties under the same faults, `session_safe` with all of them.

*VE protocol.* `VeWorkerProofs` first proves that every step of the worker keeps its
part of the type (`WorkerOK`), as `PhiWorkerProofs` does for its instance of the same worker. None of the safety
properties is inductive: that an answer belongs to the current command depends on
where both sides are. `IInv` says so: what is not handed over or only being submitted has not run (`InvPhase`); a worker
between noticing `job.go` and creating `job.status` works
for the command the host polls for, and nothing was answered yet (`InvWorking`); a `job.go` that
the worker can notice is for a command not yet run (`InvWaitGo`); what the host
removed stays removed until it writes `job.go` (`InvCleared`), also when the worker still
holds the old `job.status` (`InvHandle`); and a `job.status` the host sees is the
command's (`InvAnswer`). The step that needs "slow" to be absent is `Timeout`: the
host gives up only when the worker is back at its loop.
On top of it: `InvOwn`, that a result file holds only the result of the job that names it, and that job ran, is inductive alone and under every fault
(`DeliveredOwn`); `InvDone` says that a complete result file is that of a job with the verdict DONE (`DeliveredDone`);
`InvLost` says that when a job was lost, unseen or by `GoVanished`, the worker is back at its wait loop, or dead, so that no unlink is
outstanding: the host finds no `job.go` to remove, and the next one stays until the worker has read it; `InvCur` that the job before the current one is the one lost (`LostAtMostOnce`).

*Refinement.* `PoolIsChannel` and `CardIsChannel` map a step of the files to one of `JobChannel`: the caller's hand-over submits, the end of the worker's run runs, the last read of a
submission replies, its exceptions, `GoVanished` among them, lose the job, and `stop`, or a start that raises, closes. `PhaseFacts` gives from the invariant what each
guard of the channel asks for (nothing is outstanding at a submission; the job ran once before a reply), and
`InvVerdict` that the verdict recorded is the one in the file; for the Phi, that it is the one the host reports. `ChannelStep` then treats the actions one by one; all
but a few leave the channel's variables as they are.

*Phi protocol.* What is new against the VE are the `ssh` and `scp` steps and one `out.bin` for all jobs. `InvScript` says which remote
script the host waits for, `InvSsh` that the local ssh process ends only after the worker on the card while the link holds,
`InvVerdict` and `InvData` that from the answer to the fetch `in.bin` and `out.bin` are the current job's.

*Session and server.* Three facts about arithmetic carry the rest: a product of naturals is
monotone (`ProductMonotone`), so that a request the record covers fits the buffers
(`CoversFits`), and a join covers both its arguments (`JoinCovers`). `RecordOK` is inductive
under all faults (buffers gone, or at least as large as recorded) and gives
`BuffersGoneOrFit`; until an allocation fails (history variable `oom`) it strengthens to "the buffers are
exactly as recorded and only the recorded pool is open", which gives `GrantFitsUntilOom`. `OneSession` is inductive by itself,
under all faults: the one step that leaves a pool open beside the record is `FirstPinFails`, which `leaked` notes. For the server
this record is one half (`SessionInv`); the other, `ControlInv`, is where the threads are: one
holder of the lock (`LockInv`), the main thread before its connections (`BootInv`), requests that fit the job's path
(`RequestInv`). `JobInv` joins them: no session is open while `ve_exec` runs, and while the server serves a thread between
`get_aveo_pool` and the end of its GEMM holds the pool that is `Granted` to it, because until then every step that closes a pool is made
with the job lock.

*Task graph.* The invariant has to say when results exist: the tasks of a wave are of
pending nodes, and one that ended has an outcome (`TasksInWave`, proved together with `NothingLeaks`); while a node is
pending no recorded result is a failure or a skip, as the first failure leaves no
node pending (`CleanWhilePending`), which turns "has a result" into "returned" and gives `DepsReturned`; and the number of calls of each
`run_fn` is one exactly for the nodes whose task is past its start or whose
result is recorded (`RunsCounted`), which with the verdict gives `PassMeansAllRan`. For the cap, a task with a device of its own
has its wattage reserved while it runs (`OwnReserved`), so that the sum over the counted tasks is a part of the sum `cap_gate` compares
with the limit. The sum is the community modules' fold, recursive over sets; what is needed of it (it exists, is
the same whichever element is taken out, and may be moved from tasks to their devices) is proved for finite sets without induction, by taking a
smallest subset on which it fails (`MinimalSubset`, `SumsAgree`, `SumMoved`).

*Native calls.* `SlotExclusive` says nothing of the host; what makes it inductive is which step of the host
every unfinished or failed request belongs to (`AllOwned`): a write to the loop's batch before its call, a call before its
read, and a read to the batch that is pending on its slot. From there the data follow (`Data`): a slot's
buffers hold the loop's batch while it is written and called, and C of a batch whose read has ended is its own.

*Partition.* The i-th cut is `i * q + min(i, r)` with `extent = p * q + r` (`CutForm`). The cuts start at 0, end at
the extent (`CutEnds`) and grow (`CutGrows`), so that parts are disjoint; that every index lies between two of them (`CutsReach`)
names its part, by division by `q + 1` among the longer parts and by `q` after them.

*Pools.* `PoolsInv` adds to the two properties that the references are to different pools (`Apart`), so that what is
started or stopped through one is not another's; `RunInv`, that a GEMM has a pool of its own only while it runs
(`OwnInUse`), and that shards run only before the join (`ShardsInTime`), which is `StoppedOnlyUnused`.

*Results.* `OneShard`: in a tiled plan every term is exactly one shard's, whatever the strategy. Hence the host's
assignments, in whatever order, are the product (`HostIsProduct`), and C is at all times the
terms of the shards taken (`Sums`; `OneMore` for a step), until AVEO returns an error code. The loop ends with all taken or with a failure (`LoopLeft`),
and then the host computes everything again, on zeros.

*Multi-batch.* `ThreadsInv` says where the two threads can be while the caller is at each of its lines, `ResourceInv` what is open,
installed and reserved there, which together give `UsedIsOpen` and `NothingIsLeft` on every way out, the exceptions of either pipeline's multiplication included. `LoopInv` bounds the loop's batch;
`PreppedInv` says which batches are prepared when, and `ProductInv` that what is multiplied is one batch, and outside
the overlapped hetero loop (`Plain`) the k-th product that of batch k.

*Kernels and one-shot calls.* Each loop nest is shown to write each cell of C once: an address is of one row and column
(`PlaceUnique`), and a row is the disjoint union of its unrolled steps, its vectors and its rest (`RowOnce`, `WritesOnce`), of its
panels and tiles, or of the threads' chunks (`PartOnce`, `ChunksOnce`); this is arithmetic of quotients and remainders, and where
a row is padded, that the last vector ends at the padded width. `ReturnedIsOwnProduct` then needs only the files: while a call is alone with
its files, everybody who shares them is neither past staging nor has a process alive, so that input, operands read and output are the call's own
(`OwnFiles`). `FileStep` is the one lemma about a step that touches files; the actions give its premises.

Each inductive invariant was checked by TLC on the bounds of the runs before it was proved. The attempt on the cap showed an earlier form of
`CapHeldByOthers` false, and TLC its counterexample: of two tasks on one device, the first to end releases for both.

Only model-checked: all liveness (`CallsEnd`, `CallsReturn`, `QuitEnds`, `RequestAnswered`, `StopExits`, `GraphEnds`, and `CallEnds` of plans and
batches), as the prover has neither fairness nor ENABLED; and the violation of `EveryBatchComputed`. Not provable with the
installed provers: what recursive definitions compute, by induction over data. Taken at their word: the kernels of MKL, NLC and numpy.

## 6. What could come next

No safety property is left without a theorem. What remains is in the model: the power sampler's restart beside a late thread, the data planes' registry,
`recommend_backend` in fixed-point arithmetic, and a server that is stopped while a client's job runs, where
only the absence of a crash could be stated. In the proofs: what of `GemmKeepsPool` survives an allocation that fails
(until the next `shutdown_sessions`), and of `AnswerIsOwn` a job that outlasts the wait (until the worker is idle again).

## 7. Not modelled

* Floating-point numerics: a result is whose operands, or which terms, were summed. The cost model's estimates and its
  calibration are floating point, too, so that any candidate may win. The vendors' libraries (NLC, MKL, OpenBLAS) are taken at their word.
* The power sampler: one thread appends readings until an event is set, and its results are only reported. (Its `start` clears
  the event, so that a loop whose join timed out could go on beside the new one; a reading would have to take five seconds.)
* Timing breakdowns, the data planes' registry, the CLI, message encoding, logging and the text of reports; hardware
  discovery and tables; service scripts and benches.
* `execute_plan` and `_ve_execute` with `use_pool=False` (runner.py:65, 229), which nobody in the repository asks for.
* In the multi-batch spmv call, a batch whose inner extent differs from the first one's, which `execute_plan` does not notice: a plan that
  cuts `k` then misses terms or runs past the operands. The call compares every product with the host's and does not report it as a pass.
* A remote control script that goes on after its `ssh` was given up, and a copy that ends after it.
* The external uni scheduler and uni power cap, but for what the bridge relies on.
* Several VEs of one pool are independent copies of `VeWorker`, since each has its directory
  and its caller thread; `VePools` has what `start` and `stop` do over the list of them.

Run a model with `tlc -workers 2 -config VeWorker_safe.cfg MCVeWorker`, a proof with `tlapm VeWorkerProofs.tla`.
