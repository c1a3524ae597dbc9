---------------------------- MODULE MultiBatch ----------------------------
(***************************************************************************)
(* The two multi-batch pipelines: run_hetero_multibatch                    *)
(* (apps/hetero_pipeline.py), whose batches are scaled on the Phi and      *)
(* multiplied on the VEs, and run_spmv_dataprep_multibatch                 *)
(* (apps/spmv_dataprep.py), whose batches are prepared on the host.        *)
(* Overlapped, both multiply batch i in one thread while they prepare      *)
(* batch i + 1 in another, and wait for both before they go on.            *)
(***************************************************************************)
EXTENDS Integers, Sequences

CONSTANTS
  Settings,   \* the calls tried
  MaxBatches, \* bound on the batches of a call
  Faults      \* a subset of FaultKinds

(* "plan": the operands or every plan for them are refused;  "start": a    *)
(* worker does not start;  "prep": scaling on the Phi raises;  "gemm":     *)
(* hetero's multiplication on the VEs raises;  "misfit": an spmv batch     *)
(* after the first does not have the shape the plan was made for.          *)
FaultKinds == {"plan", "start", "prep", "gemm", "misfit"}

Setting == [app : {"hetero", "spmv"},
            overlap : BOOLEAN,
            pool : BOOLEAN,    \* hetero: not use_aveo; spmv: the plan has VEs
            phi : BOOLEAN]     \* use_phi_worker

ASSUME MultiBatchAssumption ==
  /\ Settings \subseteq Setting
  /\ \A s \in Settings : s.app = "spmv" => ~s.phi
  /\ MaxBatches \in Nat \ {0}
  /\ Faults \subseteq FaultKinds

VARIABLES
  set,       \* the call's arguments
  n,         \* its number of batches
  pc,        \* the calling thread
  i,         \* the loop's batch
  prepped,   \* hetero's list; for spmv the one value of ys
  gemm,      \* the multiplication in progress, or how it ended
  prep,      \* the preparation in progress, or how it ended
  pool,      \* the VeWorkerPool's workers
  phi,       \* the PhiWorker
  reuse,     \* the process-wide pool of execute_plan is this call's
  capHeld,   \* the power reservation
  products,  \* history: the operands of the multiplications that ended
  failed     \* an exception is on its way to the caller

vars == <<set, n, pc, i, prepped, gemm, prep, pool, phi, reuse, capHeld, products, failed>>

(* What a multiplication is given: the prepared left operand of batch a,   *)
(* the right operand of batch b; its error is taken against batch ref.     *)
Operands == [a : 1..MaxBatches, b : 1..MaxBatches, ref : 1..MaxBatches]
Own(k)   == [a |-> k, b |-> k, ref |-> k]
Idle     == [state |-> "idle"]
Job(x)   == [state |-> "running", of |-> x]
End(x)   == [state |-> "ended", of |-> x]
Raised   == [state |-> "raised"]

(* A thread's part of a batch: not begun, running, ended or raised.         *)
Thread(S) == {Idle, Raised} \cup {Job(x) : x \in S} \cup {End(x) : x \in S}

TypeOK ==
  /\ set \in Settings /\ n \in 1..MaxBatches /\ i \in 1..(n + 1)
  /\ pc \in {"baseline", "plan", "reserve", "start", "phi", "first", "loop", "join", "last",
             "clear", "stop", "stopPhi", "release", "end"}
  /\ prepped \in Seq(Operands) /\ products \in Seq(Operands)
  /\ gemm \in Thread(Operands) /\ prep \in Thread(1..MaxBatches)
  /\ pool \in {"none", "open", "stopped"} /\ phi \in {"none", "open", "stopped"}
  /\ reuse \in BOOLEAN /\ capHeld \in BOOLEAN /\ failed \in BOOLEAN

Init ==
  /\ set \in Settings /\ n \in 1..MaxBatches
  /\ pc = (IF set.app = "spmv" THEN "baseline" ELSE "reserve")
  /\ i = 1 /\ prepped = <<>>
  /\ gemm = Idle /\ prep = Idle
  /\ pool = "none" /\ phi = "none" /\ reuse = FALSE /\ capHeld = FALSE
  /\ products = <<>> /\ failed = FALSE

-----------------------------------------------------------------------------
(* spmv multiplies every batch on the host first, to compare, and raises   *)
(* if a batch's operands cannot be multiplied.  Where there is no device   *)
(* these products are all, and the call returns with them.                 *)
Baseline ==
  /\ pc = "baseline"
  /\ \/ pc' = "plan" /\ UNCHANGED <<products, failed>>
     \/ "plan" \in Faults /\ pc' = "end" /\ failed' = TRUE /\ UNCHANGED products
     \/ /\ ~set.pool /\ pc' = "end" /\ products' = [k \in 1..n |-> Own(k)]
        /\ UNCHANGED failed
  /\ UNCHANGED <<set, n, i, prepped, gemm, prep, pool, phi, reuse, capHeld>>

(* One plan for all batches, from the shape of the first (of the others    *)
(* only the number is looked at): it has VEs or not, or there is none.     *)
ChoosePlan ==
  /\ pc = "plan"
  /\ \/ pc' = "reserve" /\ UNCHANGED failed
     \/ "plan" \in Faults /\ pc' = "end" /\ failed' = TRUE
  /\ UNCHANGED <<set, n, i, prepped, gemm, prep, pool, phi, reuse, capHeld, products>>

(* The power cap refuses the devices, or reserves them.                    *)
Refused ==
  /\ pc = "reserve"
  /\ pc' = "end" /\ failed' = TRUE
  /\ UNCHANGED <<set, n, i, prepped, gemm, prep, pool, phi, reuse, capHeld, products>>

Reserve ==
  /\ pc = "reserve"
  /\ capHeld' = TRUE
  /\ pc' = IF set.pool THEN "start" ELSE IF set.phi THEN "phi" ELSE "first"
  /\ UNCHANGED <<set, n, i, prepped, gemm, prep, pool, phi, reuse, products, failed>>

StartPool ==
  /\ pc = "start"
  /\ pool' = "open" /\ reuse' = (set.app = "spmv")
  /\ pc' = IF set.phi THEN "phi" ELSE "first"
  /\ UNCHANGED <<set, n, i, prepped, gemm, prep, phi, capHeld, products, failed>>

(* A worker after the first exits early.  spmv's try begins after start(). *)
StartPoolFails ==
  /\ pc = "start" /\ "start" \in Faults
  /\ pool' = "open" /\ failed' = TRUE
  /\ pc' = IF set.app = "spmv" THEN "release" ELSE "stop"
  /\ UNCHANGED <<set, n, i, prepped, gemm, prep, phi, reuse, capHeld, products>>

StartPhi ==
  /\ pc = "phi"
  /\ phi' = "open"
  /\ \/ pc' = "first" /\ UNCHANGED failed
     \/ "start" \in Faults /\ pc' = "stop" /\ failed' = TRUE
  /\ UNCHANGED <<set, n, i, prepped, gemm, prep, pool, reuse, capHeld, products>>

-----------------------------------------------------------------------------
(* Where an exception of the loop goes: to the finally block.              *)
Finally == IF set.app = "spmv" THEN "clear" ELSE "stop"

Starts(k) == prep' = Job(k)

(* Prepare a batch with nothing beside it: the first one when overlapped,  *)
(* each one when not.                                                      *)
PrepareAlone ==
  /\ pc = "first" /\ prep = Idle
  /\ Starts(i)
  /\ UNCHANGED <<set, n, pc, i, prepped, gemm, pool, phi, reuse, capHeld, products, failed>>

(* Variant: scaling is tried again when it raises.                         *)
PreparedAloneRetries ==
  /\ pc = "first" /\ prep.state \in {"ended", "raised"}
  /\ prep' = Idle
  /\ IF prep = Raised
     THEN UNCHANGED <<pc, prepped>>
     ELSE prepped' = <<Own(prep.of)>> /\ pc' = "loop"
  /\ UNCHANGED <<set, n, i, gemm, pool, phi, reuse, capHeld, products, failed>>

PreparedAlone ==
  /\ pc = "first" /\ prep.state \in {"ended", "raised"}
  /\ prep' = Idle
  /\ IF prep = Raised
     THEN pc' = Finally /\ failed' = TRUE /\ UNCHANGED prepped
     ELSE /\ prepped' = <<Own(prep.of)>>
          /\ pc' = "loop" /\ UNCHANGED failed
  /\ UNCHANGED <<set, n, i, gemm, pool, phi, reuse, capHeld, products>>

(* "prepped[0] if i == 0 else prepped.pop(0)"; spmv binds ys and b = bs[i]. *)
Taken == Head(prepped)

TakesAway == ~(set.app = "hetero" /\ set.overlap /\ i = 1)

(* Variant: the batch that is multiplied is prepared again.                *)
AheadNot == i

Ahead == i + 1

(* The loop's body up to the wait: multiply what was taken, prepare the    *)
(* next batch if there is one.                                             *)
Submit ==
  /\ pc = "loop" /\ i <= n
  /\ gemm' = Job(IF set.app = "spmv" THEN [Taken EXCEPT !.b = i] ELSE Taken)
  /\ prepped' = IF TakesAway THEN Tail(prepped) ELSE prepped
  /\ IF set.overlap /\ i < n
     THEN Starts(Ahead) /\ pc' = "join"
     ELSE UNCHANGED prep /\ pc' = "last"
  /\ UNCHANGED <<set, n, i, pool, phi, reuse, capHeld, products, failed>>

(* The thread (or the caller itself) that multiplies.                      *)
GemmEnds ==
  /\ gemm.state = "running"
  /\ gemm' = End(gemm.of) /\ products' = Append(products, gemm.of)
  /\ UNCHANGED <<set, n, pc, i, prepped, prep, pool, phi, reuse, capHeld, failed>>

(* spmv's execute_plan falls back to the host when the VEs fail, but it    *)
(* raises on operands that do not have the plan's shape.                   *)
GemmRaises ==
  /\ gemm.state = "running"
  /\ \/ set.app = "hetero" /\ "gemm" \in Faults
     \/ set.app = "spmv" /\ "misfit" \in Faults /\ gemm.of.b > 1
  /\ gemm' = Raised
  /\ UNCHANGED <<set, n, pc, i, prepped, prep, pool, phi, reuse, capHeld, products, failed>>

(* The thread (or the caller) that prepares; on the host it does not raise. *)
PrepEnds ==
  /\ prep.state = "running"
  /\ \/ prep' = End(prep.of)
     \/ "prep" \in Faults /\ set.app = "hetero" /\ prep' = Raised
  /\ UNCHANGED <<set, n, pc, i, prepped, gemm, pool, phi, reuse, capHeld, products, failed>>

(* Variant: an exception of the multiplication does not wait for the other *)
(* thread.                                                                 *)
JoinFirstFailure ==
  /\ pc = "join" /\ gemm.state \in {"ended", "raised"}
  /\ gemm.state = "ended" => prep.state \in {"ended", "raised"}
  /\ gemm' = Idle /\ prep' = IF prep.state = "running" THEN prep ELSE Idle
  /\ IF Raised \in {gemm, prep}
     THEN pc' = Finally /\ failed' = TRUE /\ UNCHANGED <<i, prepped>>
     ELSE /\ prepped' = Append(prepped, Own(prep.of))
          /\ i' = i + 1 /\ pc' = "loop" /\ UNCHANGED failed
  /\ UNCHANGED <<set, n, pool, phi, reuse, capHeld, products>>

(* Both results; leaving the executor's block waits for both threads also  *)
(* when one has raised.                                                    *)
Join ==
  /\ pc = "join"
  /\ gemm.state \in {"ended", "raised"} /\ prep.state \in {"ended", "raised"}
  /\ gemm' = Idle /\ prep' = Idle
  /\ IF Raised \in {gemm, prep}
     THEN pc' = Finally /\ failed' = TRUE /\ UNCHANGED <<i, prepped>>
     ELSE /\ prepped' = Append(prepped, Own(prep.of))
          /\ i' = i + 1 /\ pc' = "loop" /\ UNCHANGED failed
  /\ UNCHANGED <<set, n, pool, phi, reuse, capHeld, products>>

(* The multiplication the caller made itself.                              *)
GemmAlone ==
  /\ pc = "last" /\ gemm.state \in {"ended", "raised"}
  /\ gemm' = Idle
  /\ IF gemm = Raised
     THEN pc' = Finally /\ failed' = TRUE /\ UNCHANGED i
     ELSE /\ i' = i + 1 /\ UNCHANGED failed
          /\ pc' = IF set.overlap \/ i = n THEN "loop" ELSE "first"
  /\ UNCHANGED <<set, n, prepped, prep, pool, phi, reuse, capHeld, products>>

LoopEnds ==
  /\ pc = "loop" /\ i > n
  /\ pc' = Finally
  /\ UNCHANGED <<set, n, i, prepped, gemm, prep, pool, phi, reuse, capHeld, products, failed>>

-----------------------------------------------------------------------------
Stopped(worker) == IF worker = "open" THEN "stopped" ELSE worker

ClearShared ==
  /\ pc = "clear"
  /\ reuse' = FALSE /\ pc' = "stop"
  /\ UNCHANGED <<set, n, i, prepped, gemm, prep, pool, phi, capHeld, products, failed>>

StopPool ==
  /\ pc = "stop"
  /\ pool' = Stopped(pool)
  /\ pc' = IF set.app = "hetero" THEN "stopPhi" ELSE "release"
  /\ UNCHANGED <<set, n, i, prepped, gemm, prep, phi, reuse, capHeld, products, failed>>

StopPhi ==
  /\ pc = "stopPhi"
  /\ phi' = Stopped(phi) /\ pc' = "release"
  /\ UNCHANGED <<set, n, i, prepped, gemm, prep, pool, reuse, capHeld, products, failed>>

(* Variant: the reservation is kept when the call raises.                  *)
ReleaseUnlessFailed ==
  /\ pc = "release"
  /\ capHeld' = failed /\ pc' = "end"
  /\ UNCHANGED <<set, n, i, prepped, gemm, prep, pool, phi, reuse, products, failed>>

Release ==
  /\ pc = "release"
  /\ capHeld' = FALSE /\ pc' = "end"
  /\ UNCHANGED <<set, n, i, prepped, gemm, prep, pool, phi, reuse, products, failed>>

-----------------------------------------------------------------------------
Caller ==
  \/ Baseline \/ ChoosePlan \/ Refused \/ Reserve \/ StartPool \/ StartPoolFails \/ StartPhi
  \/ PrepareAlone \/ PreparedAlone \/ Submit \/ Join \/ GemmAlone \/ LoopEnds
  \/ ClearShared \/ StopPool \/ StopPhi \/ Release
GemmThread == GemmEnds \/ GemmRaises
PrepThread == PrepEnds

Ended == pc = "end" /\ UNCHANGED vars

Next == Caller \/ GemmThread \/ PrepThread \/ Ended

Spec == Init /\ [][Next]_vars

(* The three threads run; scaling and multiplying return or raise.         *)
FairSpec == Spec /\ WF_vars(Caller) /\ WF_vars(GemmThread) /\ WF_vars(PrepThread)

-----------------------------------------------------------------------------
Returned == pc = "end" /\ ~failed

(* "overlap Phi prep of batch i+1 with VE GEMM of batch i": a call that    *)
(* returns has multiplied every batch, each once.                          *)
EveryBatchComputed ==
  Returned => /\ Len(products) = n
              /\ \A k \in 1..n : \E j \in 1..n : products[j] = Own(k)

(* The same, in the order of the batches, where the loop takes away what   *)
(* it multiplies; and nowhere does a product mix batches: left operand,    *)
(* right operand and reference are of one, although the next is prepared   *)
(* meanwhile.                                                              *)
BatchesInOrder ==
  /\ Returned /\ ~(set.app = "hetero" /\ set.overlap) => products = [k \in 1..n |-> Own(k)]
  /\ \A k \in 1..Len(products) : \E b \in 1..n : products[k] = Own(b)

(* No worker is stopped while a thread of the call uses it, whichever      *)
(* thread has raised; and execute_plan's pool is open while it is shared.  *)
UsedIsOpen ==
  /\ gemm.state = "running" /\ set.pool => pool = "open"
  /\ prep.state = "running" /\ set.phi => phi = "open"
  /\ reuse => pool = "open"

(* However a call ends, nothing of it is left: no thread, no reservation,  *)
(* no installed pool and no worker.  (Not the workers of an spmv pool that *)
(* did not start as a whole: nothing stops them.)                          *)
NothingIsLeft ==
  pc = "end" =>
    /\ gemm.state # "running" /\ prep.state # "running"
    /\ ~capHeld /\ ~reuse /\ phi # "open"
    /\ pool = "open" => set.app = "spmv" /\ failed /\ products = <<>>

(* Every call returns or raises.                                           *)
CallEnds == <>(pc = "end")
=============================================================================
