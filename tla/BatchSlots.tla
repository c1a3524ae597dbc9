----------------------------- MODULE BatchSlots -----------------------------
(***************************************************************************)
(* One GEMM call on an open AVEO session (kernels/host/veo_dgemm_host.c):  *)
(* the batch call with its two slots of device buffers, the async call     *)
(* with one, and the calls that wait for each transfer (session, pinned,   *)
(* one-shot).  The host thread hands requests to the context and waits for *)
(* their results; the VE carries them out.  The source calls the context   *)
(* queue ordered, but nothing here relies on it: any outstanding request   *)
(* may be the next one done.                                               *)
(***************************************************************************)
EXTENDS Integers, FiniteSets

CONSTANTS
  MaxBatches,  \* bound on nbatch
  SlotFaults   \* BOOLEAN: allocations, commands and transfers may fail

ASSUME BatchSlotsAssumption ==
  /\ MaxBatches \in Nat \ {0}
  /\ SlotFaults \in BOOLEAN

VARIABLES
  op,       \* the entry point called
  n,        \* nbatch, 1 but for "batch"
  pc,       \* the calling thread
  i,        \* the loop's batch, from 1
  held,     \* the device buffers that are allocated
  out,      \* the requests that are outstanding
  bad,      \* the requests that ended with another code than OK
  pending,  \* pending_reads: for each slot the batch, 0 for INVALID
  buf,      \* whose data each device buffer holds, 0 for nobody's
  cs,       \* whose product each Cs[i] holds, 0 for nobody's
  rc,       \* the return code: "none", "ok", "failed" or "noMemory"
  unseen    \* history: a failure whose code the call does not look at

vars == <<op, n, pc, i, held, out, bad, pending, buf, cs, rc, unseen>>

Batches == 1..MaxBatches
Slots   == {0, 1}
Parts   == {"a", "b", "c"}
Buffers == Slots \X Parts
Request == [kind : {"writeA", "writeB", "call", "read"}, batch : Batches]
Req(kind, j) == [kind |-> kind, batch |-> j]

Queued   == {"batch", "async"}               \* work through the context
Straight == {"sync", "pinned", "oneshot"}    \* wait for each transfer

(* slot = i & 1, of a loop that counts from 0.                             *)
Slot(j) == (j - 1) % 2
UsedSlots(o) == IF o = "batch" THEN Slots ELSE {0}

(* What a call's caller chose: run_aveo_dgemm has a session and wants the  *)
(* phases timed, has one, or has none; dgemm_pinned; dgemm_batch.          *)
Init ==
  /\ op \in Queued \cup Straight
  /\ n \in IF op = "batch" THEN Batches ELSE {1}
  /\ pc = "alloc" /\ i = 1
  /\ held = {} /\ out = {} /\ bad = {}
  /\ pending = [s \in Slots |-> 0]
  /\ buf = [b \in Buffers |-> 0]
  /\ cs = [j \in Batches |-> 0]
  /\ rc = "none" /\ unseen = FALSE

-----------------------------------------------------------------------------
Returns(code) == pc' = "end" /\ rc' = code

(* The pinned call finds its buffers; the others allocate theirs.          *)
Alloc ==
  /\ pc = "alloc"
  /\ held' = IF op = "pinned" THEN {} ELSE UsedSlots(op) \X Parts
  /\ pc' = IF op \in Queued THEN "slot" ELSE "straight"
  /\ UNCHANGED <<op, n, i, out, bad, pending, buf, cs, rc, unseen>>

(* Variant: the batch call leaves what it had got, as the others do.       *)
LeftAfterNoMemoryAll(got) == got

(* An allocation fails after those of got: the batch call frees them, the  *)
(* one-shot destroys the process they are in, the session keeps them.      *)
LeftAfterNoMemory(got) == IF op \in {"batch", "oneshot"} THEN {} ELSE got

Got(s, parts) == {b \in UsedSlots(op) \X Parts : b[1] < s \/ (b[1] = s /\ b[2] \in parts)}
AllocFails ==
  /\ pc = "alloc" /\ SlotFaults /\ op # "pinned"
  /\ \E s \in UsedSlots(op), parts \in {{}, {"a"}, {"a", "b"}} :
       held' = LeftAfterNoMemory(Got(s, parts))
  /\ Returns("noMemory")
  /\ UNCHANGED <<op, n, i, out, bad, pending, buf, cs, unseen>>

(* fail_run, and the free_mem calls before each other return: what is      *)
(* outstanding then is not waited for.                                     *)
Fail ==
  /\ held' = {} /\ Returns("failed")
  /\ UNCHANGED <<op, n, i, out, bad, pending, buf, cs, unseen>>

Done(r) == r \notin out /\ r \notin bad
Lost(r) == r \notin out /\ r \in bad
ReadOf(s) == Req("read", pending[s])

(* Variant: the slot is taken whatever is pending on it.                   *)
SlotFreeAlways == TRUE

(* The read that is pending on the next slot has ended.                    *)
SlotFree == pending[Slot(i)] = 0 \/ Done(ReadOf(Slot(i)))

Write ==
  /\ pc = "slot" /\ i <= n /\ SlotFree
  /\ pending' = [pending EXCEPT ![Slot(i)] = 0]
  /\ out' = out \cup {Req("writeA", i), Req("writeB", i)}
  /\ pc' = "waitA"
  /\ UNCHANGED <<op, n, i, held, bad, buf, cs, rc, unseen>>

SlotReadLost ==
  /\ pc = "slot" /\ i <= n
  /\ pending[Slot(i)] # 0 /\ Lost(ReadOf(Slot(i)))
  /\ Fail

(* || : the second write is waited for only when the first one succeeded.  *)
WaitA ==
  /\ pc = "waitA"
  /\ \/ Lost(Req("writeA", i)) /\ Fail
     \/ /\ Done(Req("writeA", i))
        /\ pc' = "waitB"
        /\ UNCHANGED <<op, n, i, held, out, bad, pending, buf, cs, rc, unseen>>

WaitB ==
  /\ pc = "waitB"
  /\ \/ Lost(Req("writeB", i)) /\ Fail
     \/ /\ Done(Req("writeB", i))
        /\ out' = out \cup {Req("call", i)}
        /\ pc' = "waitCall"
        /\ UNCHANGED <<op, n, i, held, bad, pending, buf, cs, rc, unseen>>

(* Then the read is handed over, and only its number kept.                 *)
WaitCall ==
  /\ pc = "waitCall"
  /\ \/ Lost(Req("call", i)) /\ Fail
     \/ /\ Done(Req("call", i))
        /\ out' = out \cup {Req("read", i)}
        /\ pending' = [pending EXCEPT ![Slot(i)] = i]
        /\ i' = i + 1 /\ pc' = "slot"
        /\ UNCHANGED <<op, n, held, bad, buf, cs, rc, unseen>>

(* The context takes no read: the async call's wait reports it, the batch  *)
(* call takes the INVALID number for a slot without a read.                *)
ReadRefused ==
  /\ pc = "waitCall" /\ SlotFaults /\ Done(Req("call", i))
  /\ \/ op = "async" /\ Fail
     \/ /\ op = "batch"
        /\ unseen' = TRUE
        /\ i' = i + 1 /\ pc' = "slot"
        /\ UNCHANGED <<op, n, held, out, bad, pending, buf, cs, rc>>

(* Variant: only the read of the last batch is waited for.                 *)
LastRead == pending[Slot(n)] = 0 \/ Done(ReadOf(Slot(n)))

AllRead == \A s \in Slots : pending[s] # 0 => Done(ReadOf(s))

Finish ==
  /\ pc = "slot" /\ i > n /\ AllRead
  /\ held' = {} /\ Returns("ok")
  /\ UNCHANGED <<op, n, i, out, bad, pending, buf, cs, unseen>>

(* The slots are waited for in order, up to the first read that failed.    *)
FinishFails ==
  /\ pc = "slot" /\ i > n
  /\ \E s \in Slots :
       /\ pending[s] # 0 /\ Lost(ReadOf(s))
       /\ \A t \in Slots : t < s /\ pending[t] # 0 => Done(ReadOf(t))
  /\ Fail

-----------------------------------------------------------------------------
(* Where a straight call looks at a failure: the session's own only at its *)
(* kernel call, the pinned one not at its read, the one-shot everywhere.   *)
LookedAt(o) ==
  CASE o = "sync"    -> {"call"}
    [] o = "pinned"  -> {"writeA", "writeB", "call"}
    [] o = "oneshot" -> {"writeA", "writeB", "call", "read"}

(* Its commands run one after the other, each of them may fail; none is    *)
(* outstanding when it returns, and it frees what it had allocated.        *)
Run ==
  /\ pc = "straight"
  /\ \E lost \in SUBSET {"writeA", "writeB", "call", "read"} :
       /\ lost # {} => SlotFaults
       /\ IF lost \cap LookedAt(op) # {}
          THEN Returns("failed") /\ UNCHANGED <<cs, unseen>>
          ELSE /\ Returns("ok")
               /\ unseen' = (lost # {})
               /\ cs' = [cs EXCEPT ![1] = IF lost = {} THEN 1 ELSE 0]
  /\ held' = {}
  /\ UNCHANGED <<op, n, i, out, bad, pending, buf>>

-----------------------------------------------------------------------------
(* The VE carries out a request.  A buffer that was freed holds nothing    *)
(* a request could rely on.                                                *)
Of(s, part) == IF <<s, part>> \in held THEN buf[<<s, part>>] ELSE 0

Execute(r) ==
  /\ r \in out
  /\ out' = out \ {r}
  /\ LET j == r.batch
         s == Slot(j)
     IN  CASE r.kind = "writeA" -> buf' = [buf EXCEPT ![<<s, "a">>] = j] /\ UNCHANGED cs
           [] r.kind = "writeB" -> buf' = [buf EXCEPT ![<<s, "b">>] = j] /\ UNCHANGED cs
           [] r.kind = "call"   ->
                /\ buf' = [buf EXCEPT ![<<s, "c">>] =
                             IF Of(s, "a") = Of(s, "b") THEN Of(s, "a") ELSE 0]
                /\ UNCHANGED cs
           [] r.kind = "read"   -> cs' = [cs EXCEPT ![j] = Of(s, "c")] /\ UNCHANGED buf
  /\ UNCHANGED <<op, n, pc, i, held, bad, pending, rc, unseen>>

ExecuteFails(r) ==
  /\ r \in out /\ SlotFaults
  /\ out' = out \ {r} /\ bad' = bad \cup {r}
  /\ LET s == Slot(r.batch)
     IN  buf' = CASE r.kind = "writeA" -> [buf EXCEPT ![<<s, "a">>] = 0]
                  [] r.kind = "writeB" -> [buf EXCEPT ![<<s, "b">>] = 0]
                  [] r.kind = "call"   -> [buf EXCEPT ![<<s, "c">>] = 0]
                  [] OTHER -> buf
  /\ cs' = IF r.kind = "read" THEN [cs EXCEPT ![r.batch] = 0] ELSE cs
  /\ UNCHANGED <<op, n, pc, i, held, pending, rc, unseen>>

Host ==
  \/ Alloc \/ AllocFails \/ Write \/ SlotReadLost \/ WaitA \/ WaitB
  \/ WaitCall \/ ReadRefused \/ Finish \/ FinishFails \/ Run
Ended == pc = "end" /\ out = {} /\ UNCHANGED vars

Next == Host \/ (\E r \in out : Execute(r) \/ ExecuteFails(r)) \/ Ended
Spec == Init /\ [][Next]_vars

-----------------------------------------------------------------------------
TypeOK ==
  /\ op \in Queued \cup Straight /\ n \in Batches /\ i \in 1..MaxBatches + 1
  /\ pc \in {"alloc", "slot", "waitA", "waitB", "waitCall", "straight", "end"}
  /\ held \in SUBSET Buffers
  /\ out \in SUBSET Request /\ bad \in SUBSET Request
  /\ pending \in [Slots -> 0..MaxBatches]
  /\ buf \in [Buffers -> 0..MaxBatches]
  /\ cs \in [Batches -> 0..MaxBatches]
  /\ rc \in {"none", "ok", "failed", "noMemory"} /\ unseen \in BOOLEAN

(* A call that returns 0 has stored the product of every batch in its own  *)
(* C and leaves nothing in flight, so that the caller may look at C and    *)
(* free A and B: unless the code overlooked a failure.  A call that fails  *)
(* may leave requests on freed buffers behind.                             *)
OkIsOwn ==
  rc = "ok" => /\ out = {}
               /\ unseen \/ \A j \in 1..n : cs[j] = j

(* At any time what is outstanding on a slot belongs to one step of one    *)
(* batch: its two writes, its call, or its read.  The next batch of the    *)
(* slot never overlaps them, whatever order the VE works in.               *)
SlotExclusive ==
  \A r, q \in out :
    Slot(r.batch) = Slot(q.batch) /\ pc # "end" =>
      r.batch = q.batch /\ (r = q \/ {r.kind, q.kind} = {"writeA", "writeB"})

(* What was allocated for a call is freed when it returns, on every way    *)
(* out, but for the session's own calls that run out of memory.            *)
BuffersReturned ==
  pc = "end" => held = {} \/ (rc = "noMemory" /\ op \in {"sync", "async"})
=============================================================================
