-------------------------- MODULE BatchSlotsProofs --------------------------
(***************************************************************************)
(* Theorems about BatchSlots, for any number of batches and whatever       *)
(* order the VE works in.  The invariant says which step of the host every *)
(* unfinished or failed request belongs to (Owned), and from there what    *)
(* the buffers and the results of the finished ones hold (Data).           *)
(***************************************************************************)
EXTENDS BatchSlots, TLAPS

Waiting == pc \in {"waitA", "waitB", "waitCall"}
InLoop  == pc = "slot" \/ Waiting

Phase ==
  /\ rc = "none" <=> pc # "end"
  /\ pc \in {"alloc", "straight"} => i = 1
  /\ pc = "straight" => op \in Straight
  /\ InLoop => op \in Queued /\ held = UsedSlots(op) \X Parts
  /\ op # "batch" => n = 1
  /\ i <= n + 1 /\ (Waiting => i <= n /\ pending[Slot(i)] = 0)

(* The step of the host at which a request may be unfinished or failed.    *)
Owned(r) ==
  /\ r.kind = "writeA" => r.batch = i /\ pc = "waitA"
  /\ r.kind = "writeB" => r.batch = i /\ pc \in {"waitA", "waitB"}
  /\ r.kind = "call"   => r.batch = i /\ pc = "waitCall"
  /\ r.kind = "read"   => r.batch < i /\ pending[Slot(r.batch)] = r.batch

AllOwned == pc # "end" => \A r \in out \cup bad : Owned(r)

WrittenData ==
  pc \in {"waitA", "waitB"} =>
    /\ Done(Req("writeA", i)) => buf[<<Slot(i), "a">>] = i
    /\ Done(Req("writeB", i)) => buf[<<Slot(i), "b">>] = i
CalledData ==
  pc = "waitCall" =>
    /\ buf[<<Slot(i), "a">>] = i /\ buf[<<Slot(i), "b">>] = i
    /\ Done(Req("call", i)) => buf[<<Slot(i), "c">>] = i
ReadData(j) ==
  /\ Req("read", j) \in out => buf[<<Slot(j), "c">>] = j
  /\ Done(Req("read", j)) => cs[j] = j \/ unseen

Data ==
  /\ WrittenData /\ CalledData
  /\ InLoop => \A j \in Batches : j < i => ReadData(j)

IInv == TypeOK /\ Phase /\ AllOwned /\ Data /\ OkIsOwn /\ BuffersReturned

-----------------------------------------------------------------------------
LEMMA SlotRange == \A j \in Batches : Slot(j) \in Slots
  BY BatchSlotsAssumption DEF Batches, Slot, Slots

LEMMA RequestParts ==
  /\ \A r \in Request : /\ r.kind \in {"writeA", "writeB", "call", "read"}
                        /\ r.batch \in Batches
                        /\ r = Req(r.kind, r.batch)
  /\ \A k \in {"writeA", "writeB", "call", "read"}, j \in Batches :
       Req(k, j) \in Request /\ Req(k, j).kind = k /\ Req(k, j).batch = j
  BY DEF Request, Req

LEMMA OnlySlotZero == \A j \in Batches : j = 1 => Slot(j) = 0
  BY DEF Slot

-----------------------------------------------------------------------------
LEMMA InitOK == Init => IInv
<1> SUFFICES ASSUME Init PROVE IInv
  OBVIOUS
<1> USE BatchSlotsAssumption DEF Init, Batches, Queued, Straight
<1>0. 1 \in Batches /\ n \in Batches /\ i \in 1..MaxBatches + 1
  OBVIOUS
<1>1. TypeOK
  <2>1. /\ pending \in [Slots -> 0..MaxBatches]
        /\ buf \in [Buffers -> 0..MaxBatches]
        /\ cs \in [Batches -> 0..MaxBatches]
    OBVIOUS
  <2>2. QED
    BY <1>0, <2>1 DEF TypeOK
<1>2. Phase
  BY DEF Phase, InLoop, Waiting
<1>3. AllOwned /\ Data /\ OkIsOwn /\ BuffersReturned
  BY DEF AllOwned, Data, WrittenData, CalledData, ReadData, InLoop, Waiting, OkIsOwn, BuffersReturned
<1>4. QED
  BY <1>1, <1>2, <1>3 DEF IInv

(* A step that ends the call with an error leaves nothing to show.         *)
LEMMA FailOK ==
  ASSUME IInv, Fail
  PROVE  IInv'
<1> USE DEF IInv, Fail, Returns
<1>1. TypeOK'
  BY DEF TypeOK
<1>2. Phase'
  BY DEF Phase, InLoop, Waiting, TypeOK
<1>3. AllOwned' /\ Data' /\ OkIsOwn' /\ BuffersReturned'
  BY DEF AllOwned, Data, WrittenData, CalledData, ReadData, InLoop, Waiting, OkIsOwn, BuffersReturned
<1>4. QED
  BY <1>1, <1>2, <1>3

LEMMA AllocOK ==
  ASSUME IInv, Alloc \/ AllocFails
  PROVE  IInv'
<1> USE DEF IInv
<1>1. CASE Alloc
  <2> USE <1>1 DEF Alloc
  <2>1. TypeOK'
    BY DEF TypeOK, UsedSlots, Buffers, Slots
  <2>2. Phase'
    BY DEF Phase, InLoop, Waiting, TypeOK, Queued, Straight
  <2>3. out = {} /\ bad = {}
    <3>1. SUFFICES ASSUME NEW r \in out \cup bad PROVE FALSE
      OBVIOUS
    <3>2. r \in Request /\ Owned(r) /\ i = 1
      BY DEF AllOwned, Phase, TypeOK
    <3>3. r.kind = "read" /\ r.batch < 1
      BY <3>2, RequestParts DEF Owned
    <3>4. QED
      BY <3>2, <3>3, RequestParts DEF Batches
  <2>4. AllOwned' /\ OkIsOwn' /\ BuffersReturned'
    BY <2>3 DEF AllOwned, OkIsOwn, BuffersReturned, Phase
  <2>5. Data'
    BY DEF Data, WrittenData, CalledData, ReadData, InLoop, Waiting, Phase, Batches
  <2>6. QED
    BY <2>1, <2>2, <2>4, <2>5
<1>2. CASE AllocFails
  <2> USE <1>2 DEF AllocFails, Returns
  <2>1. held' \subseteq Buffers /\ (held' = {} \/ op \in {"sync", "async"})
    BY DEF LeftAfterNoMemory, Got, UsedSlots, Buffers, Slots, TypeOK, Queued, Straight
  <2>2. TypeOK'
    BY <2>1 DEF TypeOK
  <2>3. Phase'
    BY DEF Phase, InLoop, Waiting, TypeOK
  <2>4. AllOwned' /\ Data' /\ OkIsOwn' /\ BuffersReturned'
    BY <2>1 DEF AllOwned, Data, WrittenData, CalledData, ReadData, InLoop, Waiting, OkIsOwn, BuffersReturned
  <2>5. QED
    BY <2>2, <2>3, <2>4
<1>3. QED
  BY <1>1, <1>2

-----------------------------------------------------------------------------
LEMMA WriteOK ==
  ASSUME IInv, Write
  PROVE  IInv'
<1> USE DEF IInv, Write
<1>0. i \in Batches /\ Slot(i) \in Slots /\ Req("writeA", i) \in Request /\ Req("writeB", i) \in Request
  BY SlotRange, RequestParts, BatchSlotsAssumption DEF TypeOK, Batches
<1>1. TypeOK'
  <2>1. out' \subseteq Request /\ pending' \in [Slots -> 0..MaxBatches]
    BY <1>0, BatchSlotsAssumption DEF TypeOK
  <2>2. QED
    BY <2>1 DEF TypeOK
<1>2. Phase'
  BY <1>0 DEF Phase, InLoop, Waiting, TypeOK
<1>3. ASSUME NEW r \in out \cup bad
      PROVE  Owned(r)'
  <2>1. r \in Request /\ Owned(r) /\ r.kind = "read"
    BY RequestParts DEF AllOwned, Owned, TypeOK
  <2>2. r.batch < i /\ pending[Slot(r.batch)] = r.batch
    BY <2>1 DEF Owned
  <2>3. Slot(r.batch) # Slot(i)
    <3>1. SUFFICES ASSUME Slot(r.batch) = Slot(i) PROVE FALSE
      OBVIOUS
    <3>2. r = ReadOf(Slot(i))
      BY <2>1, <2>2, <3>1, RequestParts DEF ReadOf
    <3>3. r.batch # 0
      BY <2>1, RequestParts, BatchSlotsAssumption DEF Batches
    <3>4. QED
      BY <2>2, <3>1, <3>2, <3>3 DEF SlotFree, Done
  <2>4. pending'[Slot(r.batch)] = r.batch
    BY <2>1, <2>2, <2>3, SlotRange, RequestParts DEF TypeOK
  <2>5. QED
    BY <2>1, <2>2, <2>4 DEF Owned
<1>4. Owned(Req("writeA", i))' /\ Owned(Req("writeB", i))'
  BY <1>0, RequestParts DEF Owned
<1>5. AllOwned'
  BY <1>3, <1>4 DEF AllOwned
<1>6. Data'
  BY <1>0, RequestParts DEF Data, WrittenData, CalledData, ReadData, InLoop, Waiting, Done
<1>7. OkIsOwn' /\ BuffersReturned'
  BY DEF Phase, OkIsOwn, BuffersReturned
<1>8. QED
  BY <1>1, <1>2, <1>5, <1>6, <1>7

(* Once the host goes on, the requests it has waited for are no longer     *)
(* among the unfinished or failed ones.                                    *)
LEMMA WaitOK ==
  ASSUME IInv, WaitA \/ WaitB
  PROVE  IInv'
<1> USE DEF IInv
<1>0. i \in Batches /\ Slot(i) \in Slots /\ Req("call", i) \in Request
  BY SlotRange, RequestParts, BatchSlotsAssumption DEF TypeOK, Batches, Phase, Waiting, WaitA, WaitB
<1>1. CASE Fail
  BY <1>1, FailOK
<1>2. CASE WaitA /\ ~Fail
  <2> USE <1>2 DEF WaitA
  <2>1. TypeOK' /\ Phase' /\ OkIsOwn' /\ BuffersReturned'
    BY DEF TypeOK, Phase, InLoop, Waiting, OkIsOwn, BuffersReturned
  <2>2. ASSUME NEW r \in out \cup bad
        PROVE  Owned(r)'
    <3>1. r \in Request /\ Owned(r) /\ r # Req("writeA", i)
      BY DEF AllOwned, TypeOK, Done
    <3>2. r.kind # "writeA"
      BY <3>1, RequestParts DEF Owned
    <3>3. QED
      BY <3>1, <3>2, RequestParts DEF Owned
  <2>3. AllOwned'
    BY <2>2 DEF AllOwned
  <2>4. Data'
    BY DEF Data, WrittenData, CalledData, ReadData, InLoop, Waiting, Done
  <2>5. QED
    BY <2>1, <2>3, <2>4
<1>3. CASE WaitB /\ ~Fail
  <2> USE <1>3 DEF WaitB
  <2>1. out' = out \cup {Req("call", i)} /\ pc = "waitB" /\ pc' = "waitCall"
    OBVIOUS
  <2>2. TypeOK' /\ Phase' /\ OkIsOwn' /\ BuffersReturned'
    <3>1. out' \subseteq Request
      BY <1>0, <2>1 DEF TypeOK
    <3>2. QED
      BY <3>1 DEF TypeOK, Phase, InLoop, Waiting, OkIsOwn, BuffersReturned
  <2>3. ASSUME NEW r \in out \cup bad
        PROVE  Owned(r)' /\ r.kind = "read"
    <3>1. r \in Request /\ Owned(r) /\ r # Req("writeB", i)
      BY DEF AllOwned, TypeOK, Done
    <3>2. r.kind = "read"
      BY <3>1, RequestParts DEF Owned
    <3>3. QED
      BY <3>1, <3>2, RequestParts DEF Owned
  <2>4. Owned(Req("call", i))'
    BY <1>0, RequestParts DEF Owned
  <2>5. AllOwned'
    BY <2>3, <2>4 DEF AllOwned
  <2>6. Done(Req("writeA", i)) /\ Done(Req("writeB", i))
    BY <1>0, <2>3, RequestParts DEF Done
  <2>7. Data'
    BY <1>0, <2>6, RequestParts DEF Data, WrittenData, CalledData, ReadData, InLoop, Waiting, Done
  <2>8. QED
    BY <2>2, <2>5, <2>7
<1>4. QED
  BY <1>1, <1>2, <1>3

(* The slot's read belongs to the batch just multiplied: no older one is   *)
(* left on the slot, whose pending number was cleared by the write.        *)
LEMMA WaitCallOK ==
  ASSUME IInv, WaitCall \/ ReadRefused
  PROVE  IInv'
<1> USE DEF IInv
<1>0. /\ pc = "waitCall" /\ i \in Batches /\ Slot(i) \in Slots /\ i <= n
      /\ Req("read", i) \in Request /\ i + 1 \in 1..MaxBatches + 1
      /\ n \in Nat /\ pending[Slot(i)] = 0
  BY SlotRange, RequestParts, BatchSlotsAssumption
     DEF TypeOK, Batches, Phase, Waiting, WaitCall, ReadRefused
<1>1. CASE Fail
  BY <1>1, FailOK
<1>2. ASSUME ~Fail
      PROVE  Done(Req("call", i)) /\ i' = i + 1 /\ pc' = "slot"
  BY <1>2 DEF WaitCall, ReadRefused
<1>3. ASSUME ~Fail, NEW r \in out \cup bad
      PROVE  r \in Request /\ Owned(r) /\ r.kind = "read" /\ r.batch < i
  <2>1. r \in Request /\ Owned(r) /\ r # Req("call", i)
    BY <1>0, <1>2, <1>3 DEF AllOwned, TypeOK, Done
  <2>2. QED
    BY <1>0, <2>1, RequestParts DEF Owned
<1>4. ASSUME ~Fail
      PROVE  Req("read", i) \notin out \cup bad /\ buf[<<Slot(i), "c">>] = i
  <2>1. Req("read", i) \notin out \cup bad
    BY <1>0, <1>3, <1>4, RequestParts DEF Batches
  <2>2. QED
    BY <1>0, <1>2, <1>4, <2>1 DEF Data, WrittenData, CalledData, ReadData, InLoop, Waiting
<1>5. CASE WaitCall /\ ~Fail
  <2> USE <1>5 DEF WaitCall
  <2>1. /\ out' = out \cup {Req("read", i)} /\ pending' = [pending EXCEPT ![Slot(i)] = i]
        /\ UNCHANGED <<op, n, held, bad, buf, cs, rc, unseen>>
    OBVIOUS
  <2>2. TypeOK'
    <3>1. out' \subseteq Request /\ pending' \in [Slots -> 0..MaxBatches]
      BY <1>0, <2>1 DEF TypeOK, Batches
    <3>2. QED
      BY <1>0, <1>2, <2>1, <3>1 DEF TypeOK
  <2>3. Phase' /\ OkIsOwn' /\ BuffersReturned'
    BY <1>0, <1>2, <2>1 DEF Phase, InLoop, Waiting, OkIsOwn, BuffersReturned, Batches
  <2>4. ASSUME NEW r \in out \cup bad
        PROVE  Owned(r)'
    <3>1. r \in Request /\ r.kind = "read" /\ r.batch < i /\ pending[Slot(r.batch)] = r.batch
      BY <1>3 DEF Owned
    <3>2. r.batch \in Batches /\ Slot(r.batch) \in Slots
      BY <3>1, RequestParts, SlotRange
    <3>3. Slot(r.batch) # Slot(i)
      BY <1>0, <3>1, <3>2 DEF Batches
    <3>4. pending'[Slot(r.batch)] = r.batch /\ r.batch < i'
      BY <1>0, <1>2, <2>1, <3>1, <3>2, <3>3 DEF TypeOK, Batches
    <3>5. QED
      BY <3>1, <3>4 DEF Owned
  <2>5. ASSUME NEW r, r = Req("read", i)
        PROVE  Owned(r)'
    <3>1. pending'[Slot(i)] = i /\ i < i'
      BY <1>0, <1>2, <2>1 DEF TypeOK, Batches
    <3>2. r.kind = "read" /\ r.batch = i
      BY <1>0, <2>5, RequestParts
    <3>3. QED
      BY <3>1, <3>2 DEF Owned
  <2>6. AllOwned'
    <3>1. out' \cup bad' = (out \cup bad) \cup {Req("read", i)}
      BY <2>1
    <3>2. QED
      BY <2>4, <2>5, <3>1 DEF AllOwned
  <2>7. ASSUME NEW j \in Batches, j < i'
        PROVE  /\ Req("read", j) \in out' => buf'[<<Slot(j), "c">>] = j
               /\ Done(Req("read", j))' => cs'[j] = j \/ unseen'
    <3>1. CASE j = i
      BY <1>4, <2>1, <3>1 DEF Done
    <3>2. CASE j < i
      <4>1. Req("read", j) # Req("read", i)
        BY <1>0, <3>2, RequestParts DEF Batches
      <4>2. QED
        BY <1>0, <2>1, <3>2, <4>1 DEF Done, Data, WrittenData, CalledData, ReadData, InLoop, Waiting
    <3>3. QED
      BY <1>0, <1>2, <2>7, <3>1, <3>2 DEF Batches
  <2>8. Data'
    BY <1>2, <2>7 DEF Data, WrittenData, CalledData, ReadData, InLoop, Waiting
  <2>9. QED
    BY <2>2, <2>3, <2>6, <2>8
<1>6. CASE ReadRefused /\ ~Fail
  <2> USE <1>6 DEF ReadRefused
  <2>1. unseen' = TRUE /\ UNCHANGED <<op, n, held, out, bad, pending, buf, cs, rc>>
    OBVIOUS
  <2>2. TypeOK' /\ Phase' /\ OkIsOwn' /\ BuffersReturned'
    BY <1>0, <1>2, <2>1 DEF TypeOK, Phase, InLoop, Waiting, OkIsOwn, BuffersReturned, Batches
  <2>3. AllOwned'
    BY <1>0, <1>2, <1>3, <2>1, RequestParts DEF AllOwned, Owned, Batches
  <2>4. ASSUME NEW j \in Batches, Req("read", j) \in out
        PROVE  buf[<<Slot(j), "c">>] = j
    <3>1. j < i
      BY <1>3, <2>4, RequestParts
    <3>2. QED
      BY <1>0, <2>4, <3>1 DEF Data, WrittenData, CalledData, ReadData, InLoop, Waiting
  <2>5. Data'
    BY <1>2, <2>1, <2>4 DEF Data, WrittenData, CalledData, ReadData, InLoop, Waiting
  <2>6. QED
    BY <2>2, <2>3, <2>5
<1>7. QED
  BY <1>1, <1>5, <1>6

-----------------------------------------------------------------------------
(* At the end no request is unfinished and every read has given its batch. *)
LEMMA FinishOK ==
  ASSUME IInv, Finish
  PROVE  IInv'
<1> USE DEF IInv, Finish, Returns
<1>1. TypeOK'
  BY DEF TypeOK
<1>2. Phase' /\ AllOwned' /\ Data' /\ BuffersReturned'
  BY DEF Phase, InLoop, Waiting, AllOwned, Data, WrittenData, CalledData, BuffersReturned, TypeOK
<1>3. out \cup bad = {}
  <2>1. SUFFICES ASSUME NEW r \in out \cup bad PROVE FALSE
    OBVIOUS
  <2>2. r \in Request /\ r.kind = "read" /\ pending[Slot(r.batch)] = r.batch
    BY RequestParts DEF AllOwned, Owned, TypeOK
  <2>3. r.batch \in Batches /\ r.batch # 0 /\ Slot(r.batch) \in Slots
    BY <2>2, RequestParts, SlotRange DEF Batches
  <2>4. r = ReadOf(Slot(r.batch))
    BY <2>2, RequestParts DEF ReadOf
  <2>5. QED
    BY <2>2, <2>3, <2>4 DEF AllRead, Done
<1>4. ASSUME NEW j \in 1..n
      PROVE  unseen \/ cs[j] = j
  <2>1. j \in Batches /\ j < i
    BY BatchSlotsAssumption DEF TypeOK, Batches
  <2>2. Done(Req("read", j))
    BY <1>3 DEF Done
  <2>3. QED
    BY <2>1, <2>2 DEF Data, WrittenData, CalledData, ReadData, InLoop
<1>5. OkIsOwn'
  BY <1>3, <1>4 DEF OkIsOwn
<1>6. QED
  BY <1>1, <1>2, <1>5

LEMMA RunOK ==
  ASSUME IInv, Run
  PROVE  IInv'
<1> USE DEF IInv
<1>1. /\ pc = "straight" /\ pc' = "end" /\ held' = {} /\ rc' \in {"ok", "failed"}
      /\ unseen' \in BOOLEAN
      /\ cs' \in [Batches -> 0..MaxBatches]
      /\ rc' = "ok" => unseen' \/ cs'[1] = 1
      /\ UNCHANGED <<op, n, i, out, bad, pending, buf>>
  <2>1. 1 \in Batches /\ 1 \in 0..MaxBatches /\ 0 \in 0..MaxBatches
    BY BatchSlotsAssumption DEF Batches
  <2>2. QED
    BY <2>1 DEF Run, Returns, TypeOK
<1>2. TypeOK'
  BY <1>1 DEF TypeOK
<1>3. n = 1 /\ i = 1
  BY <1>1 DEF Phase, Straight
<1>4. Phase' /\ AllOwned' /\ Data' /\ BuffersReturned'
  BY <1>1, <1>3 DEF Phase, InLoop, Waiting, AllOwned, Data, WrittenData, CalledData, BuffersReturned
<1>5. out = {}
  <2>1. SUFFICES ASSUME NEW r \in out PROVE FALSE
    OBVIOUS
  <2>2. r \in Request /\ r.kind = "read" /\ r.batch < 1
    BY <1>1, <1>3, RequestParts DEF AllOwned, Owned, TypeOK
  <2>3. QED
    BY <2>2, RequestParts DEF Batches
<1>6. OkIsOwn'
  BY <1>1, <1>3, <1>5 DEF OkIsOwn
<1>7. QED
  BY <1>2, <1>4, <1>6

-----------------------------------------------------------------------------
(* A request is carried out, or fails.  It writes a buffer nobody else     *)
(* uses then: the slot's pending number says so.                           *)
LEMMA InFlight ==
  ASSUME IInv, pc # "end", NEW r \in out
  PROVE  /\ InLoop /\ r \in Request /\ Owned(r)
         /\ r.batch \in Batches /\ Slot(r.batch) \in Slots
         /\ \A part \in Parts : <<Slot(r.batch), part>> \in held \cap Buffers
<1> USE DEF IInv
<1>1. r \in Request /\ Owned(r) /\ r.batch \in Batches /\ Slot(r.batch) \in Slots
  BY RequestParts, SlotRange DEF AllOwned, TypeOK
<1>2. InLoop
  BY <1>1, RequestParts DEF Owned, Phase, InLoop, Waiting, TypeOK, Batches
<1>3. r.batch <= n /\ n \in Batches
  BY <1>1, RequestParts DEF Owned, Phase, Waiting, TypeOK, Batches
<1>4. Slot(r.batch) \in UsedSlots(op)
  <2>1. CASE op = "batch"
    BY <1>1, <2>1 DEF UsedSlots
  <2>2. CASE op # "batch"
    <3>1. r.batch = 1
      BY <1>1, <1>3, <2>2 DEF Phase, Batches
    <3>2. QED
      BY <1>1, <2>2, <3>1, OnlySlotZero DEF UsedSlots
  <2>3. QED
    BY <2>1, <2>2
<1>5. ASSUME NEW part \in Parts
      PROVE  <<Slot(r.batch), part>> \in held \cap Buffers
  BY <1>1, <1>2, <1>4 DEF Phase, Buffers, TypeOK
<1>6. QED
  BY <1>1, <1>2, <1>5

LEMMA ExecuteTypes ==
  ASSUME IInv, NEW r \in out, Execute(r) \/ ExecuteFails(r)
  PROVE  TypeOK' /\ UNCHANGED <<op, n, pc, i, held, pending, rc, unseen>>
<1> USE DEF IInv
<1>1. /\ r \in Request /\ r.batch \in Batches /\ Slot(r.batch) \in Slots
      /\ r.batch \in 0..MaxBatches /\ 0 \in 0..MaxBatches
      /\ \A s \in Slots, part \in Parts : Of(s, part) \in 0..MaxBatches
  BY RequestParts, SlotRange, BatchSlotsAssumption DEF TypeOK, Of, Batches
<1>2. UNCHANGED <<op, n, pc, i, held, pending, rc, unseen>>
  BY DEF Execute, ExecuteFails
<1>3. out' \subseteq Request /\ bad' \subseteq Request
  BY DEF Execute, ExecuteFails, TypeOK
<1>4. buf' \in [Buffers -> 0..MaxBatches] /\ cs' \in [Batches -> 0..MaxBatches]
  <2>1. CASE r.kind = "writeA" \/ r.kind = "writeB"
    BY <1>1, <2>1 DEF Execute, ExecuteFails, TypeOK
  <2>2. CASE r.kind = "call"
    <3>1. "a" \in Parts /\ "b" \in Parts
      BY DEF Parts
    <3>2. Of(Slot(r.batch), "a") \in 0..MaxBatches
      BY <1>1, <3>1
    <3>3. QED
      BY <1>1, <2>2, <3>2 DEF Execute, ExecuteFails, TypeOK
  <2>3. CASE r.kind = "read"
    <3>1. Of(Slot(r.batch), "c") \in 0..MaxBatches
      BY <1>1 DEF Parts
    <3>2. QED
      BY <1>1, <2>3, <3>1 DEF Execute, ExecuteFails, TypeOK
  <2>4. QED
    BY <1>1, <2>1, <2>2, <2>3, RequestParts
<1>5. QED
  BY <1>2, <1>3, <1>4 DEF TypeOK

LEMMA ExecuteOwned ==
  ASSUME IInv, NEW r \in out, Execute(r) \/ ExecuteFails(r)
  PROVE  Phase' /\ AllOwned' /\ OkIsOwn' /\ BuffersReturned'
<1>1. /\ UNCHANGED <<op, n, pc, i, held, pending, rc, unseen>>
      /\ out' \cup bad' \subseteq out \cup bad
  BY ExecuteTypes DEF Execute, ExecuteFails
<1>2. Phase' /\ BuffersReturned'
  BY <1>1 DEF IInv, Phase, InLoop, Waiting, BuffersReturned
<1>3. AllOwned'
  BY <1>1 DEF IInv, AllOwned, Owned
<1>4. OkIsOwn'
  BY <1>1 DEF IInv, OkIsOwn
<1>5. QED
  BY <1>2, <1>3, <1>4

(* An unfinished read keeps its slot's result to itself.                   *)
LEMMA ReadsApart ==
  ASSUME IInv, Waiting, NEW j \in Batches, Req("read", j) \in out
  PROVE  Slot(j) # Slot(i)
<1>1. pending[Slot(j)] = j
  BY RequestParts DEF IInv, AllOwned, Owned, Waiting
<1>2. QED
  BY <1>1 DEF IInv, Phase, Batches

LEMMA ExecuteOK ==
  ASSUME IInv, NEW r \in out, Execute(r) \/ ExecuteFails(r)
  PROVE  IInv'
<1>1. TypeOK' /\ Phase' /\ AllOwned' /\ OkIsOwn' /\ BuffersReturned'
  BY ExecuteTypes, ExecuteOwned
<1>2. UNCHANGED <<op, n, pc, i, held, pending, rc, unseen>>
  BY ExecuteTypes
<1>3. CASE pc = "end"
  BY <1>1, <1>2, <1>3 DEF IInv, Data, WrittenData, CalledData, InLoop, Waiting
<1>4. CASE pc # "end"
  <2> DEFINE s == Slot(r.batch)
  <2>1. /\ InLoop /\ r \in Request /\ Owned(r)
        /\ r.batch \in Batches /\ s \in Slots
        /\ \A part \in Parts : <<s, part>> \in held \cap Buffers
    BY <1>4, InFlight
  <2>2. buf \in [Buffers -> 0..MaxBatches] /\ cs \in [Batches -> 0..MaxBatches] /\ Data
    BY DEF IInv, TypeOK
  <2>3. /\ \A q : q \notin out' /\ q \notin bad' => q = r \/ Done(q)
        /\ r \notin bad' => Execute(r)
        /\ out' = out \ {r}
    BY DEF Execute, ExecuteFails, Done
  <2>4. /\ <<s, "a">> \in Buffers /\ <<s, "b">> \in Buffers /\ <<s, "c">> \in Buffers
        /\ Of(s, "a") = buf[<<s, "a">>] /\ Of(s, "b") = buf[<<s, "b">>]
        /\ Of(s, "c") = buf[<<s, "c">>]
        /\ \A j \in Batches : <<Slot(j), "c">> \in Buffers
    BY <2>1, SlotRange DEF Of, Parts, Buffers
  <2>5. \A j \in Batches : j < i => ReadData(j)
    BY <2>1, <2>2 DEF Data
  <2>6. CASE r.kind \in {"writeA", "writeB"}
    <3>1. r.batch = i /\ i \in Batches /\ pc \in {"waitA", "waitB"} /\ r = Req(r.kind, i)
      BY <2>1, <2>6, RequestParts DEF Owned
    <3>2. UNCHANGED cs /\ \A j \in Batches : buf'[<<Slot(j), "c">>] = buf[<<Slot(j), "c">>]
      BY <2>2, <2>4, <2>6 DEF Execute, ExecuteFails
    <3>3. /\ r.kind = "writeA" => buf'[<<s, "b">>] = buf[<<s, "b">>]
          /\ r.kind = "writeB" => buf'[<<s, "a">>] = buf[<<s, "a">>]
      BY <2>2, <2>4, <2>6 DEF Execute, ExecuteFails
    <3>4. /\ Execute(r) /\ r.kind = "writeA" => buf'[<<s, "a">>] = i
          /\ Execute(r) /\ r.kind = "writeB" => buf'[<<s, "b">>] = i
      BY <2>2, <2>4, <3>1 DEF Execute
    <3>5. /\ Req("writeA", i) # Req("writeB", i)
          /\ \A j \in Batches : Req("read", j) # r
      BY <2>6, <3>1, RequestParts
    <3>6. WrittenData' /\ CalledData'
      BY <1>2, <2>2, <2>3, <2>6, <3>1, <3>3, <3>4, <3>5
         DEF Data, WrittenData, CalledData, Done
    <3>7. \A j \in Batches : j < i => ReadData(j)'
      BY <1>2, <2>3, <2>5, <3>2, <3>5 DEF ReadData, Done
    <3>8. QED
      BY <1>1, <1>2, <3>6, <3>7 DEF IInv, Data
  <2>7. CASE r.kind = "call"
    <3>1. r.batch = i /\ i \in Batches /\ pc = "waitCall" /\ r = Req("call", i)
      BY <2>1, <2>7, RequestParts DEF Owned
    <3>2. /\ UNCHANGED cs
          /\ buf'[<<s, "a">>] = buf[<<s, "a">>] /\ buf'[<<s, "b">>] = buf[<<s, "b">>]
          /\ \A j \in Batches : Slot(j) # s => buf'[<<Slot(j), "c">>] = buf[<<Slot(j), "c">>]
      BY <2>2, <2>4, <2>7 DEF Execute, ExecuteFails
    <3>3. buf[<<s, "a">>] = i /\ buf[<<s, "b">>] = i
      BY <2>2, <3>1 DEF Data, CalledData
    <3>4. Execute(r) => buf'[<<s, "c">>] = i
      BY <2>2, <2>4, <2>7, <3>3 DEF Execute
    <3>5. WrittenData' /\ CalledData'
      BY <1>2, <2>3, <3>1, <3>2, <3>3, <3>4 DEF WrittenData, CalledData, Done
    <3>6. ASSUME NEW j \in Batches, j < i
          PROVE  ReadData(j)'
      <4>1. Req("read", j) # r
        BY <2>7, RequestParts
      <4>2. Req("read", j) \in out => Slot(j) # s
        BY <3>1, ReadsApart DEF Waiting
      <4>3. QED
        BY <1>2, <2>3, <2>5, <3>2, <3>6, <4>1, <4>2 DEF ReadData, Done
    <3>7. QED
      BY <1>1, <1>2, <3>5, <3>6 DEF IInv, Data
  <2>8. CASE r.kind = "read"
    <3>1. r.batch < i /\ r = Req("read", r.batch)
      BY <2>1, <2>8, RequestParts DEF Owned
    <3>2. UNCHANGED buf /\ \A j \in Batches : j # r.batch => cs'[j] = cs[j]
      BY <2>2, <2>8 DEF Execute, ExecuteFails
    <3>3. Execute(r) => cs'[r.batch] = r.batch
      BY <2>1, <2>2, <2>4, <2>5, <2>8, <3>1 DEF Execute, ReadData
    <3>4. WrittenData' /\ CalledData'
      <4>1. i \in Batches => r \notin {Req("writeA", i), Req("writeB", i), Req("call", i)}
        BY <2>8, RequestParts
      <4>2. Waiting => i \in Batches
        BY BatchSlotsAssumption DEF IInv, TypeOK, Phase, Batches
      <4>3. QED
        BY <1>2, <2>2, <2>3, <3>2, <4>1, <4>2 DEF Data, WrittenData, CalledData, Done, Waiting
    <3>5. ASSUME NEW j \in Batches, j < i
          PROVE  ReadData(j)'
      <4>1. j # r.batch => Req("read", j) # r
        BY RequestParts
      <4>2. QED
        BY <1>2, <2>3, <2>5, <3>1, <3>2, <3>3, <3>5, <4>1 DEF ReadData, Done
    <3>6. QED
      BY <1>1, <1>2, <3>4, <3>5 DEF IInv, Data
  <2>9. QED
    BY <2>1, <2>6, <2>7, <2>8, RequestParts
<1>5. QED
  BY <1>3, <1>4

-----------------------------------------------------------------------------
LEMMA StepOK == IInv /\ [Next]_vars => IInv'
<1> SUFFICES ASSUME IInv, [Next]_vars PROVE IInv'
  OBVIOUS
<1>1. CASE Alloc \/ AllocFails
  BY <1>1, AllocOK
<1>2. CASE Write
  BY <1>2, WriteOK
<1>3. CASE SlotReadLost \/ FinishFails
  BY <1>3, FailOK DEF SlotReadLost, FinishFails
<1>4. CASE WaitA \/ WaitB
  BY <1>4, WaitOK
<1>5. CASE WaitCall \/ ReadRefused
  BY <1>5, WaitCallOK
<1>6. CASE Finish
  BY <1>6, FinishOK
<1>7. CASE Run
  BY <1>7, RunOK
<1>8. CASE \E r \in out : Execute(r) \/ ExecuteFails(r)
  BY <1>8, ExecuteOK
<1>9. CASE UNCHANGED vars
  BY <1>9 DEF vars, IInv, TypeOK, Phase, InLoop, Waiting, AllOwned, Owned, Data,
              WrittenData, CalledData, ReadData, Done, OkIsOwn, BuffersReturned
<1>10. QED
  BY <1>1, <1>2, <1>3, <1>4, <1>5, <1>6, <1>7, <1>8, <1>9 DEF Next, Host, Ended

LEMMA Invariant == Spec => []IInv
  BY InitOK, StepOK, PTL DEF Spec

(* The variables keep their types, whatever fails.                         *)
THEOREM TypeCorrect == Spec => []TypeOK
<1>1. IInv => TypeOK
  BY DEF IInv
<1>2. QED
  BY <1>1, Invariant, PTL

(* What is outstanding on a slot belongs to one step of one batch: the     *)
(* batch call's wait for the pending read is enough, in any order of work. *)
THEOREM SlotsExclusive == Spec => []SlotExclusive
<1>1. IInv => SlotExclusive
  <2> SUFFICES ASSUME IInv, pc # "end", NEW r \in out, NEW q \in out,
                      Slot(r.batch) = Slot(q.batch)
               PROVE  r.batch = q.batch /\ (r = q \/ {r.kind, q.kind} = {"writeA", "writeB"})
    BY DEF SlotExclusive
  <2>1. r \in Request /\ q \in Request /\ Owned(r) /\ Owned(q)
    BY InFlight
  <2>2. /\ r.batch \in Batches /\ r.kind \in {"writeA", "writeB", "call", "read"}
        /\ q.batch \in Batches /\ q.kind \in {"writeA", "writeB", "call", "read"}
        /\ r = Req(r.kind, r.batch) /\ q = Req(q.kind, q.batch)
    BY <2>1, RequestParts
  <2>3. CASE r.kind = "read" \/ q.kind = "read"
    BY <2>1, <2>2, <2>3 DEF Owned, IInv, Phase, Waiting, Batches
  <2>4. CASE r.kind # "read" /\ q.kind # "read"
    BY <2>1, <2>2, <2>4 DEF Owned
  <2>5. QED
    BY <2>3, <2>4
<1>2. QED
  BY <1>1, Invariant, PTL

(* A call that returns 0 has stored every batch's product in its own C and *)
(* leaves nothing in flight, unless a failure was overlooked.              *)
THEOREM OkIsOwnResult == Spec => []OkIsOwn
<1>1. IInv => OkIsOwn
  BY DEF IInv
<1>2. QED
  BY <1>1, Invariant, PTL

(* The device buffers of a call are freed when it returns.                 *)
THEOREM BuffersFreed == Spec => []BuffersReturned
<1>1. IInv => BuffersReturned
  BY DEF IInv
<1>2. QED
  BY <1>1, Invariant, PTL
=============================================================================
