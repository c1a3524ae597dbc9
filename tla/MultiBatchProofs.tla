------------------------ MODULE MultiBatchProofs ------------------------
(***************************************************************************)
(* Theorems about MultiBatch, for any settings, any number of batches and  *)
(* whatever raises.  The caller's place in its code says which threads can *)
(* be running and which workers are open; what the threads work on follows *)
(* from the loop's batch.                                                  *)
(***************************************************************************)
EXTENDS MultiBatch, TLAPS

Before == {"baseline", "plan"}
InLoop == {"first", "loop", "join", "last"}
InEnd  == {"clear", "stop", "stopPhi", "release", "end"}

(* The caller waits at "join" for both threads and at "last" for the       *)
(* multiplication alone, and goes nowhere else while a thread is busy.     *)
ThreadsInv ==
  /\ gemm.state # "idle" => pc \in {"join", "last"}
  /\ prep.state # "idle" => pc \in {"first", "join"}
  /\ pc \in {"join", "last"} => gemm.state # "idle"
  /\ pc = "join" => prep.state # "idle"

(* Which worker is open where; the pool is only shared while it is open.   *)
ResourceInv ==
  /\ pc \in Before \cup {"reserve", "end"} => ~capHeld
  /\ set.pool /\ pc \in {"phi"} \cup InLoop => pool = "open"
  /\ set.phi /\ pc \in InLoop => phi = "open"
  /\ phi = "open" => set.app = "hetero" /\ pc \in InLoop \cup {"stop", "stopPhi"}
  /\ reuse => set.app = "spmv" /\ pool = "open" /\ pc \in InLoop \cup {"clear"}
  /\ pc \in Before \cup {"reserve", "start"} => pool = "none"
  /\ pc \in Before \cup {"reserve", "start", "phi"} => products = <<>>
  /\ pc = "phi" => set.phi
  /\ pc = "stopPhi" => pool # "open" /\ set.app = "hetero"
  /\ pc \in {"release", "end"} /\ pool = "open" =>
       set.app = "spmv" /\ failed /\ products = <<>>

(* The loop takes away what it multiplies, except in the overlapped hetero *)
(* pipeline, which keeps the first batch and is one behind from there on.  *)
Plain == ~(set.app = "hetero" /\ set.overlap)

LoopInv ==
  /\ pc \in Before \cup {"reserve", "start", "phi"} => i = 1
  /\ pc \in {"first", "join", "last"} => i <= n
  /\ pc = "join" => i < n
  /\ pc = "first" => ~set.overlap \/ i = 1
  /\ pc = "last" => ~set.overlap \/ i = n
  /\ pc = "join" => set.overlap

(* What waits to be multiplied, and what is being prepared.                *)
PreppedInv ==
  /\ pc = "loop" /\ i <= n =>
       prepped = IF Plain \/ i = 1 THEN <<Own(i)>> ELSE <<Own(i - 1), Own(i)>>
  /\ pc = "join" => prepped = IF Plain THEN <<>> ELSE <<Own(i)>>
  /\ prep.state \in {"running", "ended"} => prep.of = IF pc = "first" THEN i ELSE i + 1

(* What is being multiplied, and what has been.                            *)
ProductInv ==
  /\ gemm.state \in {"running", "ended"} => \E b \in 1..n : gemm.of = Own(b)
  /\ \A k \in 1..Len(products) : \E b \in 1..n : products[k] = Own(b)
  /\ Plain =>
       /\ gemm.state \in {"running", "ended"} => gemm.of = Own(i)
       /\ \A k \in 1..Len(products) : products[k] = Own(k)
       /\ pc \in InLoop => Len(products) = IF gemm.state = "ended" THEN i ELSE i - 1
       /\ pc \in InEnd /\ ~failed => Len(products) = n

IInv == TypeOK /\ ThreadsInv /\ ResourceInv /\ LoopInv /\ PreppedInv /\ ProductInv

-----------------------------------------------------------------------------
(* The states of a thread tell its values apart.                           *)
LEMMA ThreadStates ==
  ASSUME NEW S, NEW t \in Thread(S)
  PROVE  /\ t.state \in {"idle", "raised", "running", "ended"}
         /\ t = Idle <=> t.state = "idle"
         /\ t = Raised <=> t.state = "raised"
         /\ t.state \in {"running", "ended"} => t.of \in S
         /\ t.state = "running" => t = Job(t.of)
         /\ t.state = "ended" => t = End(t.of)
  BY DEF Thread, Idle, Raised, Job, End

LEMMA ThreadValues ==
  ASSUME NEW S
  PROVE  /\ Idle \in Thread(S) /\ Raised \in Thread(S)
         /\ Idle.state = "idle" /\ Raised.state = "raised"
         /\ \A x \in S : Job(x) \in Thread(S) /\ End(x) \in Thread(S)
         /\ \A x : Job(x).state = "running" /\ Job(x).of = x
         /\ \A x : End(x).state = "ended" /\ End(x).of = x
  BY DEF Thread, Idle, Raised, Job, End

LEMMA Batches ==
  /\ MaxBatches \in Nat \ {0}
  /\ \A k \in 1..MaxBatches : Own(k) \in Operands
  /\ \A s \in Settings : /\ s.app \in {"hetero", "spmv"}
                         /\ s.overlap \in BOOLEAN /\ s.pool \in BOOLEAN
                         /\ s.phi \in BOOLEAN
                         /\ s.app = "spmv" => ~s.phi
  BY MultiBatchAssumption DEF Setting, Operands, Own

-----------------------------------------------------------------------------
LEMMA ThreadsNext == ASSUME TypeOK, ThreadsInv, [Next]_vars PROVE ThreadsInv'
<1> USE ThreadValues DEF ThreadsInv
<1>1. CASE Refused
  BY <1>1 DEF Refused
<1>2. CASE Reserve
  BY <1>2 DEF Reserve
<1>3. CASE StartPool
  BY <1>3 DEF StartPool
<1>4. CASE StartPoolFails
  BY <1>4 DEF StartPoolFails
<1>5. CASE StartPhi
  BY <1>5 DEF StartPhi
<1>6. CASE PrepareAlone
  BY <1>6 DEF PrepareAlone, Starts
<1>7. CASE PreparedAlone
  BY <1>7 DEF PreparedAlone, Finally
<1>8. CASE Submit
  BY <1>8 DEF Submit, Starts, Ahead
<1>9. CASE Join
  BY <1>9 DEF Join, Finally
<1>10. CASE GemmAlone
  BY <1>10 DEF GemmAlone, Finally
<1>11. CASE LoopEnds
  BY <1>11 DEF LoopEnds, Finally
<1>12. CASE ClearShared
  BY <1>12 DEF ClearShared
<1>13. CASE StopPool
  BY <1>13 DEF StopPool, Stopped
<1>14. CASE StopPhi
  BY <1>14 DEF StopPhi, Stopped
<1>15. CASE Release
  BY <1>15 DEF Release
<1>16. CASE GemmEnds
  BY <1>16 DEF GemmEnds
<1>17. CASE GemmRaises
  BY <1>17 DEF GemmRaises
<1>18. CASE PrepEnds
  BY <1>18 DEF PrepEnds
<1>19. CASE UNCHANGED vars
  BY <1>19 DEF vars
<1>20. CASE Baseline
  BY <1>20 DEF Baseline
<1>21. CASE ChoosePlan
  BY <1>21 DEF ChoosePlan
<1>22. QED
  BY <1>1, <1>2, <1>3, <1>4, <1>5, <1>6, <1>7, <1>8, <1>9, <1>10, <1>11,
     <1>12, <1>13, <1>14, <1>15, <1>16, <1>17, <1>18, <1>19, <1>20, <1>21
     DEF Next, Caller, GemmThread, PrepThread, Ended

LEMMA ResourceNext == ASSUME TypeOK, ThreadsInv, ResourceInv, [Next]_vars PROVE ResourceInv'
<1> USE Batches DEF TypeOK, ThreadsInv, ResourceInv, Before, InLoop
<1>1. CASE Refused
  BY <1>1 DEF Refused
<1>2. CASE Reserve
  BY <1>2 DEF Reserve
<1>3. CASE StartPool
  BY <1>3 DEF StartPool
<1>4. CASE StartPoolFails
  BY <1>4 DEF StartPoolFails
<1>5. CASE StartPhi
  BY <1>5 DEF StartPhi
<1>6. CASE PrepareAlone
  BY <1>6 DEF PrepareAlone, Starts
<1>7. CASE PreparedAlone
  BY <1>7 DEF PreparedAlone, Finally
<1>8. CASE Submit
  BY <1>8 DEF Submit, Starts, Ahead
<1>9. CASE Join
  BY <1>9 DEF Join, Finally
<1>10. CASE GemmAlone
  BY <1>10 DEF GemmAlone, Finally
<1>11. CASE LoopEnds
  BY <1>11 DEF LoopEnds, Finally
<1>12. CASE ClearShared
  BY <1>12 DEF ClearShared
<1>13. CASE StopPool
  BY <1>13 DEF StopPool, Stopped
<1>14. CASE StopPhi
  BY <1>14 DEF StopPhi, Stopped
<1>15. CASE Release
  BY <1>15 DEF Release
<1>16. CASE GemmEnds
  BY <1>16 DEF GemmEnds
<1>17. CASE GemmRaises
  BY <1>17 DEF GemmRaises
<1>18. CASE PrepEnds
  BY <1>18 DEF PrepEnds
<1>19. CASE UNCHANGED vars
  BY <1>19 DEF vars
<1>20. CASE Baseline
  BY <1>20 DEF Baseline
<1>21. CASE ChoosePlan
  BY <1>21 DEF ChoosePlan
<1>22. QED
  BY <1>1, <1>2, <1>3, <1>4, <1>5, <1>6, <1>7, <1>8, <1>9, <1>10, <1>11,
     <1>12, <1>13, <1>14, <1>15, <1>16, <1>17, <1>18, <1>19, <1>20, <1>21
     DEF Next, Caller, GemmThread, PrepThread, Ended

LEMMA LoopNext == ASSUME TypeOK, ThreadsInv, LoopInv, [Next]_vars PROVE LoopInv'
<1> USE Batches DEF TypeOK, ThreadsInv, LoopInv, Before
<1>1. CASE Refused
  BY <1>1 DEF Refused
<1>2. CASE Reserve
  BY <1>2 DEF Reserve
<1>3. CASE StartPool
  BY <1>3 DEF StartPool
<1>4. CASE StartPoolFails
  BY <1>4 DEF StartPoolFails
<1>5. CASE StartPhi
  BY <1>5 DEF StartPhi
<1>6. CASE PrepareAlone
  BY <1>6 DEF PrepareAlone, Starts
<1>7. CASE PreparedAlone
  BY <1>7 DEF PreparedAlone, Finally
<1>8. CASE Submit
  BY <1>8 DEF Submit, Starts, Ahead
<1>9. CASE Join
  BY <1>9 DEF Join, Finally
<1>10. CASE GemmAlone
  BY <1>10 DEF GemmAlone, Finally
<1>11. CASE LoopEnds
  BY <1>11 DEF LoopEnds, Finally
<1>12. CASE ClearShared
  BY <1>12 DEF ClearShared
<1>13. CASE StopPool
  BY <1>13 DEF StopPool, Stopped
<1>14. CASE StopPhi
  BY <1>14 DEF StopPhi, Stopped
<1>15. CASE Release
  BY <1>15 DEF Release
<1>16. CASE GemmEnds
  BY <1>16 DEF GemmEnds
<1>17. CASE GemmRaises
  BY <1>17 DEF GemmRaises
<1>18. CASE PrepEnds
  BY <1>18 DEF PrepEnds
<1>19. CASE UNCHANGED vars
  BY <1>19 DEF vars
<1>20. CASE Baseline
  BY <1>20 DEF Baseline
<1>21. CASE ChoosePlan
  BY <1>21 DEF ChoosePlan
<1>22. QED
  BY <1>1, <1>2, <1>3, <1>4, <1>5, <1>6, <1>7, <1>8, <1>9, <1>10, <1>11,
     <1>12, <1>13, <1>14, <1>15, <1>16, <1>17, <1>18, <1>19, <1>20, <1>21
     DEF Next, Caller, GemmThread, PrepThread, Ended

(* The multiplication is given a prepared batch, and spmv binds the same   *)
(* batch's right operand.                                                  *)
LEMMA TakenIs ==
  ASSUME TypeOK, ThreadsInv, LoopInv, PreppedInv, pc = "loop", i <= n
  PROVE  /\ Taken = IF Plain \/ i = 1 THEN Own(i) ELSE Own(i - 1)
         /\ Taken \in Operands /\ prepped # <<>>
         /\ i \in 1..n /\ (i # 1 => i - 1 \in 1..n)
         /\ set.app = "spmv" => Plain /\ [Taken EXCEPT !.b = i] = Own(i)
<1>1. i \in 1..n /\ n \in 1..MaxBatches /\ (i # 1 => i - 1 \in 1..n)
  BY Batches DEF TypeOK
<1>2. Own(i) \in Operands /\ (i # 1 => Own(i - 1) \in Operands)
  BY <1>1, Batches
<1>3. prepped = IF Plain \/ i = 1 THEN <<Own(i)>> ELSE <<Own(i - 1), Own(i)>>
  BY DEF PreppedInv
<1>4. Taken = IF Plain \/ i = 1 THEN Own(i) ELSE Own(i - 1)
  BY <1>2, <1>3 DEF Taken
<1>5. set.app = "spmv" => Plain /\ [Taken EXCEPT !.b = i] = Own(i)
  BY <1>4 DEF Plain, Own
<1>6. QED
  BY <1>1, <1>2, <1>3, <1>4, <1>5

LEMMA TypeInit == Init => TypeOK
<1> SUFFICES ASSUME Init PROVE TypeOK
  OBVIOUS
<1>1. reuse \in BOOLEAN /\ capHeld \in BOOLEAN /\ failed \in BOOLEAN
  BY DEF Init
<1>2. gemm \in Thread(Operands) /\ prep \in Thread(1..MaxBatches)
  BY ThreadValues DEF Init
<1>3. QED
  BY <1>1, <1>2, Batches DEF Init, TypeOK

LEMMA TypeNext ==
  ASSUME TypeOK, ThreadsInv, LoopInv, PreppedInv, [Next]_vars PROVE TypeOK'
<1> USE Batches, ThreadValues DEF TypeOK
<1>1. CASE Refused
  BY <1>1 DEF Refused
<1>2. CASE Reserve
  BY <1>2 DEF Reserve
<1>3. CASE StartPool
  BY <1>3 DEF StartPool
<1>4. CASE StartPoolFails
  BY <1>4 DEF StartPoolFails
<1>5. CASE StartPhi
  BY <1>5 DEF StartPhi
<1>6. CASE PrepareAlone
  <2>1. i \in 1..MaxBatches
    BY <1>6 DEF PrepareAlone, LoopInv
  <2>2. Job(i) \in Thread(1..MaxBatches)
    BY <2>1
  <2>3. QED
    BY <1>6, <2>2 DEF PrepareAlone, Starts
<1>7. CASE PreparedAlone
  <2>1. prep # Raised => Own(prep.of) \in Operands
    BY <1>7, ThreadStates DEF PreparedAlone
  <2>2. Idle \in Thread(1..MaxBatches)
    OBVIOUS
  <2>3. CASE prep = Raised
    BY <1>7, <2>2, <2>3 DEF PreparedAlone, Finally
  <2>4. CASE prep # Raised
    <3>1. prepped' = <<Own(prep.of)>>
      BY <1>7, <2>4 DEF PreparedAlone
    <3>2. prepped' \in Seq(Operands)
      BY <2>1, <2>4, <3>1
    <3>3. QED
      BY <1>7, <2>2, <2>4, <3>2 DEF PreparedAlone
  <2>5. QED
    BY <2>3, <2>4
<1>8. CASE Submit
  <2>1. /\ Taken \in Operands /\ i \in 1..n /\ prepped # <<>>
        /\ set.app = "spmv" => [Taken EXCEPT !.b = i] \in Operands
    BY <1>8, TakenIs DEF Submit
  <2>2. gemm' \in Thread(Operands)
    BY <1>8, <2>1 DEF Submit
  <2>3. prepped' \in Seq(Operands)
    BY <1>8, <2>1 DEF Submit
  <2>4. prep' \in Thread(1..MaxBatches)
    <3>1. set.overlap /\ i < n => i + 1 \in 1..MaxBatches
      BY <2>1
    <3>2. set.overlap /\ i < n => Job(i + 1) \in Thread(1..MaxBatches)
      BY <3>1
    <3>3. QED
      BY <1>8, <3>2 DEF Submit, Starts, Ahead
  <2>5. pc' \in {"join", "last"}
    BY <1>8 DEF Submit
  <2>6. QED
    BY <1>8, <2>2, <2>3, <2>4, <2>5 DEF Submit
<1>9. CASE Join
  <2>1. Idle \in Thread(Operands) /\ Idle \in Thread(1..MaxBatches)
    OBVIOUS
  <2>2. CASE Raised \in {gemm, prep}
    BY <1>9, <2>1, <2>2 DEF Join, Finally
  <2>3. CASE Raised \notin {gemm, prep}
    <3>1. Own(prep.of) \in Operands
      BY <1>9, <2>3, ThreadStates DEF Join
    <3>2. prepped' \in Seq(Operands)
      BY <1>9, <2>3, <3>1 DEF Join
    <3>3. i < n
      BY <1>9 DEF Join, LoopInv
    <3>4. i' \in 1..(n + 1)
      BY <1>9, <2>3, <3>3 DEF Join
    <3>5. QED
      BY <1>9, <2>1, <2>3, <3>2, <3>4 DEF Join
  <2>4. QED
    BY <2>2, <2>3
<1>10. CASE GemmAlone
  <2>1. Idle \in Thread(Operands) /\ i <= n
    BY <1>10 DEF GemmAlone, LoopInv
  <2>2. i' \in 1..(n + 1)
    BY <1>10, <2>1 DEF GemmAlone
  <2>3. failed' \in BOOLEAN
    BY <1>10 DEF GemmAlone
  <2>4. QED
    BY <1>10, <2>1, <2>2, <2>3 DEF GemmAlone, Finally
<1>11. CASE LoopEnds
  BY <1>11 DEF LoopEnds, Finally
<1>12. CASE ClearShared
  BY <1>12 DEF ClearShared
<1>13. CASE StopPool
  BY <1>13 DEF StopPool, Stopped
<1>14. CASE StopPhi
  BY <1>14 DEF StopPhi, Stopped
<1>15. CASE Release
  BY <1>15 DEF Release
<1>16. CASE GemmEnds
  <2>1. gemm.of \in Operands
    BY <1>16, ThreadStates DEF GemmEnds
  <2>2. End(gemm.of) \in Thread(Operands) /\ Append(products, gemm.of) \in Seq(Operands)
    BY <2>1
  <2>3. QED
    BY <1>16, <2>2 DEF GemmEnds
<1>17. CASE GemmRaises
  BY <1>17 DEF GemmRaises
<1>18. CASE PrepEnds
  <2>1. prep.of \in 1..MaxBatches
    BY <1>18, ThreadStates DEF PrepEnds
  <2>2. End(prep.of) \in Thread(1..MaxBatches) /\ Raised \in Thread(1..MaxBatches)
    BY <2>1
  <2>3. QED
    BY <1>18, <2>2 DEF PrepEnds
<1>19. CASE UNCHANGED vars
  BY <1>19 DEF vars
<1>20. CASE Baseline
  <2>1. failed' \in BOOLEAN
    BY <1>20 DEF Baseline
  <2>2. products' \in Seq(Operands)
    BY <1>20 DEF Baseline
  <2>3. QED
    BY <1>20, <2>1, <2>2 DEF Baseline
<1>21. CASE ChoosePlan
  BY <1>21 DEF ChoosePlan
<1>22. QED
  BY <1>1, <1>2, <1>3, <1>4, <1>5, <1>6, <1>7, <1>8, <1>9, <1>10, <1>11,
     <1>12, <1>13, <1>14, <1>15, <1>16, <1>17, <1>18, <1>19, <1>20, <1>21
     DEF Next, Caller, GemmThread, PrepThread, Ended

LEMMA PreppedNext ==
  ASSUME TypeOK, ThreadsInv, LoopInv, PreppedInv, [Next]_vars PROVE PreppedInv'
<1> USE Batches, ThreadValues DEF TypeOK, ThreadsInv, LoopInv, PreppedInv, Plain
<1>1. CASE Refused
  BY <1>1 DEF Refused
<1>2. CASE Reserve
  BY <1>2 DEF Reserve
<1>3. CASE StartPool
  BY <1>3 DEF StartPool
<1>4. CASE StartPoolFails
  BY <1>4 DEF StartPoolFails
<1>5. CASE StartPhi
  BY <1>5 DEF StartPhi
<1>6. CASE PrepareAlone
  BY <1>6 DEF PrepareAlone, Starts
<1>7. CASE PreparedAlone
  <2>1. CASE prep = Raised
    BY <1>7, <2>1 DEF PreparedAlone, Finally
  <2>2. CASE prep # Raised
    <3>1. prep.state = "ended"
      BY <1>7, <2>2, ThreadStates DEF PreparedAlone
    <3>2. prepped' = <<Own(i)>> /\ (Plain \/ i = 1)
      BY <1>7, <2>2, <3>1 DEF PreparedAlone
    <3>3. prep' = Idle /\ pc' = "loop" /\ UNCHANGED <<set, n, i>>
      BY <1>7, <2>2 DEF PreparedAlone
    <3>4. QED
      BY <3>2, <3>3
  <2>3. QED
    BY <2>1, <2>2
<1>8. CASE Submit
  <2>1. i \in 1..n /\ prepped = IF Plain \/ i = 1 THEN <<Own(i)>> ELSE <<Own(i - 1), Own(i)>>
    BY <1>8 DEF Submit
  <2>2. prepped' = IF Plain THEN <<>> ELSE <<Own(i)>>
    <3>1. CASE Plain
      BY <1>8, <2>1, <3>1 DEF Submit, TakesAway
    <3>2. CASE ~Plain /\ i = 1
      BY <1>8, <2>1, <3>2 DEF Submit, TakesAway
    <3>3. CASE ~Plain /\ i # 1
      BY <1>8, <2>1, <3>3 DEF Submit, TakesAway
    <3>4. QED
      BY <3>1, <3>2, <3>3
  <2>3. CASE set.overlap /\ i < n
    <3>1. prep' = Job(i + 1) /\ pc' = "join" /\ UNCHANGED <<set, n, i>>
      BY <1>8, <2>3 DEF Submit, Starts, Ahead
    <3>2. prep'.of = i + 1
      BY <3>1
    <3>3. QED
      BY <2>2, <3>1, <3>2
  <2>4. CASE ~(set.overlap /\ i < n)
    BY <1>8, <2>4 DEF Submit
  <2>5. QED
    BY <2>3, <2>4
<1>9. CASE Join
  <2>1. CASE Raised \in {gemm, prep}
    BY <1>9, <2>1 DEF Join, Finally
  <2>2. CASE Raised \notin {gemm, prep}
    <3>1. prep.state = "ended"
      BY <1>9, <2>2, ThreadStates DEF Join
    <3>2. prepped' = Append(prepped, Own(i + 1)) /\ i' = i + 1 /\ pc' = "loop"
      BY <1>9, <2>2, <3>1 DEF Join
    <3>3. prepped' = IF Plain THEN <<Own(i + 1)>> ELSE <<Own(i), Own(i + 1)>>
      <4>1. prepped = IF Plain THEN <<>> ELSE <<Own(i)>>
        BY <1>9 DEF Join
      <4>2. CASE Plain
        BY <3>2, <4>1, <4>2
      <4>3. CASE ~Plain
        BY <3>2, <4>1, <4>3
      <4>4. QED
        BY <4>2, <4>3
    <3>4. prep' = Idle /\ UNCHANGED <<set, n>> /\ i + 1 # 1 /\ i' - 1 = i
      BY <1>9, <3>2 DEF Join
    <3>5. QED
      BY <3>2, <3>3, <3>4
  <2>3. QED
    BY <2>1, <2>2
<1>10. CASE GemmAlone
  BY <1>10 DEF GemmAlone, Finally
<1>11. CASE LoopEnds
  BY <1>11 DEF LoopEnds, Finally
<1>12. CASE ClearShared
  BY <1>12 DEF ClearShared
<1>13. CASE StopPool
  BY <1>13 DEF StopPool, Stopped
<1>14. CASE StopPhi
  BY <1>14 DEF StopPhi, Stopped
<1>15. CASE Release
  BY <1>15 DEF Release
<1>16. CASE GemmEnds
  BY <1>16 DEF GemmEnds
<1>17. CASE GemmRaises
  BY <1>17 DEF GemmRaises
<1>18. CASE PrepEnds
  BY <1>18 DEF PrepEnds
<1>19. CASE UNCHANGED vars
  BY <1>19 DEF vars
<1>20. CASE Baseline
  BY <1>20 DEF Baseline
<1>21. CASE ChoosePlan
  BY <1>21 DEF ChoosePlan
<1>22. QED
  BY <1>1, <1>2, <1>3, <1>4, <1>5, <1>6, <1>7, <1>8, <1>9, <1>10, <1>11,
     <1>12, <1>13, <1>14, <1>15, <1>16, <1>17, <1>18, <1>19, <1>20, <1>21
     DEF Next, Caller, GemmThread, PrepThread, Ended

(* Neither what is multiplied nor what was changes, and the caller does    *)
(* not leave or enter the loop.                                            *)
LEMMA ProductFrame ==
  ASSUME ProductInv, UNCHANGED <<set, n, i, gemm, products>>,
         pc' \in InLoop => pc \in InLoop,
         pc' \in InEnd /\ ~failed' => pc \in InEnd /\ ~failed
  PROVE  ProductInv'
  BY DEF ProductInv, Plain

LEMMA ProductNext ==
  ASSUME TypeOK, ThreadsInv, LoopInv, ResourceInv, PreppedInv, ProductInv, [Next]_vars
  PROVE  ProductInv'
<1> USE DEF Before, InLoop, InEnd
<1> DEFINE Enters == pc \in Before \cup {"reserve", "start", "phi"}
<1>0. Enters => products = <<>> /\ i = 1 /\ gemm.state = "idle"
  BY ThreadStates DEF ResourceInv, LoopInv, ThreadsInv, TypeOK
<1>01. ASSUME Enters, UNCHANGED <<set, n, i, gemm, products>>, pc' \notin InEnd
       PROVE  ProductInv'
  BY <1>0, <1>01 DEF ProductInv, Plain
<1>1. CASE Refused
  BY <1>1, ProductFrame DEF Refused
<1>2. CASE Reserve
  BY <1>2, <1>01 DEF Reserve
<1>3. CASE StartPool
  BY <1>3, <1>01 DEF StartPool
<1>4. CASE StartPoolFails
  BY <1>4, ProductFrame DEF StartPoolFails
<1>5. CASE StartPhi
  <2>1. CASE pc' = "first"
    BY <1>5, <1>01, <2>1 DEF StartPhi
  <2>2. CASE pc' = "stop" /\ failed'
    BY <1>5, <2>2, ProductFrame DEF StartPhi
  <2>3. QED
    BY <1>5, <2>1, <2>2 DEF StartPhi
<1>6. CASE PrepareAlone
  BY <1>6, ProductFrame DEF PrepareAlone, Starts
<1>7. CASE PreparedAlone
  BY <1>7, ProductFrame DEF PreparedAlone, Finally
<1>8. CASE Submit
  <2>1. /\ i \in 1..n /\ i - 1 \in Int
        /\ Taken = IF Plain \/ i = 1 THEN Own(i) ELSE Own(i - 1)
        /\ i # 1 => i - 1 \in 1..n
        /\ set.app = "spmv" => Plain /\ [Taken EXCEPT !.b = i] = Own(i)
    BY <1>8, TakenIs DEF Submit
  <2>2. PICK b \in 1..n : gemm' = Job(Own(b)) /\ (Plain => b = i)
    BY <1>8, <2>1 DEF Submit
  <2>3. gemm'.state = "running" /\ gemm'.of = Own(b)
    BY <2>2, ThreadValues
  <2>4. gemm.state = "idle"
    BY <1>8, ThreadStates DEF Submit, ThreadsInv, TypeOK
  <2>5. UNCHANGED <<set, n, i, products>> /\ pc' \in InLoop
    BY <1>8 DEF Submit
  <2>6. QED
    BY <1>8, <2>2, <2>3, <2>4, <2>5 DEF Submit, ProductInv, Plain
<1>9. CASE Join
  <2>1. gemm' = Idle /\ Idle.state = "idle" /\ UNCHANGED <<set, n, products>>
    BY <1>9, ThreadValues DEF Join
  <2>2. CASE Raised \in {gemm, prep}
    BY <1>9, <2>1, <2>2 DEF Join, Finally, ProductInv, Plain
  <2>3. CASE Raised \notin {gemm, prep}
    <3>1. gemm.state = "ended"
      BY <1>9, <2>3, ThreadStates DEF Join, TypeOK
    <3>2. i' = i + 1 /\ pc' = "loop" /\ i \in Int
      BY <1>9, <2>3 DEF Join, TypeOK
    <3>3. QED
      BY <1>9, <2>1, <3>1, <3>2 DEF Join, ProductInv, Plain
  <2>4. QED
    BY <2>2, <2>3
<1>10. CASE GemmAlone
  <2>1. gemm' = Idle /\ Idle.state = "idle" /\ UNCHANGED <<set, n, products>>
    BY <1>10, ThreadValues DEF GemmAlone
  <2>2. CASE gemm = Raised
    BY <1>10, <2>1, <2>2 DEF GemmAlone, Finally, ProductInv, Plain
  <2>3. CASE gemm # Raised
    <3>1. gemm.state = "ended"
      BY <1>10, <2>3, ThreadStates DEF GemmAlone, TypeOK
    <3>2. i' = i + 1 /\ pc' \in {"loop", "first"} /\ i \in Int
      BY <1>10, <2>3 DEF GemmAlone, TypeOK
    <3>3. QED
      BY <1>10, <2>1, <3>1, <3>2 DEF GemmAlone, ProductInv, Plain
  <2>4. QED
    BY <2>2, <2>3
<1>11. CASE LoopEnds
  <2>1. gemm.state = "idle" /\ i = n + 1
    BY <1>11, ThreadStates DEF LoopEnds, ThreadsInv, TypeOK
  <2>2. Plain => Len(products) = n
    BY <1>11, <2>1 DEF LoopEnds, ProductInv, TypeOK
  <2>3. UNCHANGED <<set, n, i, gemm, products>> /\ pc' \in InEnd /\ pc' \notin InLoop
    BY <1>11 DEF LoopEnds, Finally
  <2>4. QED
    BY <2>1, <2>2, <2>3 DEF ProductInv, Plain
<1>12. CASE ClearShared
  BY <1>12, ProductFrame DEF ClearShared
<1>13. CASE StopPool
  BY <1>13, ProductFrame DEF StopPool, Stopped
<1>14. CASE StopPhi
  BY <1>14, ProductFrame DEF StopPhi, Stopped
<1>15. CASE Release
  BY <1>15, ProductFrame DEF Release
<1>16. CASE GemmEnds
  <2>1. /\ gemm'.state = "ended" /\ gemm'.of = gemm.of
        /\ products' = Append(products, gemm.of)
        /\ UNCHANGED <<set, n, i, pc, failed>>
    BY <1>16, ThreadValues DEF GemmEnds
  <2>2. PICK b \in 1..n : gemm.of = Own(b) /\ (Plain => b = i)
    BY <1>16 DEF GemmEnds, ProductInv, ThreadsInv, LoopInv, TypeOK
  <2>3. /\ Len(products') = Len(products) + 1
        /\ products'[Len(products) + 1] = Own(b)
        /\ \A k \in 1..Len(products) : products'[k] = products[k]
        /\ Len(products) \in Nat
    BY <2>1, <2>2 DEF TypeOK
  <2>4. \A k \in 1..Len(products') : \E c \in 1..n : products'[k] = Own(c)
    BY <2>2, <2>3 DEF ProductInv
  <2>5. pc \in InLoop /\ gemm.state = "running"
    BY <1>16 DEF GemmEnds, ThreadsInv
  <2>6. Plain => /\ Len(products') = i /\ i \in Nat
                 /\ \A k \in 1..Len(products') : products'[k] = Own(k)
    BY <2>2, <2>3, <2>5 DEF ProductInv, TypeOK
  <2>7. QED
    BY <2>1, <2>2, <2>4, <2>5, <2>6 DEF ProductInv, Plain
<1>17. CASE GemmRaises
  <2>1. gemm'.state = "raised" /\ gemm.state = "running" /\ pc \in InLoop
    BY <1>17, ThreadValues DEF GemmRaises, ThreadsInv
  <2>2. UNCHANGED <<set, n, i, pc, failed, products>>
    BY <1>17 DEF GemmRaises
  <2>3. QED
    BY <2>1, <2>2 DEF ProductInv, Plain
<1>18. CASE PrepEnds
  BY <1>18, ProductFrame DEF PrepEnds
<1>19. CASE UNCHANGED vars
  BY <1>19, ProductFrame DEF vars
<1>20. CASE Baseline
  <2>1. CASE pc' = "plan"
    BY <1>20, <1>01, <2>1 DEF Baseline
  <2>2. CASE pc' = "end" /\ products' = [k \in 1..n |-> Own(k)]
    <3>1. UNCHANGED <<set, n, i, gemm>>
      BY <1>20, <2>2 DEF Baseline
    <3>2. n \in Nat /\ DOMAIN products' = 1..n /\ \A k \in 1..n : products'[k] = Own(k)
      BY <2>2 DEF TypeOK
    <3>3. products' \in Seq(Operands)
      BY <2>2, Batches DEF TypeOK
    <3>4. Len(products') = n
      BY <3>2, <3>3
    <3>5. gemm.state = "idle"
      BY <1>20, <1>0 DEF Baseline
    <3>6. QED
      BY <2>2, <3>1, <3>2, <3>4, <3>5 DEF ProductInv, Plain
  <2>3. CASE pc' = "end" /\ failed' /\ UNCHANGED products
    BY <1>20, <2>3, ProductFrame DEF Baseline
  <2>4. QED
    BY <1>20, <2>1, <2>2, <2>3 DEF Baseline
<1>21. CASE ChoosePlan
  <2>1. CASE pc' = "reserve"
    BY <1>21, <1>01, <2>1 DEF ChoosePlan
  <2>2. CASE pc' = "end" /\ failed'
    BY <1>21, <2>2, ProductFrame DEF ChoosePlan
  <2>3. QED
    BY <1>21, <2>1, <2>2 DEF ChoosePlan
<1>22. QED
  BY <1>1, <1>2, <1>3, <1>4, <1>5, <1>6, <1>7, <1>8, <1>9, <1>10, <1>11,
     <1>12, <1>13, <1>14, <1>15, <1>16, <1>17, <1>18, <1>19, <1>20, <1>21
     DEF Next, Caller, GemmThread, PrepThread, Ended

LEMMA IInvInit == Init => IInv
<1> SUFFICES ASSUME Init PROVE IInv
  OBVIOUS
<1>1. TypeOK
  BY TypeInit
<1>2. gemm.state = "idle" /\ prep.state = "idle"
  BY ThreadValues DEF Init
<1>3. QED
  BY <1>1, <1>2
     DEF Init, IInv, ThreadsInv, ResourceInv, LoopInv, PreppedInv, ProductInv,
         Before, InLoop, InEnd

LEMMA IInvNext == IInv /\ [Next]_vars => IInv'
  BY TypeNext, ThreadsNext, ResourceNext, LoopNext, PreppedNext, ProductNext DEF IInv

(* Types: the call, its two threads and its workers keep to their states.  *)
THEOREM TypeCorrect == Spec => []TypeOK
<1>1. IInv => TypeOK
  BY DEF IInv
<1>2. QED
  BY IInvInit, IInvNext, <1>1, PTL DEF Spec

(* No product mixes batches, although the next batch is prepared while one *)
(* is multiplied; and a call that returns has multiplied the batches in    *)
(* order, unless it is the overlapped hetero pipeline.                     *)
THEOREM Ordered == Spec => []BatchesInOrder
<1>1. IInv => BatchesInOrder
  <2> SUFFICES ASSUME IInv PROVE BatchesInOrder
    OBVIOUS
  <2>1. \A k \in 1..Len(products) : \E b \in 1..n : products[k] = Own(b)
    BY DEF IInv, ProductInv
  <2>2. ASSUME Returned, Plain PROVE products = [k \in 1..n |-> Own(k)]
    <3>1. Len(products) = n /\ \A k \in 1..n : products[k] = Own(k)
      BY <2>2 DEF IInv, ProductInv, Returned, InEnd
    <3>2. products \in Seq(Operands) /\ n \in Nat
      BY DEF IInv, TypeOK
    <3>3. QED
      BY <3>1, <3>2
  <2>3. QED
    BY <2>1, <2>2 DEF BatchesInOrder, Plain
<1>2. QED
  BY IInvInit, IInvNext, <1>1, PTL DEF Spec

(* No worker is stopped under a thread that uses it, whichever thread has  *)
(* raised, and the pool is open while execute_plan may take it.            *)
THEOREM OpenWhileUsed == Spec => []UsedIsOpen
<1>1. IInv => UsedIsOpen
  BY DEF IInv, ThreadsInv, ResourceInv, InLoop, UsedIsOpen
<1>2. QED
  BY IInvInit, IInvNext, <1>1, PTL DEF Spec

(* However a call ends, it leaves no thread, no reservation, no shared     *)
(* pool and no worker, save the workers of an spmv pool that did not start *)
(* as a whole.                                                             *)
THEOREM NothingLeft == Spec => []NothingIsLeft
<1>1. IInv => NothingIsLeft
  BY DEF IInv, ThreadsInv, ResourceInv, Before, InLoop, NothingIsLeft
<1>2. QED
  BY IInvInit, IInvNext, <1>1, PTL DEF Spec
=============================================================================
