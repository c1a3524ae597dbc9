------------------------- MODULE TaskGraphProofs -------------------------
(***************************************************************************)
(* Theorems about TaskGraph, for any nodes, any graphs (cyclic ones and    *)
(* ones with missing names included), any devices and any power cap.       *)
(***************************************************************************)
EXTENDS TaskGraph, FiniteSetTheorems, TLAPS

LEMMA WattsPositive == \A t \in Tasks : Watts[t] \in Nat \ {0} /\ Device[t] \in Devices
  BY TaskGraphAssumption DEF Devices

(* TypeOK, for any graph.                                                  *)
THEOREM TypeCorrect == Spec => []TypeOK
<1>1. Init => TypeOK
  <2> SUFFICES ASSUME Init PROVE TypeOK
    OBVIOUS
  <2>1. DOMAIN reserved = Devices /\ \A d \in Devices : reserved[d] = 0
    BY DEF Init
  <2>2. pc \in {"uni", "wave", "gather", "end"} /\ backend \in {"uni", "local"}
    BY DEF Init
  <2>3. QED
    BY <2>1, <2>2 DEF Init, TypeOK
<1>2. TypeOK /\ [Next]_vars => TypeOK'
  <2> SUFFICES ASSUME TypeOK, [Next]_vars PROVE TypeOK'
    OBVIOUS
  <2> USE DEF TypeOK, Outcomes, Returned
  <2>1. CASE StartWave
    BY <2>1 DEF StartWave
  <2>2. CASE Deadlocked
    BY <2>2 DEF Deadlocked
  <2>3. CASE Finish
    BY <2>3 DEF Finish, Verdict
  <2>4. CASE Gathered
    <3>1. out' \in [Tasks -> {"none"} \cup Outcomes] /\ tpc' = [t \in Tasks |-> "idle"]
      BY <2>4 DEF Gathered
    <3>2. done' \in [Tasks -> {"none", "skip"} \cup Outcomes]
      BY <2>4 DEF Gathered
    <3>3. QED
      BY <2>4, <3>1, <3>2 DEF Gathered
  <2>5. ASSUME NEW t \in Tasks, Launch(t) \/ Wake(t)
        PROVE  TypeOK'
    <3>1. /\ DOMAIN reserved' = Devices
          /\ \A d \in Devices : reserved'[d] = IF d = Device[t] THEN Watts[t] ELSE reserved[d]
      BY <2>5 DEF Launch, Wake, Reserve
    <3>2. \A d \in Devices :
             reserved'[d] \in {0} \cup {Watts[u] : u \in {v \in Tasks : Device[v] = d}}
      BY <3>1
    <3>3. runs' \in [Tasks -> Nat] /\ tpc' \in [Tasks -> {"idle", "start", "sleep", "run", "ended"}]
      BY <2>5 DEF Launch, Wake
    <3>4. UNCHANGED <<deps, pc, backend, uni, done, out, waited, status>>
      BY <2>5 DEF Launch, Wake
    <3>5. QED
      BY <3>1, <3>2, <3>3, <3>4
  <2>6. ASSUME NEW t \in Tasks, OverCap(t)
        PROVE  TypeOK'
    BY <2>6 DEF OverCap
  <2>7. ASSUME NEW t \in Tasks, RunReturns(t)
        PROVE  TypeOK'
    <3>1. /\ DOMAIN reserved' = Devices
          /\ \A d \in Devices : reserved'[d] = IF d = Device[t] THEN 0 ELSE reserved[d]
      BY <2>7 DEF RunReturns, Release
    <3>2. \A d \in Devices :
             reserved'[d] \in {0} \cup {Watts[u] : u \in {v \in Tasks : Device[v] = d}}
      BY <3>1
    <3>3. out' \in [Tasks -> {"none"} \cup Outcomes]
      BY <2>7 DEF RunReturns
    <3>4. /\ tpc' \in [Tasks -> {"idle", "start", "sleep", "run", "ended"}]
          /\ UNCHANGED <<deps, pc, backend, uni, done, waited, runs, status>>
      BY <2>7 DEF RunReturns
    <3>5. QED
      BY <3>1, <3>2, <3>3, <3>4
  <2>8. CASE Uni
    <3>1. CASE \E t \in Tasks : UniRuns(t)
      BY <3>1 DEF UniRuns
    <3>2. CASE UniReturns
      BY <3>2 DEF UniReturns
    <3>3. CASE UniRaises
      BY <3>3 DEF UniRaises
    <3>4. QED
      BY <2>8, <3>1, <3>2, <3>3 DEF Uni
  <2>9. CASE UNCHANGED vars
    BY <2>9 DEF vars
  <2>10. QED
    BY <2>1, <2>2, <2>3, <2>4, <2>5, <2>6, <2>7, <2>8, <2>9 DEF Next, Executor, Ended
<1>3. QED
  BY <1>1, <1>2, PTL DEF Spec

-----------------------------------------------------------------------------
(* Where the local executor is.  Between waves no task is left; a task of  *)
(* a wave is one whose node is pending, and one that ended has a result.   *)
TasksInWave ==
  /\ pc # "gather" => Wave = {}
  /\ \A t \in Wave : done[t] = "none"
  /\ \A t \in Tasks : tpc[t] = "ended" => out[t] # "none"

(* A reservation is that of a task that runs: proved with the typing.      *)
LEMMA WaveInvariant == Spec => [](TypeOK /\ TasksInWave /\ NothingLeaks)
<1> DEFINE I == TasksInWave /\ NothingLeaks
<1>1. Init => I
  BY DEF Init, TasksInWave, Wave, NothingLeaks
<1>2. TypeOK /\ I /\ [Next]_vars => I'
  <2> SUFFICES ASSUME TypeOK, I, [Next]_vars PROVE I'
    OBVIOUS
  <2> USE DEF TasksInWave, Wave
  <2>0. \A d \in Devices : reserved[d] > 0 => \E t \in Running : Device[t] = d
    BY DEF NothingLeaks
  <2>1. CASE StartWave
    <3>1. TasksInWave'
      BY <2>1 DEF StartWave, Ready, Pending, TypeOK
    <3>2. Running = {}
      BY <2>1 DEF StartWave, Running
    <3>3. NothingLeaks'
      BY <2>0, <2>1, <3>2 DEF StartWave, NothingLeaks, Devices
    <3>4. QED
      BY <3>1, <3>3
  <2>2. CASE Deadlocked
    BY <2>2 DEF Deadlocked, NothingLeaks, Running, Devices
  <2>3. CASE Finish
    BY <2>3 DEF Finish, NothingLeaks, Running, Devices
  <2>4. CASE Gathered
    <3>1. TasksInWave'
      BY <2>4 DEF Gathered
    <3>2. Running = {}
      BY <2>4 DEF Gathered, Running
    <3>3. NothingLeaks'
      BY <2>0, <2>4, <3>2 DEF Gathered, NothingLeaks, Devices
    <3>4. QED
      BY <3>1, <3>3
  <2>5. ASSUME NEW t \in Tasks, Launch(t) \/ Wake(t)
        PROVE  I'
    <3>1. /\ tpc' = [tpc EXCEPT ![t] = "run"]
          /\ tpc[t] \in {"start", "sleep"}
          /\ UNCHANGED <<pc, done, out>>
          /\ reserved' = [reserved EXCEPT ![Device[t]] = Watts[t]]
      BY <2>5 DEF Launch, Wake, Reserve
    <3>2. TasksInWave'
      BY <3>1 DEF TypeOK
    <3>3. ASSUME NEW d \in Devices, reserved'[d] > 0
          PROVE  \E u \in Running' : Device[u] = d
      <4>1. CASE d = Device[t]
        BY <3>1, <4>1 DEF Running, TypeOK
      <4>2. CASE d # Device[t]
        BY <2>0, <3>1, <3>3, <4>2 DEF Running, TypeOK
      <4>3. QED
        BY <4>1, <4>2
    <3>4. QED
      BY <3>2, <3>3 DEF NothingLeaks, Devices
  <2>6. ASSUME NEW t \in Tasks, OverCap(t)
        PROVE  I'
    BY <2>6 DEF OverCap, NothingLeaks, Running, Devices, TypeOK
  <2>7. ASSUME NEW t \in Tasks, RunReturns(t)
        PROVE  I'
    <3>1. /\ tpc' = [tpc EXCEPT ![t] = "ended"] /\ tpc[t] = "run"
          /\ UNCHANGED <<pc, done>>
          /\ reserved' = [reserved EXCEPT ![Device[t]] = 0]
      BY <2>7 DEF RunReturns, Release
    <3>2. PICK o \in Outcomes : out' = [out EXCEPT ![t] = o]
      BY <2>7 DEF RunReturns
    <3>3. TasksInWave'
      BY <3>1, <3>2 DEF TypeOK, Outcomes, Returned
    <3>4. ASSUME NEW d \in Devices, reserved'[d] > 0
          PROVE  \E u \in Running' : Device[u] = d
      <4>1. d # Device[t] /\ reserved[d] > 0
        BY <3>1, <3>4 DEF TypeOK
      <4>2. QED
        BY <2>0, <3>1, <4>1 DEF Running, TypeOK
    <3>5. QED
      BY <3>3, <3>4 DEF NothingLeaks, Devices
  <2>8. CASE Uni
    BY <2>8 DEF Uni, UniRuns, UniReturns, UniRaises, NothingLeaks, Running, Devices
  <2>9. CASE UNCHANGED vars
    BY <2>9 DEF vars, NothingLeaks, Running, Devices
  <2>10. QED
    BY <2>1, <2>2, <2>3, <2>4, <2>5, <2>6, <2>7, <2>8, <2>9 DEF Next, Executor, Ended
<1>3. QED
  BY <1>1, <1>2, TypeCorrect, PTL DEF Spec

(* A reservation never outlives the tasks of its device: none is left when *)
(* the graph has ended, whatever its tasks returned or raised.             *)
THEOREM ReservationsReturned == Spec => []NothingLeaks
  BY WaveInvariant, PTL

-----------------------------------------------------------------------------
(* While a node is pending, every result is that of a run_fn that          *)
(* returned: this is what clearing "pending" at the first failure is for.  *)
(* So the nodes of a wave have all they depend on.                         *)
CleanWhilePending ==
  /\ Pending # {} => \A t \in Tasks : done[t] \in {"none"} \cup Returned
  /\ \A t \in Wave : \A d \in deps[t] : d \in Tasks /\ done[d] \in Returned

LEMMA CleanInvariant == Spec => [](TypeOK /\ TasksInWave /\ CleanWhilePending)
<1>1. Init => CleanWhilePending
  BY DEF Init, CleanWhilePending, Wave
<1>2. TypeOK /\ TasksInWave /\ CleanWhilePending /\ [Next]_vars => CleanWhilePending'
  <2> SUFFICES ASSUME TypeOK, TasksInWave, CleanWhilePending, [Next]_vars
               PROVE  CleanWhilePending'
    OBVIOUS
  <2> USE DEF CleanWhilePending
  <2>1. CASE StartWave
    <3>1. \A t \in Tasks : done[t] \in {"none"} \cup Returned
      BY <2>1 DEF StartWave, Ready
    <3>2. \A t \in Ready : \A d \in deps[t] : d \in Tasks /\ done[d] \in Returned
      BY <3>1 DEF Ready
    <3>3. Wave' \subseteq Ready /\ deps' = deps /\ done' = done
      BY <2>1 DEF StartWave, Wave
    <3>4. QED
      BY <3>1, <3>2, <3>3 DEF Pending
  <2>2. CASE Deadlocked
    BY <2>2 DEF Deadlocked, Pending, Wave
  <2>3. CASE Finish
    BY <2>3 DEF Finish, Pending, Wave
  <2>4. CASE Gathered
    <3>1. \A t \in Wave : out[t] \in Outcomes /\ done[t] = "none"
      BY <2>4 DEF Gathered, TasksInWave, TypeOK, Wave
    <3>2. Wave' = {}
      BY <2>4 DEF Gathered, Wave
    <3>3. CASE /\ \A t \in Wave : out[t] # "fail"
               /\ done' = [t \in Tasks |-> IF t \in Wave THEN out[t] ELSE done[t]]
      <4>1. ASSUME Pending' # {} PROVE Pending # {}
        BY <3>1, <3>3, <4>1 DEF Pending, Outcomes, Returned
      <4>2. QED
        BY <3>1, <3>2, <3>3, <4>1 DEF Outcomes
    <3>4. ASSUME NEW f \in Wave, NEW before \in SUBSET Wave,
                 done' = [t \in Tasks |-> CASE t \in before \cup {f} -> out[t]
                                            [] t \in Pending \ (before \cup {f}) -> "skip"
                                            [] OTHER -> done[t]]
          PROVE  Pending' = {}
      BY <3>1, <3>4 DEF Pending, Outcomes, Returned
    <3>5. QED
      BY <2>4, <3>2, <3>3, <3>4 DEF Gathered
  <2>5. ASSUME NEW t \in Tasks, Launch(t) \/ Wake(t)
        PROVE  CleanWhilePending'
    <3>1. /\ tpc' = [tpc EXCEPT ![t] = "run"] /\ tpc[t] \in {"start", "sleep"}
          /\ UNCHANGED <<deps, done>>
      BY <2>5 DEF Launch, Wake
    <3>2. Wave' = Wave
      BY <3>1 DEF Wave, TypeOK
    <3>3. QED
      BY <3>1, <3>2 DEF Pending
  <2>6. ASSUME NEW t \in Tasks, OverCap(t)
        PROVE  CleanWhilePending'
    <3>1. Wave' = Wave /\ UNCHANGED <<deps, done>>
      BY <2>6 DEF OverCap, Wave, TypeOK
    <3>2. QED
      BY <3>1 DEF Pending
  <2>7. ASSUME NEW t \in Tasks, RunReturns(t)
        PROVE  CleanWhilePending'
    <3>1. Wave' = Wave /\ UNCHANGED <<deps, done>>
      BY <2>7 DEF RunReturns, Wave, TypeOK
    <3>2. QED
      BY <3>1 DEF Pending
  <2>8. CASE Uni
    BY <2>8 DEF Uni, UniRuns, UniReturns, UniRaises, Pending, Wave
  <2>9. CASE UNCHANGED vars
    BY <2>9 DEF vars, Pending, Wave
  <2>10. QED
    BY <2>1, <2>2, <2>3, <2>4, <2>5, <2>6, <2>7, <2>8, <2>9 DEF Next, Executor, Ended
<1>3. QED
  BY <1>1, <1>2, WaveInvariant, PTL DEF Spec

(* A node runs only after every node it depends on has returned, never     *)
(* after one that failed or was skipped.                                   *)
THEOREM DependenciesFirst == Spec => []DepsReturned
<1>1. CleanWhilePending => DepsReturned
  BY DEF CleanWhilePending, DepsReturned, Wave, Running
<1>2. QED
  BY CleanInvariant, <1>1, PTL

-----------------------------------------------------------------------------
(* Each run_fn is called once, by the time its node has a result; a node   *)
(* is skipped only when another has failed.                                *)
RunsCounted ==
  /\ pc \in {"uni", "wave", "gather"} => status = "none"
  /\ pc = "uni" => backend = "uni"
  /\ pc \in {"wave", "gather"} => backend = "local"
  /\ \A t \in Tasks :
       /\ done[t] = "none" /\ tpc[t] \notin {"run", "ended"} => runs[t] = 0
       /\ tpc[t] \in {"run", "ended"} \/ done[t] \in Outcomes => runs[t] = 1
  /\ (\E t \in Tasks : done[t] = "skip") => \E t \in Tasks : done[t] = "fail"

LEMMA CountInvariant == Spec => [](RunsCounted /\ PassMeansAllRan)
<1> DEFINE J == TypeOK /\ TasksInWave
<1>1. Init => RunsCounted /\ PassMeansAllRan
  BY DEF Init, RunsCounted, PassMeansAllRan, Outcomes, Returned
<1>2. J /\ (RunsCounted /\ PassMeansAllRan) /\ [Next]_vars => (RunsCounted /\ PassMeansAllRan)'
  <2> SUFFICES ASSUME J, RunsCounted, PassMeansAllRan, [Next]_vars
               PROVE  RunsCounted' /\ PassMeansAllRan'
    OBVIOUS
  <2> USE DEF RunsCounted, Outcomes, Returned
  <2>1. CASE StartWave
    BY <2>1 DEF StartWave, PassMeansAllRan, TasksInWave, Wave
  <2>2. CASE Deadlocked
    BY <2>2 DEF Deadlocked, PassMeansAllRan
  <2>3. CASE Finish
    <3>1. RunsCounted'
      BY <2>3 DEF Finish
    <3>2. ASSUME status' = "pass"
          PROVE  /\ \A t \in Tasks : runs'[t] = 1 /\ done'[t] \in Returned
                 /\ \A c \in Critical : done'[c] = "pass"
      <4>1. /\ \A t \in Tasks : done[t] # "fail"
            /\ \A c \in Critical : done[c] \in {"pass", "skip"}
            /\ UNCHANGED <<done, runs>>
        BY <2>3, <3>2 DEF Finish, Verdict
      <4>2. \A t \in Tasks : done[t] \in Returned
        BY <2>3, <4>1 DEF Finish, Pending, TypeOK
      <4>3. \A c \in Critical : done[c] = "pass"
        BY <4>1, <4>2, TaskGraphAssumption
      <4>4. QED
        BY <4>1, <4>2, <4>3
    <3>3. QED
      BY <3>1, <3>2 DEF PassMeansAllRan
  <2>4. CASE Gathered
    <3>1. \A t \in Wave : tpc[t] = "ended" /\ out[t] \in Outcomes /\ runs[t] = 1
      BY <2>4 DEF Gathered, TasksInWave, TypeOK, Wave
    <3>2. /\ UNCHANGED <<backend, runs, status>> /\ pc = "gather" /\ pc' = "wave"
          /\ tpc' = [t \in Tasks |-> "idle"]
      BY <2>4 DEF Gathered
    <3>3. /\ \A t \in Tasks : done'[t] = "none" => done[t] = "none" /\ t \notin Wave
          /\ \A t \in Tasks : done'[t] \in Outcomes => done[t] \in Outcomes \/ t \in Wave
          /\ \A t \in Tasks : done'[t] = "skip" =>
               done[t] = "skip" \/ \E f \in Tasks : done'[f] = "fail"
          /\ \A t \in Tasks : done[t] = "fail" => done'[t] = "fail"
      <4>1. CASE /\ \A t \in Wave : out[t] # "fail"
                 /\ done' = [t \in Tasks |-> IF t \in Wave THEN out[t] ELSE done[t]]
        BY <3>1, <4>1 DEF TasksInWave
      <4>2. ASSUME NEW f \in Wave, NEW before \in SUBSET Wave, out[f] = "fail",
                   done' = [t \in Tasks |-> CASE t \in before \cup {f} -> out[t]
                                              [] t \in Pending \ (before \cup {f}) -> "skip"
                                              [] OTHER -> done[t]]
            PROVE  /\ \A t \in Tasks : done'[t] = "none" => done[t] = "none" /\ t \notin Wave
                   /\ \A t \in Tasks : done'[t] \in Outcomes => done[t] \in Outcomes \/ t \in Wave
                   /\ \A t \in Tasks : done'[t] = "skip" =>
                        done[t] = "skip" \/ \E g \in Tasks : done'[g] = "fail"
                   /\ \A t \in Tasks : done[t] = "fail" => done'[t] = "fail"
        <5>1. \A t \in Tasks : t \in before \cup {f} => done'[t] = out[t] /\ done[t] = "none"
          BY <4>2 DEF TasksInWave, Wave
        <5>2. \A t \in Tasks : t \notin before \cup {f} =>
                done'[t] = IF done[t] = "none" THEN "skip" ELSE done[t]
          BY <4>2 DEF Pending
        <5>3. f \in Tasks /\ done'[f] = "fail"
          BY <4>2, <5>1 DEF Wave
        <5>4. QED
          BY <3>1, <4>2, <5>1, <5>2, <5>3
      <4>3. QED
        BY <2>4, <4>1, <4>2 DEF Gathered
    <3>4. QED
      BY <3>1, <3>2, <3>3 DEF PassMeansAllRan, Wave
  <2>5. ASSUME NEW t \in Tasks, Launch(t) \/ Wake(t)
        PROVE  RunsCounted' /\ PassMeansAllRan'
    <3>1. /\ tpc' = [tpc EXCEPT ![t] = "run"] /\ tpc[t] \in {"start", "sleep"}
          /\ runs' = [runs EXCEPT ![t] = @ + 1]
          /\ UNCHANGED <<pc, backend, done, status>>
      BY <2>5 DEF Launch, Wake
    <3>2. done[t] = "none" /\ runs[t] = 0 /\ pc = "gather"
      BY <3>1 DEF TasksInWave, Wave
    <3>3. QED
      BY <3>1, <3>2 DEF PassMeansAllRan, TypeOK
  <2>6. ASSUME NEW t \in Tasks, OverCap(t)
        PROVE  RunsCounted' /\ PassMeansAllRan'
    BY <2>6 DEF OverCap, PassMeansAllRan, TypeOK
  <2>7. ASSUME NEW t \in Tasks, RunReturns(t)
        PROVE  RunsCounted' /\ PassMeansAllRan'
    BY <2>7 DEF RunReturns, PassMeansAllRan, TypeOK
  <2>8. CASE Uni
    <3>1. CASE \E t \in Tasks : UniRuns(t)
      BY <3>1 DEF UniRuns, PassMeansAllRan
    <3>2. CASE UniReturns
      BY <2>8, <3>2 DEF UniReturns, PassMeansAllRan, TypeOK
    <3>3. CASE UniRaises
      BY <3>3 DEF UniRaises, PassMeansAllRan
    <3>4. QED
      BY <2>8, <3>1, <3>2, <3>3 DEF Uni
  <2>9. CASE UNCHANGED vars
    BY <2>9 DEF vars, PassMeansAllRan
  <2>10. QED
    BY <2>1, <2>2, <2>3, <2>4, <2>5, <2>6, <2>7, <2>8, <2>9 DEF Next, Executor, Ended
<1>3. QED
  BY <1>1, <1>2, WaveInvariant, PTL DEF Spec

(* "pass" from the local executor means that every node's run_fn was       *)
(* called once and returned, whatever the uni scheduler did before.        *)
THEOREM PassIsEarned == Spec => []PassMeansAllRan
  BY CountInvariant, PTL

-----------------------------------------------------------------------------
(* The sum of the community modules is a recursive function on the subsets *)
(* of its index set, and its value a CHOOSE: that there is such a function *)
(* (SumsExist) and that two of them agree (SumsAgree) is shown here by     *)
(* minimal counterexamples, which needs no induction over an operator.     *)
First(s) == CHOOSE x \in s : TRUE
SumStep(f, g, s) == IF s = {} THEN 0 ELSE f[First(s)] + g[s \ {First(s)}]
SumsUp(f, g, S) == g = [s \in SUBSET S |-> SumStep(f, g, s)]

(* Induction over a finite set, as a minimal counterexample.               *)
LEMMA MinimalSubset ==
  ASSUME NEW S, IsFiniteSet(S), NEW T, T \subseteq SUBSET S, T # {}
  PROVE  \E s \in T : \A u \in T : ~(u \subseteq s /\ u # s)
<1>1. IsWellFoundedOn(StrictSubsetOrdering(S), SUBSET S)
  BY FS_StrictSubsetOrderingWellFounded, FS_FiniteSubsetsOfFinite
<1>2. PICK s \in T : \A u \in T : ~(<<u, s>> \in StrictSubsetOrdering(S))
  BY <1>1, WFMin
<1>3. \A u \in T : u \subseteq s /\ u # s => <<u, s>> \in StrictSubsetOrdering(S)
  BY DEF StrictSubsetOrdering
<1>4. ASSUME NEW u \in T PROVE ~(u \subseteq s /\ u # s)
  BY <1>2, <1>3, <1>4
<1>5. QED
  <2> DEFINE Least(t) == \A u \in T : ~(u \subseteq t /\ u # t)
  <2>1. Least(s)
    BY <1>4
  <2> HIDE DEF Least
  <2>2. \E t \in T : Least(t)
    BY <2>1
  <2>3. QED
    BY <2>2 DEF Least

LEMMA FirstIn == ASSUME NEW s, s # {} PROVE First(s) \in s
  BY DEF First

(* On a common set of indices two such functions are the same.             *)
LEMMA SumsAgree ==
  ASSUME NEW f, NEW S, IsFiniteSet(S), NEW T \in SUBSET S, NEW U \in SUBSET S,
         NEW g, SumsUp(f, g, T), NEW h, SumsUp(f, h, U)
  PROVE  \A s \in SUBSET (T \cap U) : g[s] = h[s]
<1> DEFINE Bad == {s \in SUBSET (T \cap U) : g[s] # h[s]}
<1>1. SUFFICES ASSUME Bad # {} PROVE FALSE
  OBVIOUS
<1>2. PICK s \in Bad : \A u \in Bad : ~(u \subseteq s /\ u # s)
  <2>1. Bad \subseteq SUBSET S
    OBVIOUS
  <2> HIDE DEF Bad
  <2>2. QED
    BY <1>1, <2>1, MinimalSubset
<1>3. g[s] = SumStep(f, g, s) /\ h[s] = SumStep(f, h, s)
  BY DEF SumsUp
<1>4. s # {}
  BY <1>3 DEF SumStep
<1>5. g[s \ {First(s)}] = h[s \ {First(s)}]
  <2>1. s \ {First(s)} \subseteq s /\ s \ {First(s)} # s
    BY <1>4, FirstIn
  <2>2. s \ {First(s)} \in SUBSET (T \cap U) /\ s \ {First(s)} \notin Bad
    BY <1>2, <2>1
  <2>3. QED
    BY <2>2
<1>6. QED
  BY <1>3, <1>4, <1>5 DEF SumStep

(* Each finite set has one, put together from those of its proper subsets. *)
LEMMA SumsExist ==
  ASSUME NEW f, NEW S, IsFiniteSet(S)
  PROVE  \A T \in SUBSET S : \E g : SumsUp(f, g, T)
<1> DEFINE Bad == {T \in SUBSET S : ~ \E g : SumsUp(f, g, T)}
<1>1. SUFFICES ASSUME Bad # {} PROVE FALSE
  OBVIOUS
<1>2. PICK T \in Bad : \A U \in Bad : ~(U \subseteq T /\ U # T)
  <2>1. Bad \subseteq SUBSET S
    OBVIOUS
  <2> HIDE DEF Bad
  <2>2. QED
    BY <1>1, <2>1, MinimalSubset
<1> DEFINE H(s) == CHOOSE g : SumsUp(f, g, s)
           G == [s \in SUBSET T |-> SumStep(f, H(s \ {First(s)}), s)]
<1>3. \A s \in SUBSET T : s # T => SumsUp(f, H(s), s)
  BY <1>2
<1>4. \A s \in SUBSET T : s # {} => s \ {First(s)} \in SUBSET T /\ s \ {First(s)} # T
  BY FirstIn
<1>5. ASSUME NEW s \in SUBSET T, s # T PROVE G[s] = H(s)[s]
  <2>1. H(s)[s] = SumStep(f, H(s), s)
    <3>1. SumsUp(f, H(s), s)
      BY <1>3, <1>5
    <3> HIDE DEF H
    <3>2. s \in SUBSET s /\ H(s) = [t \in SUBSET s |-> SumStep(f, H(s), t)]
      BY <3>1 DEF SumsUp
    <3>3. QED
      BY <3>2
  <2>2. CASE s = {}
    BY <2>1, <2>2 DEF SumStep
  <2>3. CASE s # {}
    <3> DEFINE r == s \ {First(s)}
    <3>1. r \in SUBSET T /\ r # T /\ r \in SUBSET s
      BY <1>4, <2>3
    <3>2. SumsUp(f, H(s), s) /\ SumsUp(f, H(r), r)
      BY <1>3, <1>5, <3>1
    <3>3. H(s)[r] = H(r)[r]
      <4>1. \A u \in SUBSET (s \cap r) : H(s)[u] = H(r)[u]
        <5>1. r \in SUBSET S /\ s \in SUBSET S
          BY <3>1
        <5> HIDE DEF H, r
        <5>2. QED
          BY <5>1, <3>2, SumsAgree
      <4>2. QED
        BY <4>1
    <3>4. QED
      BY <2>1, <2>3, <3>3 DEF SumStep
  <2>4. QED
    BY <2>2, <2>3
<1>6. ASSUME NEW s \in SUBSET T PROVE G[s] = SumStep(f, G, s)
  <2>1. CASE s = {}
    BY <2>1 DEF SumStep
  <2>2. CASE s # {}
    <3>1. G[s \ {First(s)}] = H(s \ {First(s)})[s \ {First(s)}]
      BY <1>4, <1>5, <2>2
    <3>2. QED
      BY <2>2, <3>1 DEF SumStep
  <2>3. QED
    BY <2>1, <2>2
<1>7. SumsUp(f, G, T)
  <2> HIDE DEF H
  <2>1. QED
    BY <1>6 DEF SumsUp
<1>8. QED
  BY <1>2, <1>7

(* The sum is the value of one.                                            *)
LEMMA SumIs ==
  ASSUME NEW f, NEW S, IsFiniteSet(S)
  PROVE  \E g : SumsUp(f, g, S) /\ SumFunctionOnSet(f, S) = g[S]
<1>1. SumFunctionOnSet(f, S) = (CHOOSE g : g = [s \in SUBSET S |-> SumStep(f, g, s)])[S]
  BY DEF SumFunctionOnSet, FoldFunctionOnSet, MapThenFoldSet, SumStep, First
<1>2. \E g : SumsUp(f, g, S)
  BY SumsExist
<1>3. QED
  BY <1>1, <1>2 DEF SumsUp

LEMMA SumEmpty == ASSUME NEW f PROVE SumFunctionOnSet(f, {}) = 0
<1>1. PICK g : SumsUp(f, g, {}) /\ SumFunctionOnSet(f, {}) = g[{}]
  BY SumIs, FS_EmptySet
<1>2. g[{}] = SumStep(f, g, {})
  BY <1>1 DEF SumsUp
<1>3. QED
  BY <1>1, <1>2 DEF SumStep

(* A sum is its first summand and the sum of the others ...                *)
LEMMA SumFirst ==
  ASSUME NEW f, NEW S, IsFiniteSet(S), S # {}
  PROVE  SumFunctionOnSet(f, S) = f[First(S)] + SumFunctionOnSet(f, S \ {First(S)})
<1> DEFINE R == S \ {First(S)}
<1>1. IsFiniteSet(R) /\ R \in SUBSET S
  BY FS_Subset
<1>2. PICK g : SumsUp(f, g, S) /\ SumFunctionOnSet(f, S) = g[S]
  BY SumIs
<1>3. PICK h : SumsUp(f, h, R) /\ SumFunctionOnSet(f, R) = h[R]
  BY <1>1, SumIs
<1>4. g[R] = h[R]
  <2> HIDE DEF R
  <2>1. S \in SUBSET S /\ R \in SUBSET (S \cap R)
    BY <1>1
  <2>2. \A s \in SUBSET (S \cap R) : g[s] = h[s]
    BY <1>1, <1>2, <1>3, <2>1, SumsAgree
  <2>3. QED
    BY <2>1, <2>2
<1>5. g[S] = SumStep(f, g, S)
  BY <1>2 DEF SumsUp
<1>6. QED
  BY <1>2, <1>3, <1>4, <1>5 DEF SumStep

LEMMA SumNat ==
  ASSUME NEW f, NEW S, IsFiniteSet(S), \A x \in S : f[x] \in Nat
  PROVE  \A T \in SUBSET S : SumFunctionOnSet(f, T) \in Nat
<1> DEFINE Bad == {T \in SUBSET S : SumFunctionOnSet(f, T) \notin Nat}
<1>1. SUFFICES ASSUME Bad # {} PROVE FALSE
  OBVIOUS
<1>2. PICK T \in Bad : \A U \in Bad : ~(U \subseteq T /\ U # T)
  <2>1. Bad \subseteq SUBSET S
    OBVIOUS
  <2> HIDE DEF Bad
  <2>2. QED
    BY <1>1, <2>1, MinimalSubset
<1>3. T # {}
  BY SumEmpty
<1>4. T \ {First(T)} \in SUBSET S /\ T \ {First(T)} \notin Bad /\ First(T) \in S
  BY <1>2, <1>3, FirstIn
<1>5. SumFunctionOnSet(f, T) = f[First(T)] + SumFunctionOnSet(f, T \ {First(T)})
  BY <1>3, FS_Subset, SumFirst
<1>6. QED
  BY <1>4, <1>5

(* ... whichever of them comes first.                                      *)
LEMMA SumRemove ==
  ASSUME NEW f, NEW S, IsFiniteSet(S), \A x \in S : f[x] \in Nat
  PROVE  \A T \in SUBSET S : \A x \in T :
           SumFunctionOnSet(f, T) = f[x] + SumFunctionOnSet(f, T \ {x})
<1> DEFINE Good(T) == \A x \in T :
             SumFunctionOnSet(f, T) = f[x] + SumFunctionOnSet(f, T \ {x})
           Bad == {T \in SUBSET S : ~Good(T)}
<1>1. SUFFICES ASSUME Bad # {} PROVE FALSE
  OBVIOUS
<1>2. PICK T \in Bad : \A U \in Bad : ~(U \subseteq T /\ U # T)
  <2>1. Bad \subseteq SUBSET S
    OBVIOUS
  <2> HIDE DEF Bad
  <2>2. QED
    BY <1>1, <2>1, MinimalSubset
<1>3. T \in SUBSET S /\ ~Good(T) /\ \A U \in SUBSET T : U # T => Good(U)
  BY <1>2
<1>4. PICK x \in T : SumFunctionOnSet(f, T) # f[x] + SumFunctionOnSet(f, T \ {x})
  BY <1>3
<1> DEFINE y == First(T)
<1>5. y \in T /\ SumFunctionOnSet(f, T) = f[y] + SumFunctionOnSet(f, T \ {y})
  BY <1>4, <1>3, FirstIn, FS_Subset, SumFirst
<1> HIDE DEF y
<1>6. x # y
  BY <1>4, <1>5
<1>7. /\ SumFunctionOnSet(f, T \ {y}) = f[x] + SumFunctionOnSet(f, (T \ {y}) \ {x})
      /\ SumFunctionOnSet(f, T \ {x}) = f[y] + SumFunctionOnSet(f, (T \ {x}) \ {y})
  <2>1. Good(T \ {y}) /\ Good(T \ {x}) /\ x \in T \ {y} /\ y \in T \ {x}
    BY <1>3, <1>5, <1>6
  <2>2. QED
    BY <2>1
<1> DEFINE rest == SumFunctionOnSet(f, (T \ {x}) \ {y})
<1>8. SumFunctionOnSet(f, (T \ {y}) \ {x}) = rest
  <2>1. (T \ {y}) \ {x} = (T \ {x}) \ {y}
    OBVIOUS
  <2>2. QED
    BY <2>1
<1>9. f[x] \in Nat /\ f[y] \in Nat /\ rest \in Nat
  <2>1. (T \ {x}) \ {y} \in SUBSET S
    BY <1>3
  <2>2. QED
    BY <1>3, <1>5, <2>1, SumNat
<1>10. f[x] + (f[y] + rest) = f[y] + (f[x] + rest)
  <2> HIDE DEF rest
  <2>1. QED
    BY <1>9
<1>11. QED
  BY <1>4, <1>5, <1>7, <1>8, <1>10

(* A part of the summands makes no more.                                   *)
LEMMA SumPart ==
  ASSUME NEW f, NEW S, IsFiniteSet(S), \A x \in S : f[x] \in Nat
  PROVE  \A T \in SUBSET S : SumFunctionOnSet(f, T) <= SumFunctionOnSet(f, S)
<1> SUFFICES ASSUME NEW R \in SUBSET S
             PROVE  SumFunctionOnSet(f, R) <= SumFunctionOnSet(f, S)
  OBVIOUS
<1> DEFINE Bad == {T \in SUBSET S : R \subseteq T /\ ~(SumFunctionOnSet(f, R) <= SumFunctionOnSet(f, T))}
<1>1. SUFFICES ASSUME Bad # {} PROVE FALSE
  OBVIOUS
<1>2. PICK T \in Bad : \A U \in Bad : ~(U \subseteq T /\ U # T)
  <2>1. Bad \subseteq SUBSET S
    OBVIOUS
  <2> HIDE DEF Bad
  <2>2. QED
    BY <1>1, <2>1, MinimalSubset
<1>3. SumFunctionOnSet(f, R) \in Nat /\ SumFunctionOnSet(f, T) \in Nat
  BY SumNat
<1>4. T # R
  BY <1>3
<1>5. PICK x \in T : x \notin R
  BY <1>4
<1>6. T \ {x} \in SUBSET S /\ T \ {x} \notin Bad /\ R \subseteq T \ {x}
  BY <1>2, <1>5
<1>7. /\ SumFunctionOnSet(f, T) = f[x] + SumFunctionOnSet(f, T \ {x})
      /\ f[x] \in Nat /\ SumFunctionOnSet(f, T \ {x}) \in Nat
  BY <1>6, SumRemove, SumNat
<1>8. QED
  BY <1>3, <1>6, <1>7

(* The summands of another function, each at an argument of its own.       *)
LEMMA SumMoved ==
  ASSUME NEW f, NEW g, NEW d, NEW S, IsFiniteSet(S), NEW D, IsFiniteSet(D),
         \A x \in S : f[x] \in Nat /\ d[x] \in D /\ f[x] = g[d[x]],
         \A y \in D : g[y] \in Nat,
         \A x, y \in S : d[x] = d[y] => x = y
  PROVE  \A T \in SUBSET S : SumFunctionOnSet(f, T) = SumFunctionOnSet(g, {d[x] : x \in T})
<1> DEFINE Good(T) == SumFunctionOnSet(f, T) = SumFunctionOnSet(g, {d[x] : x \in T})
           Bad == {T \in SUBSET S : ~Good(T)}
<1>1. SUFFICES ASSUME Bad # {} PROVE FALSE
  OBVIOUS
<1>2. PICK T \in Bad : \A U \in Bad : ~(U \subseteq T /\ U # T)
  <2>1. Bad \subseteq SUBSET S
    OBVIOUS
  <2> HIDE DEF Bad
  <2>2. QED
    BY <1>1, <2>1, MinimalSubset
<1>3. T \in SUBSET S /\ ~Good(T) /\ \A U \in SUBSET T : U # T => Good(U)
  BY <1>2
<1>4. T # {}
  <2>1. {d[x] : x \in {}} = {}
    OBVIOUS
  <2>2. QED
    BY <1>3, <2>1, SumEmpty
<1>5. PICK x \in T : TRUE
  BY <1>4
<1> DEFINE I(U) == {d[u] : u \in U}
<1>6. I(T) \ {d[x]} = I(T \ {x}) /\ I(T) \in SUBSET D /\ d[x] \in I(T)
  BY <1>3, <1>5
<1>7. SumFunctionOnSet(f, T) = f[x] + SumFunctionOnSet(f, T \ {x})
  BY <1>3, <1>5, SumRemove
<1>8. SumFunctionOnSet(g, I(T)) = g[d[x]] + SumFunctionOnSet(g, I(T \ {x}))
  <2> HIDE DEF I
  <2>1. \A y \in I(T) : SumFunctionOnSet(g, I(T)) = g[y] + SumFunctionOnSet(g, I(T) \ {y})
    BY <1>6, SumRemove
  <2>2. QED
    BY <1>6, <2>1
<1>9. SumFunctionOnSet(f, T \ {x}) = SumFunctionOnSet(g, I(T \ {x}))
  <2>1. Good(T \ {x})
    BY <1>3, <1>5
  <2>2. QED
    BY <2>1
<1>10. f[x] = g[d[x]]
  BY <1>3, <1>5
<1>11. SumFunctionOnSet(f, T) = SumFunctionOnSet(g, I(T))
  <2> HIDE DEF I
  <2>1. QED
    BY <1>7, <1>8, <1>9, <1>10
<1>12. QED
  BY <1>3, <1>11

-----------------------------------------------------------------------------
(* A running task that has its device to itself has its own power reserved *)
(* there, and what sleeps is known to have waited: then the sum that       *)
(* CanLaunch looks at is no less than what the counted tasks take.         *)
OwnReserved ==
  /\ \A t \in Running : HasOwnDevice(t) => reserved[Device[t]] = Watts[t]
  /\ \A t \in Tasks : tpc[t] = "sleep" => t \in waited

LEMMA TasksAndDevices == IsFiniteSet(Tasks) /\ IsFiniteSet(Devices)
<1>1. IsFiniteSet(Tasks)
  BY TaskGraphAssumption
<1>2. [t \in Tasks |-> Device[t]] \in Surjection(Tasks, Devices)
  BY DEF Devices, Surjection
<1>3. QED
  BY <1>1, <1>2, FS_Surjection

LEMMA CountedReserved ==
  ASSUME TypeOK, OwnReserved
  PROVE  /\ SumFunctionOnSet(Watts, Counted) <= SumFunction(reserved)
         /\ SumFunctionOnSet(Watts, Counted) \in Nat
         /\ SumFunction(reserved) \in Nat
<1>1. \A d \in Devices : reserved[d] \in Nat
  BY WattsPositive DEF TypeOK
<1>2. Counted \in SUBSET Tasks /\ IsFiniteSet(Counted)
  BY TasksAndDevices, FS_Subset DEF Counted, Running
<1>3. \A t \in Counted : /\ Watts[t] \in Nat /\ Device[t] \in Devices
                         /\ Watts[t] = reserved[Device[t]]
  BY WattsPositive DEF OwnReserved, Counted, Running
<1>4. \A t, u \in Counted : Device[t] = Device[u] => t = u
  BY DEF Counted, HasOwnDevice, Running, Wave
<1>5. SumFunctionOnSet(Watts, Counted)
        = SumFunctionOnSet(reserved, {Device[t] : t \in Counted})
  BY <1>1, <1>2, <1>3, <1>4, TasksAndDevices, SumMoved
<1>6. {Device[t] : t \in Counted} \in SUBSET Devices
  BY <1>3
<1>7. /\ SumFunctionOnSet(reserved, {Device[t] : t \in Counted}) \in Nat
      /\ SumFunctionOnSet(reserved, Devices) \in Nat
      /\ SumFunctionOnSet(reserved, {Device[t] : t \in Counted})
           <= SumFunctionOnSet(reserved, Devices)
  BY <1>1, <1>6, TasksAndDevices, SumNat, SumPart
<1>8. SumFunction(reserved) = SumFunctionOnSet(reserved, Devices)
  BY DEF SumFunction, TypeOK
<1>9. QED
  BY <1>5, <1>7, <1>8

(* Fewer tasks counted take no more.                                       *)
LEMMA CountedLess ==
  ASSUME CapHeldByOthers, Counted' \subseteq Counted
  PROVE  CapHeldByOthers'
<1>1. Counted \in SUBSET Tasks /\ IsFiniteSet(Counted) /\ \A t \in Counted : Watts[t] \in Nat
  BY TasksAndDevices, WattsPositive, FS_Subset DEF Counted, Running
<1>2. /\ SumFunctionOnSet(Watts, Counted') \in Nat
      /\ SumFunctionOnSet(Watts, Counted) \in Nat
      /\ SumFunctionOnSet(Watts, Counted') <= SumFunctionOnSet(Watts, Counted)
  BY <1>1, SumNat, SumPart
<1>3. Limit \in Nat
  BY TaskGraphAssumption
<1>4. QED
  BY <1>2, <1>3 DEF CapHeldByOthers

LEMMA CountedNone == ASSUME Running' = {} PROVE CapHeldByOthers' /\ Counted' = {}
<1>1. Counted' = {}
  BY DEF Counted
<1>2. SumFunctionOnSet(Watts, {}) = 0 /\ Limit \in Nat
  BY SumEmpty, TaskGraphAssumption
<1>3. QED
  BY <1>1, <1>2 DEF CapHeldByOthers

(* The wave changes only at its start and its end.                         *)
LEMMA CapInvariant == Spec => [](OwnReserved /\ CapHeldByOthers)
<1>1. Init => OwnReserved /\ CapHeldByOthers
  <2> SUFFICES ASSUME Init PROVE OwnReserved /\ CapHeldByOthers
    OBVIOUS
  <2>1. Running = {} /\ \A t \in Tasks : tpc[t] = "idle"
    BY DEF Init, Running
  <2>2. Counted = {}
    BY <2>1 DEF Counted
  <2>3. SumFunctionOnSet(Watts, {}) = 0 /\ Limit \in Nat
    BY SumEmpty, TaskGraphAssumption
  <2>4. QED
    BY <2>1, <2>2, <2>3 DEF OwnReserved, CapHeldByOthers
<1>2. TypeOK /\ (OwnReserved /\ CapHeldByOthers) /\ [Next]_vars
        => (OwnReserved /\ CapHeldByOthers)'
  <2> SUFFICES ASSUME TypeOK, OwnReserved, CapHeldByOthers, [Next]_vars
               PROVE  OwnReserved' /\ CapHeldByOthers'
    OBVIOUS
  <2>1. CASE StartWave \/ Gathered
    <3>1. Running' = {} /\ \A t \in Tasks : tpc'[t] # "sleep"
      BY <2>1 DEF StartWave, Gathered, Running
    <3>2. QED
      BY <3>1, CountedNone DEF OwnReserved
  <2>2. CASE Deadlocked \/ Finish \/ Uni \/ UNCHANGED vars
    <3>1. UNCHANGED <<tpc, reserved, waited>>
      BY <2>2 DEF Deadlocked, Finish, Uni, UniRuns, UniReturns, UniRaises, vars
    <3>2. Counted' = Counted /\ Running' = Running /\ Wave' = Wave
      BY <3>1 DEF Counted, Running, Wave, HasOwnDevice
    <3>3. QED
      BY <3>1, <3>2, CountedLess DEF OwnReserved, HasOwnDevice
  <2>3. ASSUME NEW t \in Tasks, Launch(t) \/ Wake(t)
        PROVE  OwnReserved' /\ CapHeldByOthers'
    <3>1. /\ tpc' = [tpc EXCEPT ![t] = "run"] /\ tpc[t] \in {"start", "sleep"}
          /\ waited' = waited
      BY <2>3 DEF Launch, Wake
    <3>2. /\ Wave' = Wave /\ t \in Wave /\ Running' = Running \cup {t}
          /\ \A u \in Tasks : tpc'[u] = "sleep" => tpc[u] = "sleep"
      BY <3>1 DEF Wave, Running, TypeOK
    <3>3. \A u \in Tasks : HasOwnDevice(u)' <=> HasOwnDevice(u)
      BY <3>2 DEF HasOwnDevice
    <3>4. \A d \in Devices : reserved'[d] = IF d = Device[t] THEN Watts[t] ELSE reserved[d]
      BY <2>3 DEF Launch, Wake, Reserve, TypeOK
    <3>5. \A u \in Running' : HasOwnDevice(u) => reserved'[Device[u]] = Watts[u]
      <4>1. ASSUME NEW u \in Running, HasOwnDevice(u), u # t
            PROVE  reserved'[Device[u]] = Watts[u]
        <5>1. Device[t] # Device[u]
          BY <3>2, <4>1 DEF HasOwnDevice
        <5>2. QED
          BY <3>4, <4>1, <5>1, WattsPositive DEF OwnReserved, Running
      <4>2. QED
        BY <3>2, <3>4, <4>1, WattsPositive
    <3>6. OwnReserved'
      BY <3>1, <3>2, <3>3, <3>5 DEF OwnReserved, Running
    <3>7. Counted \subseteq Counted' /\ Counted' \subseteq Counted \cup {t}
      BY <3>1, <3>2, <3>3 DEF Counted, Running
    <3>8. CASE Counted' \subseteq Counted
      BY <3>6, <3>8, CountedLess
    <3>9. CASE Counted' = Counted \cup {t} /\ t \notin Counted
      <4>1. t \notin waited
        BY <3>1, <3>9 DEF Counted
      <4>2. Launch(t)
        BY <2>3, <4>1 DEF Wake, OwnReserved
      <4>3. SumFunction(reserved) + Watts[t] <= Limit
        BY <4>2 DEF Launch, CanLaunch
      <4>4. SumFunctionOnSet(Watts, Counted') = Watts[t] + SumFunctionOnSet(Watts, Counted)
        <5>1. Counted' \in SUBSET Tasks /\ t \in Counted' /\ Counted' \ {t} = Counted
          BY <3>9 DEF Counted, Running
        <5>2. \A x \in Tasks : Watts[x] \in Nat
          BY WattsPositive
        <5>3. SumFunctionOnSet(Watts, Counted')
                = Watts[t] + SumFunctionOnSet(Watts, Counted' \ {t})
          BY <5>1, <5>2, TasksAndDevices, SumRemove
        <5>4. QED
          BY <5>1, <5>3
      <4>5. Watts[t] \in Nat /\ Limit \in Nat
        BY WattsPositive, TaskGraphAssumption
      <4>6. CapHeldByOthers'
        BY <4>3, <4>4, <4>5, CountedReserved DEF CapHeldByOthers
      <4>7. QED
        BY <3>6, <4>6
    <3>10. QED
      BY <3>7, <3>8, <3>9
  <2>4. ASSUME NEW t \in Tasks, OverCap(t)
        PROVE  OwnReserved' /\ CapHeldByOthers'
    <3>1. /\ tpc' = [tpc EXCEPT ![t] = "sleep"] /\ tpc[t] = "start"
          /\ waited' = waited \cup {t} /\ reserved' = reserved
      BY <2>4 DEF OverCap
    <3>2. Wave' = Wave /\ Running' = Running
      BY <3>1 DEF Wave, Running, TypeOK
    <3>3. \A u \in Tasks : HasOwnDevice(u)' <=> HasOwnDevice(u)
      BY <3>2 DEF HasOwnDevice
    <3>4. OwnReserved'
      BY <3>1, <3>2, <3>3 DEF OwnReserved, Running, TypeOK
    <3>5. Counted' \subseteq Counted
      BY <3>1, <3>2, <3>3 DEF Counted, Running
    <3>6. QED
      BY <3>4, <3>5, CountedLess
  <2>5. ASSUME NEW t \in Tasks, RunReturns(t)
        PROVE  OwnReserved' /\ CapHeldByOthers'
    <3>1. tpc' = [tpc EXCEPT ![t] = "ended"] /\ tpc[t] = "run" /\ waited' = waited
      BY <2>5 DEF RunReturns
    <3>2. /\ Wave' = Wave /\ t \in Wave /\ Running' = Running \ {t}
          /\ \A u \in Tasks : tpc'[u] = "sleep" => tpc[u] = "sleep"
      BY <3>1 DEF Wave, Running, TypeOK
    <3>3. \A u \in Tasks : HasOwnDevice(u)' <=> HasOwnDevice(u)
      BY <3>2 DEF HasOwnDevice
    <3>4. \A d \in Devices : d # Device[t] => reserved'[d] = reserved[d]
      BY <2>5 DEF RunReturns, Release, TypeOK
    <3>5. \A u \in Running' : HasOwnDevice(u) => Device[u] # Device[t]
      BY <3>2 DEF HasOwnDevice
    <3>6. OwnReserved'
      BY <3>1, <3>2, <3>3, <3>4, <3>5, WattsPositive DEF OwnReserved, Running
    <3>7. Counted' \subseteq Counted
      BY <3>1, <3>2, <3>3 DEF Counted, Running
    <3>8. QED
      BY <3>6, <3>7, CountedLess
  <2>6. QED
    BY <2>1, <2>2, <2>3, <2>4, <2>5 DEF Next, Executor, Ended
<1>3. QED
  BY <1>1, <1>2, TypeCorrect, PTL DEF Spec

(* Tasks with devices of their own that did not have to wait keep to the   *)
(* power cap, for any devices, wattages and limit, whatever the others do. *)
THEOREM CapHeld == Spec => []CapHeldByOthers
  BY CapInvariant, PTL
=============================================================================
