------------------------------ MODULE VePools ------------------------------
(***************************************************************************)
(* Who holds the VE worker processes of one Python process: the pools      *)
(* VeWorkerPool (backends/ve_worker.py) and AveoSessionPool                *)
(* (backends/ve_aveo.py), the shared pool of execute_plan                  *)
(* (partition/runner.py), the session's worker pool (runtime/session.py)   *)
(* and the pool a data plane or a multi-batch call has opened.  All are    *)
(* opened and closed by the one thread that makes the calls.               *)
(***************************************************************************)
EXTENDS Integers, FiniteSets

CONSTANTS
  VeIds,     \* VE numbers
  StartFaults \* whether a worker may fail to start

ASSUME VePoolsAssumption ==
  VeIds \subseteq Nat /\ IsFiniteSet(VeIds) /\ StartFaults \in BOOLEAN

NoPool == 0
(* Enough for the session, a holder, a call, a stale shared pool, a start. *)
Pools  == 1..5
Kinds  == {"worker", "aveo"}

VARIABLES
  pool,     \* each pool: its kind, its VEs and the workers that are up
  shared,   \* _REUSE_POOL
  session,  \* the session's _worker
  hold,     \* the pool of the open data plane or multi-batch call
  own,      \* the pool a GEMM has started for itself
  lost      \* history: shared is a pool get_worker_pool has stopped

poolVars == <<pool, shared, session, hold, own, lost>>

NewPool == [kind |-> "worker", ids |-> {}, up |-> {}]

PoolsTypeOK ==
  /\ pool \in [Pools -> [kind : Kinds, ids : SUBSET VeIds, up : SUBSET VeIds]]
  /\ {shared, session, hold, own} \subseteq {NoPool} \cup Pools
  /\ lost \in BOOLEAN

PoolsInit ==
  /\ pool = [p \in Pools |-> NewPool]
  /\ shared = NoPool /\ session = NoPool /\ hold = NoPool /\ own = NoPool
  /\ lost = FALSE

-----------------------------------------------------------------------------
(* A pool object nobody refers to is gone; the next one takes its place.   *)
Unused == Pools \ {shared, session, hold, own}
Fresh  == CHOOSE p \in Unused : \A q \in Unused : p <= q

Started(ps, p, kind, ids) ==
  [ps EXCEPT ![p] = [kind |-> kind, ids |-> ids, up |-> ids]]

(* stop(): every worker is told to quit, terminated or killed.  Of a pool  *)
(* that is dropped with it nothing is left.                                *)
Stopped(p) == [q \in Pools |-> IF q = p THEN [pool[q] EXCEPT !.up = {}] ELSE pool[q]]
Dropped(p) == [q \in Pools |-> IF q = p THEN NewPool ELSE pool[q]]

(* A start that raises, on pools ps: nobody has the pool.  AveoSessionPool *)
(* closes what it had opened; the workers a VeWorkerPool had started run   *)
(* on, out of everybody's reach.                                           *)
Fails(ps) == StartFaults /\ pool' = ps

-----------------------------------------------------------------------------
SessionHas(ids) == session # NoPool /\ pool[session].ids = ids

(* Variant: the session's old pool is not stopped.                         *)
ReplaceWorkersKeeps(ids) ==
  /\ ~SessionHas(ids)
  /\ \/ /\ pool' = Started(pool, Fresh, "worker", ids)
        /\ shared' = Fresh /\ session' = Fresh
        /\ lost' = FALSE
     \/ /\ Fails(pool)
        /\ lost' = (lost \/ shared \in {session} \ {NoPool})
        /\ session' = NoPool
        /\ UNCHANGED shared
  /\ UNCHANGED <<hold, own>>

(* get_worker_pool.  The old pool is stopped before the new one starts;    *)
(* when that raises, execute_plan's shared pool is still the old one.      *)
ReplaceWorkers(ids) ==
  /\ ~SessionHas(ids)
  /\ \/ /\ pool' = Started(Dropped(session), Fresh, "worker", ids)
        /\ shared' = Fresh /\ session' = Fresh
        /\ lost' = FALSE
     \/ /\ Fails(Stopped(session))
        /\ lost' = (lost \/ shared \in {session} \ {NoPool})
        /\ session' = NoPool
        /\ UNCHANGED shared
  /\ UNCHANGED <<hold, own>>

GetWorkerPool(ids) ==
  \/ SessionHas(ids) /\ UNCHANGED poolVars
  \/ ReplaceWorkers(ids)

(* Variant: the shared pool is not cleared.                                *)
ShutdownKeepsShared ==
  /\ pool' = Stopped(session) /\ session' = NoPool
  /\ UNCHANGED <<shared, hold, own, lost>>

(* shutdown_sessions, on the worker entry; the AVEO entry is AveoSession's. *)
ShutdownWorkers ==
  /\ session # NoPool
  /\ shared' = NoPool
  /\ pool' = Dropped(session) /\ session' = NoPool
  /\ UNCHANGED <<hold, own, lost>>

(* A data plane's open(), or a multi-batch call's start and                *)
(* set_shared_ve_pool.  When AveoPlane raises after the start, at pin_all, *)
(* its pool too is out of reach.                                           *)
OpenHold(kind, ids, installs) ==
  /\ hold = NoPool
  /\ \/ /\ pool' = Started(pool, Fresh, kind, ids)
        /\ hold' = Fresh
        /\ shared' = IF installs THEN Fresh ELSE shared
        /\ lost' = (lost /\ ~installs)
     \/ /\ Fails(pool)
        /\ UNCHANGED <<hold, shared, lost>>
  /\ UNCHANGED <<session, own>>

(* close(), or clear_shared_ve_pool and stop().  The multi-batch call      *)
(* clears whatever pool is installed by then.                              *)
CloseHold(installed) ==
  /\ hold # NoPool
  /\ shared' = IF installed THEN NoPool ELSE shared
  /\ lost' = (lost /\ ~installed)
  /\ pool' = Dropped(hold) /\ hold' = NoPool
  /\ UNCHANGED <<session, own>>

(* A GEMM's own pool: started, or not; stopped when the GEMM is over.      *)
StartOwn(kind, ids) ==
  /\ pool' = Started(pool, Fresh, kind, ids) /\ own' = Fresh
  /\ UNCHANGED <<shared, session, hold, lost>>
OwnFails ==
  Fails(pool) /\ UNCHANGED <<shared, session, hold, own, lost>>
StopOwn ==
  /\ pool' = Dropped(own) /\ own' = NoPool
  /\ UNCHANGED <<shared, session, hold, lost>>

-----------------------------------------------------------------------------
(* A worker that is up has somebody who will stop it: it is in the pool of *)
(* the session, of a holder or of a running GEMM.  (Those of a start that  *)
(* raised are not counted.)                                                *)
WorkersOwned ==
  \A p \in Pools : pool[p].up # {} => p \in {session, hold, own}

(* The pool execute_plan reuses is that of the session or of a holder, and *)
(* has all its workers up, unless get_worker_pool has stopped it and       *)
(* failed to start another.                                                *)
SharedIsUp ==
  shared # NoPool /\ ~lost =>
    shared \in {session, hold} /\ pool[shared].up = pool[shared].ids
=============================================================================
