--------------------------- MODULE AveoSession ---------------------------
(***************************************************************************)
(* The process-wide AVEO session of runtime/session.py: one entry that     *)
(* records a pool of VE processes and the GEMM dimensions its device       *)
(* buffers were pinned for, over AveoSessionPool (backends/ve_aveo.py) and *)
(* the C sessions of kernels/host/veo_dgemm_host.c.                        *)
(*                                                                         *)
(* get_aveo_pool and shutdown_sessions hold the module's RLock from their  *)
(* first to their last access, so each is one step.  What they return, a   *)
(* pool, is used after the lock is released: JobServer models its users.   *)
(***************************************************************************)
EXTENDS Integers, FiniteSets

CONSTANTS
  Nodes,         \* VE nodes, numbers: pin_all visits them in this order
  NodeSets,      \* the node sets callers ask for
  Shapes,        \* the dimensions callers ask to pin
  MaxPools,      \* bound on the pools a behaviour creates
  SessionFaults  \* a subset of SessionFaultKinds

(* "open":  a VE process cannot be created.                                *)
(* "alloc": the device cannot allocate the buffers.                        *)
(* "call":  a kernel call or a transfer on the device fails.               *)
SessionFaultKinds == {"open", "alloc", "call"}
Shape == [m : Nat, n : Nat, k : Nat]

ASSUME SessionAssumption ==
  /\ Nodes \subseteq Int
  /\ NodeSets \subseteq (SUBSET Nodes) \ {{}}
  /\ Shapes \subseteq Shape
  /\ \A s \in Shapes : s.m > 0 => s.n > 0 /\ s.k > 0
  /\ MaxPools \in Nat
  /\ SessionFaults \subseteq SessionFaultKinds

NoPool  == 0
Pools   == 1..MaxPools
NoShape == [m |-> 0, n |-> 0, k |-> 0]
NoEntry == [nodes |-> {}, pool |-> NoPool, pin |-> NoShape]

VARIABLES
  entry,   \* _aveo: the recorded nodes, pool and pin, NoEntry for None
  pstate,  \* each pool: "unused", "open" or "closed"
  cap      \* the dimensions each node's buffers were allocated for

sessionVars == <<entry, pstate, cap>>

SessionTypeOK ==
  /\ entry \in [nodes : SUBSET Nodes, pool : {NoPool} \cup Pools, pin : Shape]
  /\ pstate \in [Pools -> {"unused", "open", "closed"}]
  /\ cap \in [Pools -> [Nodes -> Shape]]
  /\ entry.pool = NoPool => entry = NoEntry

SessionInit ==
  /\ entry = NoEntry
  /\ pstate = [p \in Pools |-> "unused"]
  /\ cap = [p \in Pools |-> [n \in Nodes |-> NoShape]]

-----------------------------------------------------------------------------
Larger(x, y) == IF x >= y THEN x ELSE y

(* Each dimension at its larger value.                                     *)
Join(s, t) == [m |-> Larger(s.m, t.m), n |-> Larger(s.n, t.n), k |-> Larger(s.k, t.k)]

(* The host's test: no dimension asked for exceeds the recorded one.       *)
Covers(pin, req) == req.m <= pin.m /\ req.n <= pin.n /\ req.k <= pin.k

(* The device's test in aveo_session_dgemm_pinned: buffers are there, and  *)
(* the operands' and the result's bytes fit.                               *)
Fits(req, c) ==
  /\ c.m > 0
  /\ req.m * req.k <= c.m * c.k
  /\ req.k * req.n <= c.k * c.n
  /\ req.m * req.n <= c.m * c.n

(* pin_all(s) on a pool's nodes, and pin_all(s) that raises at node f: the *)
(* nodes before f are pinned anew, f's buffers are freed and not replaced, *)
(* the nodes after f are as they were.                                     *)
PinnedAll(bufs, ns, s) == [n \in Nodes |-> IF n \in ns THEN s ELSE bufs[n]]
PinFailed(bufs, ns, s, f) ==
  [n \in Nodes |->
     CASE n \in ns /\ n < f -> s [] n = f -> NoShape [] OTHER -> bufs[n]]

(* pool.stop() of the recorded pool: every node's VE process is closed and *)
(* its buffers are gone with it.                                           *)
NoBuffers  == [n \in Nodes |-> NoShape]
(* Variant: the pool that is replaced is not stopped.                      *)
StopEntryNot == pstate

StopEntry  == [q \in Pools |-> IF q = entry.pool THEN "closed" ELSE pstate[q]]
FreeEntry  == [q \in Pools |-> IF q = entry.pool THEN NoBuffers ELSE cap[q]]

(* Pools are numbered in the order they are started.                       *)
Fresh(p) == /\ p \in Pools /\ pstate[p] = "unused"
            /\ \A q \in Pools : q < p => pstate[q] # "unused"

Matches(ns)   == entry.pool # NoPool /\ entry.nodes = ns
(* Variant: only one dimension is compared.                                *)
MustGrowByRows(req) == req.m > 0 /\ req.m > entry.pin.m

MustGrow(req) == req.m > 0 /\ ~Covers(entry.pin, req)
Guarded(mode) == mode = "strict" /\ entry.pin.m > 0

(* get_aveo_pool(ns, req, mode) returns pool res, or raises (NoPool).      *)
Reuse(ns, req, res) ==
  /\ Matches(ns) /\ ~MustGrow(req)
  /\ res = entry.pool
  /\ UNCHANGED sessionVars

StrictRaises(ns, req, mode, res) ==
  /\ Matches(ns) /\ MustGrow(req) /\ Guarded(mode)
  /\ res = NoPool
  /\ UNCHANGED sessionVars

Grow(ns, req, mode, res) ==
  /\ Matches(ns) /\ MustGrow(req) /\ ~Guarded(mode)
  /\ res = entry.pool
  /\ cap' = [cap EXCEPT ![entry.pool] = PinnedAll(@, ns, Join(req, entry.pin))]
  /\ entry' = [entry EXCEPT !.pin = Join(req, @)]
  /\ UNCHANGED pstate

(* Variant: the new pin is recorded before pin_all.                        *)
GrowFailsLate(ns, req, mode, res) ==
  /\ "alloc" \in SessionFaults
  /\ Matches(ns) /\ MustGrow(req) /\ ~Guarded(mode)
  /\ res = NoPool
  /\ \E f \in ns :
       cap' = [cap EXCEPT ![entry.pool] = PinFailed(@, ns, Join(req, entry.pin), f)]
  /\ entry' = [entry EXCEPT !.pin = Join(req, @)]
  /\ UNCHANGED pstate

(* pin_all raises before the new pin is recorded: the old record stays.    *)
GrowFails(ns, req, mode, res) ==
  /\ "alloc" \in SessionFaults
  /\ Matches(ns) /\ MustGrow(req) /\ ~Guarded(mode)
  /\ res = NoPool
  /\ \E f \in ns :
       cap' = [cap EXCEPT ![entry.pool] = PinFailed(@, ns, Join(req, entry.pin), f)]
  /\ UNCHANGED <<entry, pstate>>

(* Another node set, or no session: stop the old pool, start a new one.    *)
Replace(ns, req, res) ==
  /\ ~Matches(ns)
  /\ Fresh(res)
  /\ pstate' = [StopEntry EXCEPT ![res] = "open"]
  /\ cap' = [FreeEntry EXCEPT ![res] = IF req.m > 0 THEN PinnedAll(@, ns, req) ELSE @]
  /\ entry' = [nodes |-> ns, pool |-> res, pin |-> req]

(* start() closes what it had opened and raises.                           *)
StartFails(ns, res) ==
  /\ "open" \in SessionFaults
  /\ ~Matches(ns) /\ res = NoPool
  /\ pstate' = StopEntry /\ cap' = FreeEntry
  /\ entry' = NoEntry

(* The first pin_all raises: the pool is started but recorded nowhere.     *)
FirstPinFails(ns, req, res) ==
  /\ "alloc" \in SessionFaults
  /\ ~Matches(ns) /\ req.m > 0 /\ res = NoPool
  /\ \E p \in Pools :
       /\ Fresh(p)
       /\ pstate' = [StopEntry EXCEPT ![p] = "open"]
       /\ \E f \in ns : cap' = [FreeEntry EXCEPT ![p] = PinFailed(@, ns, req, f)]
  /\ entry' = NoEntry

GetAveoPool(ns, req, mode, res) ==
  \/ Reuse(ns, req, res)
  \/ StrictRaises(ns, req, mode, res)
  \/ Grow(ns, req, mode, res)
  \/ GrowFails(ns, req, mode, res)
  \/ Replace(ns, req, res)
  \/ StartFails(ns, res)
  \/ FirstPinFails(ns, req, res)

(* shutdown_sessions, on the AVEO entry.                                   *)
ShutdownSessions ==
  /\ pstate' = StopEntry /\ cap' = FreeEntry
  /\ entry' = NoEntry

=============================================================================
