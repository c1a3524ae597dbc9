-------------------------- MODULE SessionProofs --------------------------
(***************************************************************************)
(* Theorems about the shared session: under any caller (SessionCalls), and *)
(* under the job server (JobServer), for any nodes, shapes, pools,         *)
(* connections, requests and batches.                                      *)
(*                                                                         *)
(* The records of entry and the buffers of the device are two views of one *)
(* capacity that get_aveo_pool keeps in step by hand; the invariant says   *)
(* how far apart they may be when pin_all has failed.                      *)
(*                                                                         *)
(* What the server's threads hold is invariant whatever fails: the job     *)
(* lock is held by the one thread inside a job, and the session changes    *)
(* under that lock, but for the preload and the shutdown (ControlInv).     *)
(* What that is worth to a GEMM rests on the record of the session being   *)
(* exact, and so on no allocation failing ("alloc" \notin SessionFaults).  *)
(***************************************************************************)
EXTENDS JobServer, SessionCalls, TLAPS


-----------------------------------------------------------------------------
(* The host compares dimensions, the device compares bytes: what covers    *)
(* dimension by dimension also fits byte by byte.                          *)
LEMMA ProductMonotone ==
  ASSUME NEW a \in Nat, NEW b \in Nat, NEW x \in Nat, NEW y \in Nat, a <= x, b <= y
  PROVE  a * b <= x * y
<1>1. a * b <= a * y
  OBVIOUS
<1>2. a * y <= x * y
  OBVIOUS
<1>3. QED
  BY <1>1, <1>2

LEMMA CoversFits ==
  ASSUME NEW s \in Shape, NEW c \in Shape, c.m > 0, Covers(c, s)
  PROVE  Fits(s, c)
<1>1. s.m * s.k <= c.m * c.k
  BY ProductMonotone DEF Covers, Shape
<1>2. s.k * s.n <= c.k * c.n
  BY ProductMonotone DEF Covers, Shape
<1>3. s.m * s.n <= c.m * c.n
  BY ProductMonotone DEF Covers, Shape
<1>4. QED
  BY <1>1, <1>2, <1>3 DEF Fits

LEMMA CoversTransitive ==
  ASSUME NEW s \in Shape, NEW t \in Shape, NEW u \in Shape, Covers(s, t), Covers(t, u)
  PROVE  Covers(s, u)
  BY DEF Covers, Shape

LEMMA JoinCovers ==
  ASSUME NEW s \in Shape, NEW t \in Shape
  PROVE  Join(s, t) \in Shape /\ Covers(Join(s, t), s) /\ Covers(Join(s, t), t)
  BY DEF Join, Larger, Covers, Shape

LEMMA NoShapeOK == NoShape \in Shape /\ NoShape.m = 0
  BY DEF NoShape, Shape

LEMMA PoolRange == NoPool \notin Pools
  BY DEF NoPool, Pools

-----------------------------------------------------------------------------
(* What the steps of a call build has the types of SessionTypeOK.          *)
LEMMA StopFree ==
  ASSUME SessionTypeOK
  PROVE  /\ StopEntry \in [Pools -> {"unused", "open", "closed"}]
         /\ FreeEntry \in [Pools -> [Nodes -> Shape]]
  BY NoShapeOK DEF SessionTypeOK, StopEntry, FreeEntry, NoBuffers

LEMMA PinTypes ==
  ASSUME NEW bufs \in [Nodes -> Shape], NEW ns \in SUBSET Nodes, NEW s \in Shape, NEW f \in ns
  PROVE  /\ PinnedAll(bufs, ns, s) \in [Nodes -> Shape]
         /\ PinFailed(bufs, ns, s, f) \in [Nodes -> Shape]
  BY NoShapeOK DEF PinnedAll, PinFailed

(* SessionTypeOK is kept by each of the calls, whoever makes them.         *)
LEMMA CallTypes ==
  ASSUME SessionTypeOK, NEW ns \in SUBSET Nodes, NEW shape \in Shape, NEW mode,
         NEW res \in {NoPool} \cup Pools, GetAveoPool(ns, shape, mode, res)
  PROVE  SessionTypeOK'
<1> USE SessionAssumption DEF SessionTypeOK
<1>0. /\ ns \in SUBSET Nodes /\ shape \in Shape /\ entry.pin \in Shape
      /\ Join(shape, entry.pin) \in Shape
  BY JoinCovers
<1>1. CASE Reuse(ns, shape, res) \/ StrictRaises(ns, shape, mode, res)
  BY <1>1 DEF Reuse, StrictRaises, sessionVars
<1>2. CASE Grow(ns, shape, mode, res)
  <2>1. entry.pool \in Pools
    BY <1>2 DEF Grow, Matches
  <2>2. PinnedAll(cap[entry.pool], ns, Join(shape, entry.pin)) \in [Nodes -> Shape]
    BY <1>0, <2>1 DEF PinnedAll
  <2>3. entry'.pool \in Pools
    BY <1>2, <2>1 DEF Grow
  <2>4. QED
    BY <1>0, <1>2, <2>1, <2>2, <2>3, PoolRange DEF Grow
<1>3. CASE GrowFails(ns, shape, mode, res)
  <2>1. entry.pool \in Pools
    BY <1>3 DEF GrowFails, Matches
  <2>2. PICK f \in ns :
          cap' = [cap EXCEPT ![entry.pool] = PinFailed(@, ns, Join(shape, entry.pin), f)]
    BY <1>3 DEF GrowFails
  <2>3. PinFailed(cap[entry.pool], ns, Join(shape, entry.pin), f) \in [Nodes -> Shape]
    BY <1>0, <2>1, PinTypes
  <2>4. QED
    BY <1>3, <2>1, <2>2, <2>3 DEF GrowFails
<1>4. CASE Replace(ns, shape, res)
  <2>1. res \in Pools
    BY <1>4 DEF Replace, Fresh
  <2>2. PinnedAll(FreeEntry[res], ns, shape) \in [Nodes -> Shape]
    BY <1>0, <2>1, StopFree DEF PinnedAll
  <2>3. cap' \in [Pools -> [Nodes -> Shape]]
    BY <1>4, <2>1, <2>2, StopFree DEF Replace
  <2>4. pstate' \in [Pools -> {"unused", "open", "closed"}]
    BY <1>4, <2>1, StopFree DEF Replace
  <2>5. QED
    BY <1>0, <1>4, <2>1, <2>3, <2>4, PoolRange DEF Replace
<1>5. CASE StartFails(ns, res)
  BY <1>5, StopFree, NoShapeOK DEF StartFails, NoEntry
<1>6. CASE FirstPinFails(ns, shape, res)
  <2>1. PICK p \in Pools, f \in ns :
          /\ pstate' = [StopEntry EXCEPT ![p] = "open"]
          /\ cap' = [FreeEntry EXCEPT ![p] = PinFailed(@, ns, shape, f)]
    BY <1>6 DEF FirstPinFails
  <2>2. PinFailed(FreeEntry[p], ns, shape, f) \in [Nodes -> Shape]
    BY <1>0, StopFree, PinTypes
  <2>3. entry' = NoEntry
    BY <1>6 DEF FirstPinFails
  <2>4. QED
    BY <2>1, <2>2, <2>3, StopFree, NoShapeOK DEF NoEntry
<1>7. QED
  BY <1>1, <1>2, <1>3, <1>4, <1>5, <1>6 DEF GetAveoPool

(* TypeOK for all nodes, shapes and faults.                                *)
THEOREM TypeCorrect == Spec => []TypeOK
<1>1. Init => TypeOK
  <2>1. Init => SessionTypeOK
    BY NoShapeOK DEF Init, SessionInit, SessionTypeOK, NoEntry
  <2>2. Init => oom \in BOOLEAN /\ leaked \subseteq Pools
    BY DEF Init
  <2>3. QED
    BY <2>1, <2>2, NoShapeOK DEF Init, TypeOK, NoGrant, Modes
<1>2. TypeOK /\ [Next]_vars => TypeOK'
  <2> SUFFICES ASSUME TypeOK, [Next]_vars PROVE TypeOK'
    OBVIOUS
  <2>1. CASE Get
    <3>1. PICK ns \in NodeSets, shape \in Shapes, mode \in Modes, res \in {NoPool} \cup Pools :
            /\ GetAveoPool(ns, shape, mode, res)
            /\ grant' = [nodes |-> ns, req |-> shape, mode |-> mode, pool |-> res]
      BY <2>1 DEF Get
    <3>2. SessionTypeOK'
      BY <3>1, CallTypes, SessionAssumption DEF TypeOK
    <3>3. oom' \in BOOLEAN /\ leaked' \subseteq Pools
      BY <2>1 DEF Get, TypeOK
    <3>4. QED
      BY <3>1, <3>2, <3>3, SessionAssumption DEF TypeOK
  <2>2. CASE Shutdown
    BY <2>2, StopFree, NoShapeOK
       DEF TypeOK, SessionTypeOK, Shutdown, ShutdownSessions, NoEntry, NoGrant, Modes
  <2>3. CASE UNCHANGED vars
    BY <2>3 DEF vars, sessionVars, TypeOK, SessionTypeOK
  <2>4. QED
    BY <2>1, <2>2, <2>3 DEF Next
<1>3. QED
  BY <1>1, <1>2, PTL DEF Spec

-----------------------------------------------------------------------------
(* What entry records and what the device holds, after any failures.       *)
RecordOK ==
  /\ entry.pool = NoPool => entry.nodes = {}
  /\ EntryIsOpen
  /\ \A p \in Pools : pstate[p] = "unused" => cap[p] = NoBuffers
  /\ \A n \in entry.nodes :
       cap[entry.pool][n] = NoShape \/
         (cap[entry.pool][n].m > 0 /\ Covers(cap[entry.pool][n], entry.pin))

LEMMA RecordFits == ASSUME SessionTypeOK, RecordOK PROVE BuffersGoneOrFit
<1> SUFFICES ASSUME NEW n \in entry.nodes, cap[entry.pool][n] # NoShape,
                    NEW shape \in Shapes, Covers(entry.pin, shape)
             PROVE  Fits(shape, cap[entry.pool][n])
  BY DEF BuffersGoneOrFit
<1>1. entry.pool \in Pools /\ n \in Nodes /\ entry.pin \in Shape /\ shape \in Shape
  BY SessionAssumption DEF RecordOK, SessionTypeOK
<1>2. cap[entry.pool][n] \in Shape
  BY <1>1 DEF SessionTypeOK
<1>3. cap[entry.pool][n].m > 0 /\ Covers(cap[entry.pool][n], entry.pin)
  BY DEF RecordOK
<1>4. QED
  BY <1>1, <1>2, <1>3, CoversTransitive, CoversFits

(* A new pin on the recorded pool, whether pin_all ends or raises at a     *)
(* node, leaves each buffer gone, or as it was, or at the joined shape.    *)
LEMMA CallRecord ==
  ASSUME SessionTypeOK, RecordOK, NEW ns \in SUBSET Nodes, NEW shape \in Shape, NEW mode,
         NEW res \in {NoPool} \cup Pools, GetAveoPool(ns, shape, mode, res)
  PROVE  RecordOK'
<1>0. /\ ns \in SUBSET Nodes /\ shape \in Shape /\ entry.pin \in Shape
      /\ cap \in [Pools -> [Nodes -> Shape]]
      /\ pstate \in [Pools -> {"unused", "open", "closed"}]
      /\ entry \in [nodes : SUBSET Nodes, pool : {NoPool} \cup Pools, pin : Shape]
  BY SessionAssumption DEF SessionTypeOK
<1>00. Covers(shape, shape)
  BY <1>0 DEF Covers, Shape
<1>1. CASE Reuse(ns, shape, res) \/ StrictRaises(ns, shape, mode, res)
  BY <1>1 DEF Reuse, StrictRaises, sessionVars, RecordOK, EntryIsOpen
<1>2. CASE Grow(ns, shape, mode, res) \/ GrowFails(ns, shape, mode, res)
  <2> DEFINE top == Join(shape, entry.pin)
  <2>1. /\ entry.pool \in Pools /\ entry.nodes = ns /\ pstate[entry.pool] = "open"
        /\ pstate' = pstate /\ entry'.nodes = ns /\ entry'.pool = entry.pool
    BY <1>0, <1>2 DEF Grow, GrowFails, Matches, RecordOK, EntryIsOpen
  <2>2. top \in Shape /\ top.m > 0 /\ Covers(top, top) /\ Covers(top, entry.pin)
    <3>1. shape.m > 0
      BY <1>2 DEF Grow, GrowFails, MustGrow
    <3>2. QED
      BY <1>0, <3>1 DEF Join, Larger, Covers, Shape
  <2>3. \A p \in Pools : p # entry.pool => cap'[p] = cap[p]
    BY <1>0, <1>2 DEF Grow, GrowFails
  <2>4. \A n \in ns : cap'[entry.pool][n] = NoShape \/
           (cap'[entry.pool][n].m > 0 /\ Covers(cap'[entry.pool][n], entry'.pin))
    <3>1. CASE Grow(ns, shape, mode, res)
      <4>1. cap'[entry.pool] = PinnedAll(cap[entry.pool], ns, top) /\ entry'.pin = top
        BY <1>0, <2>1, <3>1 DEF Grow
      <4>2. QED
        BY <1>0, <2>2, <4>1 DEF PinnedAll
    <3>2. CASE GrowFails(ns, shape, mode, res)
      <4>1. PICK f \in ns : cap'[entry.pool] = PinFailed(cap[entry.pool], ns, top, f)
        BY <1>0, <2>1, <3>2 DEF GrowFails
      <4>2. entry' = entry
        BY <3>2 DEF GrowFails
      <4>3. QED
        BY <1>0, <2>1, <2>2, <4>1, <4>2 DEF PinFailed, RecordOK
    <3>3. QED
      BY <1>2, <3>1, <3>2
  <2>5. QED
    BY <2>1, <2>3, <2>4, PoolRange DEF RecordOK, EntryIsOpen
<1>3. CASE Replace(ns, shape, res)
  <2>1. /\ res \in Pools /\ pstate[res] = "unused" /\ res # entry.pool
        /\ cap[res] = NoBuffers /\ FreeEntry[res] = NoBuffers
        /\ entry' = [nodes |-> ns, pool |-> res, pin |-> shape]
    BY <1>3, PoolRange DEF Replace, Fresh, RecordOK, EntryIsOpen, FreeEntry
  <2>2. /\ \A p \in Pools : pstate'[p] = IF p = res THEN "open" ELSE StopEntry[p]
        /\ \A p \in Pools : p # res => cap'[p] = FreeEntry[p]
        /\ cap'[res] = IF shape.m > 0 THEN PinnedAll(NoBuffers, ns, shape) ELSE NoBuffers
    BY <1>3, <2>1 DEF Replace, StopEntry, FreeEntry
  <2>3. \A n \in ns : cap'[res][n] = NoShape \/ (cap'[res][n].m > 0 /\ Covers(cap'[res][n], shape))
    BY <1>0, <1>00, <2>2 DEF PinnedAll, NoBuffers
  <2>4. \A p \in Pools : pstate'[p] = "unused" => cap'[p] = NoBuffers
    BY <2>1, <2>2 DEF StopEntry, FreeEntry, RecordOK
  <2>5. QED
    BY <2>1, <2>2, <2>3, <2>4, PoolRange DEF RecordOK, EntryIsOpen
<1>4. CASE StartFails(ns, res)
  BY <1>4 DEF StartFails, StopEntry, FreeEntry, RecordOK, EntryIsOpen, NoEntry
<1>5. CASE FirstPinFails(ns, shape, res)
  <2>1. PICK p \in Pools, f \in ns :
          /\ pstate' = [StopEntry EXCEPT ![p] = "open"]
          /\ cap' = [FreeEntry EXCEPT ![p] = PinFailed(@, ns, shape, f)]
          /\ entry' = NoEntry
    BY <1>5 DEF FirstPinFails
  <2>2. \A q \in Pools : q # p => pstate'[q] = StopEntry[q] /\ cap'[q] = FreeEntry[q]
    BY <2>1 DEF StopEntry, FreeEntry
  <2>3. pstate'[p] = "open"
    BY <2>1 DEF StopEntry
  <2>4. QED
    BY <2>1, <2>2, <2>3 DEF StopEntry, FreeEntry, RecordOK, EntryIsOpen, NoEntry
<1>6. QED
  BY <1>1, <1>2, <1>3, <1>4, <1>5 DEF GetAveoPool

LEMMA RecordInvariant == Spec => [](TypeOK /\ RecordOK)
<1>1. Init => RecordOK
  BY DEF Init, SessionInit, RecordOK, EntryIsOpen, NoEntry, NoBuffers
<1>2. TypeOK /\ RecordOK /\ [Next]_vars => RecordOK'
  <2> SUFFICES ASSUME TypeOK, RecordOK, [Next]_vars PROVE RecordOK'
    OBVIOUS
  <2>1. CASE Get
    BY <2>1, CallRecord, SessionAssumption DEF Get, TypeOK
  <2>2. CASE Shutdown
    BY <2>2 DEF Shutdown, ShutdownSessions, StopEntry, FreeEntry, RecordOK,
                EntryIsOpen, NoEntry
  <2>3. CASE UNCHANGED vars
    BY <2>3 DEF vars, sessionVars, RecordOK, EntryIsOpen
  <2>4. QED
    BY <2>1, <2>2, <2>3 DEF Next
<1>3. QED
  BY <1>1, <1>2, TypeCorrect, PTL DEF Spec

(* Whatever allocations and starts have failed, a device buffer behind the *)
(* recorded pin is gone or takes every request the record lets through.    *)
THEOREM BuffersSound == Spec => []BuffersGoneOrFit
<1>1. TypeOK /\ RecordOK => BuffersGoneOrFit
  BY RecordFits DEF TypeOK
<1>2. QED
  BY RecordInvariant, <1>1, PTL

-----------------------------------------------------------------------------
(* Without a failed allocation the record is exact: only its pool is open  *)
(* and a recorded pin is on every node.                                    *)
SessionExact ==
  /\ OnlyEntryOpen
  /\ entry.pin.m > 0 => \A n \in entry.nodes : cap[entry.pool][n].m > 0

(* The pool that was returned is the recorded one, on these nodes, pinned  *)
(* for what was asked.                                                     *)
Granted(pool, ns, shape) ==
  /\ pool = entry.pool /\ ns = entry.nodes
  /\ shape.m > 0 => Covers(entry.pin, shape) /\ entry.pin.m > 0

LEMMA CallExact ==
  ASSUME SessionTypeOK, RecordOK, SessionExact,
         NEW ns \in SUBSET Nodes, NEW shape \in Shape, NEW mode,
         NEW res \in {NoPool} \cup Pools, GetAveoPool(ns, shape, mode, res),
         ~GrowFails(ns, shape, mode, res), ~FirstPinFails(ns, shape, res)
  PROVE  SessionExact' /\ (res # NoPool => Granted(res, ns, shape)')
<1>0. /\ cap \in [Pools -> [Nodes -> Shape]] /\ entry.pin \in Shape
      /\ pstate \in [Pools -> {"unused", "open", "closed"}]
      /\ entry \in [nodes : SUBSET Nodes, pool : {NoPool} \cup Pools, pin : Shape]
  BY DEF SessionTypeOK
<1>1. CASE Reuse(ns, shape, res)
  <2>1. shape.m > 0 => Covers(entry.pin, shape) /\ entry.pin.m > 0
    BY <1>0, <1>1 DEF Reuse, MustGrow, Covers, Shape
  <2>2. QED
    BY <1>1, <2>1 DEF Reuse, Matches, sessionVars, SessionExact, Granted, OnlyEntryOpen
<1>2. CASE StrictRaises(ns, shape, mode, res)
  BY <1>2 DEF StrictRaises, sessionVars, SessionExact, OnlyEntryOpen
<1>3. CASE Grow(ns, shape, mode, res)
  <2> DEFINE top == Join(shape, entry.pin)
  <2>1. /\ entry.pool \in Pools /\ entry.nodes = ns /\ res = entry.pool
        /\ pstate' = pstate /\ entry'.nodes = ns /\ entry'.pool = entry.pool
        /\ entry'.pin = top /\ cap'[entry.pool] = PinnedAll(cap[entry.pool], ns, top)
    BY <1>0, <1>3 DEF Grow, Matches
  <2>2. Covers(top, shape) /\ top.m > 0
    <3>1. shape.m > 0
      BY <1>3 DEF Grow, MustGrow
    <3>2. QED
      BY <1>0, <3>1 DEF Join, Larger, Covers, Shape
  <2>3. \A n \in ns : cap'[entry.pool][n] = top
    BY <1>0, <2>1 DEF PinnedAll
  <2>4. QED
    BY <2>1, <2>2, <2>3 DEF SessionExact, Granted, OnlyEntryOpen
<1>4. CASE Replace(ns, shape, res)
  <2>1. /\ res \in Pools /\ entry' = [nodes |-> ns, pool |-> res, pin |-> shape]
        /\ \A p \in Pools : pstate'[p] = IF p = res THEN "open" ELSE StopEntry[p]
        /\ shape.m > 0 => cap'[res] = PinnedAll(FreeEntry[res], ns, shape)
    BY <1>4 DEF Replace, Fresh, StopEntry, FreeEntry
  <2>2. OnlyEntryOpen'
    BY <2>1 DEF StopEntry, SessionExact, OnlyEntryOpen
  <2>3. shape.m > 0 => \A n \in ns : cap'[res][n] = shape
    BY <1>0, <2>1 DEF PinnedAll
  <2>4. Covers(shape, shape)
    BY DEF Covers, Shape
  <2>5. QED
    BY <2>1, <2>2, <2>3, <2>4 DEF SessionExact, Granted
<1>5. CASE StartFails(ns, res)
  BY <1>5, NoShapeOK DEF StartFails, StopEntry, SessionExact, OnlyEntryOpen, NoEntry
<1>6. QED
  BY <1>1, <1>2, <1>3, <1>4, <1>5 DEF GetAveoPool

(* An open pool that was granted takes the operands it was asked for.      *)
LEMMA GrantedFits ==
  ASSUME SessionTypeOK, RecordOK, SessionExact, NEW pool \in Pools, NEW ns, NEW n \in ns,
         NEW shape \in Shape, shape.m > 0, Granted(pool, ns, shape)
  PROVE  pstate[pool] = "open" /\ Fits(shape, cap[pool][n])
<1>1. /\ n \in entry.nodes /\ pool = entry.pool
      /\ Covers(entry.pin, shape) /\ entry.pin.m > 0
  BY DEF Granted
<1>2. n \in Nodes /\ entry.pin \in Shape /\ cap[pool][n] \in Shape
  BY <1>1 DEF SessionTypeOK
<1>3. cap[pool][n].m > 0 /\ Covers(cap[pool][n], entry.pin)
  BY <1>1, NoShapeOK DEF RecordOK, SessionExact
<1>4. pstate[pool] = "open"
  BY <1>1, PoolRange DEF RecordOK, EntryIsOpen
<1>5. QED
  BY <1>1, <1>2, <1>3, <1>4, CoversTransitive, CoversFits

(* shutdown_sessions leaves nothing open, and nothing recorded.            *)
LEMMA ShutdownExact ==
  ASSUME SessionTypeOK, RecordOK, SessionExact, ShutdownSessions
  PROVE  SessionTypeOK' /\ RecordOK' /\ SessionExact' /\ entry' = NoEntry
<1>1. SessionTypeOK'
  BY StopFree, NoShapeOK DEF SessionTypeOK, ShutdownSessions, NoEntry
<1>2. RecordOK' /\ SessionExact'
  BY NoShapeOK DEF ShutdownSessions, StopEntry, FreeEntry, RecordOK, SessionExact,
                   OnlyEntryOpen, EntryIsOpen, NoEntry
<1>3. QED
  BY <1>1, <1>2 DEF ShutdownSessions

(* The last pool returned was granted.                                     *)
RecordExact ==
  SessionExact /\ (grant.pool # NoPool => Granted(grant.pool, grant.nodes, grant.req))

LEMMA ExactInvariant == Spec => [](TypeOK /\ RecordOK /\ (oom \/ RecordExact))
<1>1. Init => RecordExact
  BY NoShapeOK
     DEF Init, SessionInit, RecordExact, SessionExact, OnlyEntryOpen, NoEntry, NoGrant
<1>2. (TypeOK /\ RecordOK) /\ (oom \/ RecordExact) /\ [Next]_vars => (oom \/ RecordExact)'
  <2> SUFFICES ASSUME TypeOK, RecordOK, oom \/ RecordExact, [Next]_vars, ~oom'
               PROVE  RecordExact'
    OBVIOUS
  <2>1. CASE Get
    <3>1. PICK ns \in NodeSets, shape \in Shapes, mode \in Modes, res \in {NoPool} \cup Pools :
            /\ GetAveoPool(ns, shape, mode, res)
            /\ grant' = [nodes |-> ns, req |-> shape, mode |-> mode, pool |-> res]
            /\ oom' = (oom \/ GrowFails(ns, shape, mode, res) \/ FirstPinFails(ns, shape, res))
      BY <2>1 DEF Get
    <3>2. /\ RecordExact
          /\ ~GrowFails(ns, shape, mode, res) /\ ~FirstPinFails(ns, shape, res)
      BY <3>1
    <3>3. ns \in SUBSET Nodes /\ shape \in Shape
      BY SessionAssumption
    <3>4. QED
      BY <3>1, <3>2, <3>3, CallExact DEF TypeOK, RecordExact, Granted
  <2>2. CASE Shutdown
    BY <2>2, ShutdownExact DEF Shutdown, TypeOK, RecordExact, NoGrant
  <2>3. CASE UNCHANGED vars
    BY <2>3 DEF vars, sessionVars, RecordExact, SessionExact, Granted, OnlyEntryOpen
  <2>4. QED
    BY <2>1, <2>2, <2>3 DEF Next
<1>3. QED
  BY <1>1, <1>2, RecordInvariant, PTL DEF Spec

(* A VE node serves one session: no pool is forgotten while it is open,    *)
(* save one whose own first pin_all has raised (FirstPinFails).            *)
THEOREM SessionAlone == Spec => []OneSession
<1> DEFINE Known == \A p \in Pools : pstate[p] = "open" => p = entry.pool \/ p \in leaked
<1>1. Init => Known
  BY DEF Init, SessionInit
<1>2. TypeOK /\ Known /\ [Next]_vars => Known'
  <2> SUFFICES ASSUME TypeOK, Known, [Next]_vars PROVE Known'
    OBVIOUS
  <2>1. CASE Get
    <3>1. PICK ns \in NodeSets, shape \in Shapes, mode \in Modes, res \in {NoPool} \cup Pools :
            /\ GetAveoPool(ns, shape, mode, res)
            /\ leaked' = IF FirstPinFails(ns, shape, res)
                         THEN leaked \cup {p \in Pools : Fresh(p)} ELSE leaked
      BY <2>1 DEF Get
    <3>2. leaked \subseteq leaked'
      BY <3>1
    <3>3. CASE Reuse(ns, shape, res) \/ StrictRaises(ns, shape, mode, res)
      BY <3>2, <3>3 DEF Reuse, StrictRaises, sessionVars
    <3>4. CASE Grow(ns, shape, mode, res) \/ GrowFails(ns, shape, mode, res)
      <4>1. pstate' = pstate /\ entry'.pool = entry.pool
        BY <3>4 DEF Grow, GrowFails, TypeOK, SessionTypeOK
      <4>2. QED
        BY <3>2, <4>1
    <3>5. CASE Replace(ns, shape, res)
      BY <3>2, <3>5 DEF Replace, StopEntry, TypeOK, SessionTypeOK
    <3>6. CASE StartFails(ns, res)
      BY <3>2, <3>6 DEF StartFails, StopEntry
    <3>7. CASE FirstPinFails(ns, shape, res)
      <4>1. PICK p \in Pools : Fresh(p) /\ pstate' = [StopEntry EXCEPT ![p] = "open"]
        BY <3>7 DEF FirstPinFails
      <4>2. \A q \in Pools : q # p => pstate'[q] = StopEntry[q]
        BY <4>1 DEF StopEntry
      <4>3. p \in leaked'
        BY <3>1, <3>7, <4>1
      <4>4. QED
        BY <3>2, <4>2, <4>3 DEF StopEntry
    <3>8. QED
      BY <3>1, <3>3, <3>4, <3>5, <3>6, <3>7 DEF GetAveoPool
  <2>2. CASE Shutdown
    BY <2>2 DEF Shutdown, ShutdownSessions, StopEntry
  <2>3. CASE UNCHANGED vars
    BY <2>3 DEF vars, sessionVars
  <2>4. QED
    BY <2>1, <2>2, <2>3 DEF Next
<1>3. RecordOK /\ Known => OneSession
  BY DEF RecordOK, OneSession
<1>4. QED
  BY <1>1, <1>2, <1>3, RecordInvariant, PTL DEF Spec

(* "grow or reject pin capacity": every pool get_aveo_pool returns is open *)
(* and takes the shape it was asked for, on every node, until an           *)
(* allocation fails.                                                       *)
THEOREM GrantsFit == Spec => []GrantFitsUntilOom
<1>1. TypeOK /\ RecordOK /\ (oom \/ RecordExact) => GrantFitsUntilOom
  <2> SUFFICES ASSUME TypeOK, RecordOK, RecordExact, grant.pool # NoPool
               PROVE  /\ pstate[grant.pool] = "open"
                      /\ grant.req.m > 0 =>
                           \A n \in grant.nodes : Fits(grant.req, cap[grant.pool][n])
    BY DEF GrantFitsUntilOom, GrantFits
  <2>1. pstate[grant.pool] = "open"
    BY DEF RecordOK, RecordExact, Granted, EntryIsOpen
  <2>2. ASSUME grant.req.m > 0, NEW n \in grant.nodes
        PROVE  Fits(grant.req, cap[grant.pool][n])
    BY <2>2, GrantedFits DEF RecordExact, TypeOK
  <2>3. QED
    BY <2>1, <2>2
<1>2. QED
  BY ExactInvariant, <1>1, PTL

-----------------------------------------------------------------------------
(* The job server.                                                         *)

(* The job lock is held by the thread that is in a job, and by no other.   *)
LockInv == \A c \in Conns : cpc[c] \in InJob <=> jlock = c

(* Nobody connects before the preload is done.                             *)
BootInv == mpc = "boot" => ~bound /\ \A c \in Conns : cpc[c] = "new"

(* A thread in a job has a request to run, and a GEMM to do until it ends. *)
OnVe == {"oneshot", "get", "gemm", "call", "using"}
RequestInv ==
  \A c \in Conns :
    /\ cpc[c] \in {"lock"} \cup InJob => req[c] \in Requests /\ req[c].op = "run"
    /\ cpc[c] \in {"job"} \cup OnVe => left[c] > 0
    /\ cpc[c] \in OnVe => req[c].path = "aveo"

ControlInv == ServerTypeOK /\ LockInv /\ BootInv /\ RequestInv

LEMMA RequestRange ==
  \A r \in Requests :
    /\ r.node \in Nodes /\ r.shape \in Shape /\ Gemms(r) \in 1..(Batches + 1)
    /\ r.path \in {"host", "raises", "aveo"} /\ r.oneshot \in BOOLEAN
    /\ r.op = "run" /\ r.path = "aveo" => r.shape.m > 0
<1>1. Batches \in Nat \ {0}
  BY JobServerAssumption
<1>2. \A r \in Requests : r \in Request
  BY JobServerAssumption
<1>3. QED
  BY <1>1, <1>2, JobServerAssumption DEF Request, Gemms

LEMMA NoRequestFresh == NoRequest.op = "none"
  BY DEF NoRequest

(* A call of the session, or none, leaves its types alone.                 *)
LEMMA ShutdownTypes == ASSUME SessionTypeOK, ShutdownSessions PROVE SessionTypeOK'
  BY StopFree, NoShapeOK DEF SessionTypeOK, ShutdownSessions, NoEntry

LEMMA StutterTypes == ASSUME SessionTypeOK, UNCHANGED sessionVars PROVE SessionTypeOK'
  BY DEF SessionTypeOK, sessionVars

(* The shape of a GEMM and the nodes of a job are what a call takes.       *)
LEMMA GemmTypes ==
  ASSUME ControlInv, NEW c \in Conns, cpc[c] \in OnVe
  PROVE  /\ {req[c].node} \in SUBSET Nodes
         /\ req[c].shape \in Shape /\ req[c].shape.m > 0
         /\ GemmShape(c) \in Shape /\ GemmShape(c).m > 0
<1>1. req[c] \in Requests /\ req[c].op = "run" /\ req[c].path = "aveo"
  BY DEF ControlInv, RequestInv, OnVe, InJob
<1>2. /\ {req[c].node} \in SUBSET Nodes
      /\ req[c].shape \in Shape /\ req[c].shape.m > 0
  BY <1>1, RequestRange
<1>3. [m |-> 1, n |-> 1, k |-> 1] \in Shape
  BY DEF Shape
<1>4. QED
  BY <1>2, <1>3 DEF GemmShape

LEMMA NextTypes == ASSUME ControlInv, ServerNext PROVE SessionTypeOK'
<1>1. SessionTypeOK
  BY DEF ControlInv, ServerTypeOK
<1>2. CASE Boot
  <2>1. {HomeNode} \in SUBSET Nodes /\ Preload \in Shape
    BY JobServerAssumption
  <2>2. QED
    BY <1>1, <1>2, <2>1, CallTypes, StutterTypes DEF Boot
<1>3. ASSUME NEW c \in Conns, PinJob(c) \/ GemmGet(c) PROVE SessionTypeOK'
  <2>1. cpc[c] \in OnVe
    BY <1>3 DEF PinJob, GemmGet, OnVe
  <2>2. CASE PinJob(c)
    BY <1>1, <2>1, <2>2, GemmTypes, CallTypes DEF PinJob
  <2>3. CASE GemmGet(c)
    BY <1>1, <2>1, <2>3, GemmTypes, CallTypes DEF GemmGet
  <2>4. QED
    BY <1>3, <2>2, <2>3
<1>4. ASSUME NEW c \in Conns, BeginJob(c) \/ EndJob(c) PROVE SessionTypeOK'
  BY <1>1, <1>4, ShutdownTypes, StutterTypes DEF BeginJob, EndJob
<1>5. CASE MainShutdown
  BY <1>1, <1>5, ShutdownTypes DEF MainShutdown
<1>6. QED
  BY <1>1, <1>2, <1>3, <1>4, <1>5, StutterTypes
     DEF ServerNext, MainStep, Thread, Client, CheckStop, Accept, AcceptTimesOut,
         Signal, CloseListener, Connect, Send, HangUp, Control, Queue, Lock,
         OneshotEnds, GemmCall, GemmEnds, CallCrashes, JobRaises, Reply

LEMMA ControlInit == JobServerInit => ControlInv
<1> SUFFICES ASSUME JobServerInit PROVE ControlInv
  OBVIOUS
<1>1. SessionTypeOK
  BY NoShapeOK DEF JobServerInit, SessionInit, SessionTypeOK, NoEntry
<1>2. stop \in BOOLEAN /\ bound \in BOOLEAN
  BY DEF JobServerInit
<1>3. ServerTypeOK
  BY <1>1, <1>2, JobServerAssumption DEF JobServerInit, ServerTypeOK, ConnPc
<1>4. QED
  BY <1>3, JobServerAssumption
     DEF JobServerInit, ControlInv, LockInv, BootInv, RequestInv, InJob, OnVe

(* A step of the main thread or of a signal starts no job and ends none.   *)
LEMMA ControlMain ==
  ASSUME ControlInv, MainStep \/ Signal, SessionTypeOK'
  PROVE  ControlInv'
<1> USE DEF ControlInv, ServerTypeOK, LockInv, BootInv, RequestInv, ConnPc, InJob, OnVe
<1>1. CASE Boot
  BY <1>1 DEF Boot
<1>2. CASE CheckStop
  BY <1>2 DEF CheckStop
<1>3. CASE Accept
  BY <1>3 DEF Accept, Goto
<1>4. CASE AcceptTimesOut
  BY <1>4 DEF AcceptTimesOut
<1>5. CASE CloseListener
  BY <1>5 DEF CloseListener
<1>6. CASE MainShutdown
  BY <1>6 DEF MainShutdown
<1>7. CASE Signal
  BY <1>7 DEF Signal
<1>8. QED
  BY <1>1, <1>2, <1>3, <1>4, <1>5, <1>6, <1>7 DEF MainStep

LEMMA ControlClient ==
  ASSUME ControlInv, NEW c \in Conns, Client(c), SessionTypeOK'
  PROVE  ControlInv'
<1> USE DEF ControlInv, ServerTypeOK, LockInv, BootInv, RequestInv, ConnPc, InJob, OnVe, Goto
<1>1. CASE Connect(c)
  BY <1>1 DEF Connect
<1>2. CASE Send(c)
  BY <1>2 DEF Send
<1>3. CASE HangUp(c)
  BY <1>3 DEF HangUp
<1>4. QED
  BY <1>1, <1>2, <1>3 DEF Client

(* A thread takes a free lock only, and gives it back when its job is over.*)
LEMMA ControlThread ==
  ASSUME ControlInv, NEW c \in Conns, Thread(c), SessionTypeOK'
  PROVE  ControlInv'
<1> USE JobServerAssumption
    DEF ControlInv, ServerTypeOK, LockInv, BootInv, RequestInv, ConnPc, InJob, OnVe, Goto
<1>1. CASE Control(c)
  <2>1. stop' \in BOOLEAN
    BY <1>1 DEF Control
  <2>2. QED
    BY <1>1, <2>1 DEF Control
<1>2. CASE Queue(c)
  BY <1>2, NoRequestFresh DEF Queue
<1>3. CASE Lock(c)
  <2>1. Gemms(req[c]) \in 1..(Batches + 1)
    BY <1>3, RequestRange DEF Lock
  <2>2. QED
    BY <1>3, <2>1 DEF Lock
<1>4. CASE BeginJob(c)
  <2>1. req[c].path \in {"host", "raises", "aveo"}
    BY <1>4, RequestRange DEF BeginJob
  <2>2. PICK pc \in {"end", "raise", "oneshot", "get"} :
          Goto(c, pc) /\ (pc \in {"oneshot", "get"} => req[c].path = "aveo")
    BY <1>4, <2>1 DEF BeginJob, OneshotFirst
  <2>3. QED
    BY <1>4, <2>2 DEF BeginJob
<1>5. CASE OneshotEnds(c)
  BY <1>5 DEF OneshotEnds
<1>6. CASE PinJob(c)
  BY <1>6 DEF PinJob
<1>7. CASE GemmGet(c)
  BY <1>7 DEF GemmGet
<1>8. CASE GemmCall(c)
  BY <1>8 DEF GemmCall
<1>9. CASE GemmEnds(c)
  BY <1>9 DEF GemmEnds
<1>10. CASE CallCrashes(c)
  BY <1>10 DEF CallCrashes
<1>11. CASE EndJob(c)
  BY <1>11 DEF EndJob, Respond
<1>12. CASE JobRaises(c)
  BY <1>12 DEF JobRaises, Respond
<1>13. CASE Reply(c)
  BY <1>13 DEF Reply
<1>14. QED
  BY <1>1, <1>2, <1>3, <1>4, <1>5, <1>6, <1>7, <1>8, <1>9, <1>10, <1>11, <1>12, <1>13
     DEF Thread

LEMMA ControlNext == ControlInv /\ [ServerNext \/ Exited]_allVars => ControlInv'
<1> SUFFICES ASSUME ControlInv, [ServerNext \/ Exited]_allVars PROVE ControlInv'
  OBVIOUS
<1>1. CASE ServerNext
  BY <1>1, NextTypes, ControlMain, ControlClient, ControlThread DEF ServerNext
<1>2. CASE UNCHANGED allVars
  <2>1. SessionTypeOK'
    BY <1>2, StutterTypes DEF allVars, ControlInv, ServerTypeOK
  <2>2. QED
    BY <1>2, <2>1 DEF allVars, serverVars, ControlInv, ServerTypeOK, LockInv, BootInv, RequestInv
<1>3. QED
  BY <1>1, <1>2 DEF Exited

LEMMA ControlInvariant == JobServerSpec => []ControlInv
  BY ControlInit, ControlNext, PTL DEF JobServerSpec

(* The types of the server's and of the session's variables, whatever      *)
(* fails.                                                                  *)
THEOREM ServerTypeCorrect == JobServerSpec => []ServerTypeOK
<1>1. ControlInv => ServerTypeOK
  BY DEF ControlInv
<1>2. QED
  BY <1>1, ControlInvariant, PTL

-----------------------------------------------------------------------------
(* The record of the session, its pools and its pins agree; the device     *)
(* runs no session beside ve_exec; while the server serves, the pool of a  *)
(* GEMM is the one it was granted, and no counted GEMM missed its pool.    *)
SessionInv == SessionTypeOK /\ RecordOK /\ SessionExact

JobInv ==
  \A c \in Conns :
    /\ cpc[c] = "oneshot" => entry.pool = NoPool
    /\ Serving /\ cpc[c] \in {"call", "using"} =>
         held[c] \in Pools /\ Granted(held[c], {req[c].node}, GemmShape(c))
    /\ Serving => bad[c] # "pool"

LEMMA StutterSession == ASSUME SessionInv, UNCHANGED sessionVars PROVE SessionInv'
  BY DEF SessionInv, SessionTypeOK, RecordOK, SessionExact, OnlyEntryOpen, EntryIsOpen,
         sessionVars

LEMMA ShutdownSession ==
  ASSUME SessionInv, ShutdownSessions PROVE SessionInv' /\ entry'.pool = NoPool
  BY ShutdownExact DEF SessionInv, NoEntry

LEMMA CallSession ==
  ASSUME "alloc" \notin SessionFaults, SessionInv,
         NEW ns \in SUBSET Nodes, NEW shape \in Shape, NEW mode,
         NEW res \in {NoPool} \cup Pools, GetAveoPool(ns, shape, mode, res)
  PROVE  SessionInv' /\ (res # NoPool => Granted(res, ns, shape)')
<1>1. ~GrowFails(ns, shape, mode, res) /\ ~FirstPinFails(ns, shape, res)
  BY DEF GrowFails, FirstPinFails
<1>2. QED
  BY <1>1, CallTypes, CallRecord, CallExact DEF SessionInv

(* What a GEMM was granted it can be computed with.                        *)
LEMMA GrantedComputes ==
  ASSUME ControlInv, SessionInv, JobInv, NEW c \in Conns, Serving, cpc[c] = "using"
  PROVE  Computes(c)
<1>1. held[c] \in Pools /\ Granted(held[c], {req[c].node}, GemmShape(c))
  BY DEF JobInv
<1>2. GemmShape(c) \in Shape /\ GemmShape(c).m > 0
  BY GemmTypes DEF OnVe
<1>3. QED
  BY <1>1, <1>2, GrantedFits DEF SessionInv, Computes

(* The steps that leave the session alone, but for a GEMM's own call.      *)
LEMMA JobStutter ==
  ASSUME ControlInv, SessionInv, JobInv, ServerNext, UNCHANGED sessionVars,
         \A c \in Conns : ~GemmGet(c)
  PROVE  JobInv'
<1> USE DEF ControlInv, ServerTypeOK, LockInv, BootInv, RequestInv, InJob, JobInv, Granted,
            GemmShape, Serving, Goto, sessionVars
<1>1. CASE MainStep \/ Signal
  BY <1>1 DEF MainStep, Signal, Boot, CheckStop, Accept, AcceptTimesOut,
              CloseListener, MainShutdown
<1>2. ASSUME NEW c \in Conns, Client(c) PROVE JobInv'
  BY <1>2 DEF Client, Connect, Send, HangUp
<1>3. ASSUME NEW c \in Conns, GemmEnds(c) PROVE JobInv'
  <2>1. Serving => Computes(c)
    BY <1>3, GrantedComputes DEF GemmEnds
  <2>2. QED
    BY <1>3, <2>1 DEF GemmEnds
<1>4. ASSUME NEW c \in Conns, Thread(c), ~GemmEnds(c) PROVE JobInv'
  <2>1. CASE Control(c) \/ Queue(c) \/ Lock(c) \/ Reply(c)
    BY <2>1 DEF Control, Queue, Lock, Reply
  <2>2. CASE BeginJob(c)
    <3>1. ~OneshotFirst(c) \/ entry'.pool = NoPool
      BY <2>2 DEF BeginJob, ShutdownSessions, NoEntry
    <3>2. QED
      BY <2>2, <3>1 DEF BeginJob
  <2>3. CASE OneshotEnds(c) \/ PinJob(c) \/ GemmCall(c) \/ CallCrashes(c)
    BY <2>3 DEF OneshotEnds, PinJob, GemmCall, CallCrashes
  <2>4. CASE EndJob(c) \/ JobRaises(c)
    BY <2>4 DEF EndJob, JobRaises, Respond
  <2>5. QED
    BY <1>4, <2>1, <2>2, <2>3, <2>4 DEF Thread
<1>5. QED
  BY <1>1, <1>2, <1>3, <1>4 DEF ServerNext

(* The steps that change the session: nobody but the thread they are of    *)
(* is in a job, or the server does not serve.                              *)
LEMMA JobCall ==
  ASSUME "alloc" \notin SessionFaults, ControlInv, SessionInv, JobInv, mpc # "exited",
         NEW c \in Conns, PinJob(c) \/ GemmGet(c)
  PROVE  SessionInv' /\ JobInv'
<1> USE DEF OnVe
<1>1. /\ {req[c].node} \in SUBSET Nodes
      /\ req[c].shape \in Shape /\ GemmShape(c) \in Shape
  BY GemmTypes DEF PinJob, GemmGet
<1>2. \A d \in Conns \ {c} : cpc[d] \notin InJob
  BY DEF PinJob, GemmGet, ControlInv, LockInv, InJob
<1>3. cpc \in [Conns -> ConnPc] /\ held \in [Conns -> {NoPool} \cup Pools]
  BY DEF ControlInv, ServerTypeOK
<1>4. CASE PinJob(c)
  <2>1. SessionInv'
    BY <1>1, <1>4, CallSession DEF PinJob
  <2>2. JobInv'
    BY <1>2, <1>3, <1>4 DEF PinJob, JobInv, InJob, Goto, Serving
  <2>3. QED
    BY <2>1, <2>2
<1>5. CASE GemmGet(c)
  <2>1. PICK p \in {NoPool} \cup Pools :
          /\ GetAveoPool({req[c].node}, GemmShape(c), req[c].mode, p)
          /\ held' = [held EXCEPT ![c] = p]
          /\ Goto(c, IF p = NoPool THEN "raise" ELSE "call")
    BY <1>5 DEF GemmGet
  <2>2. PICK ns \in SUBSET Nodes, shape \in Shape :
          ns = {req[c].node} /\ shape = GemmShape(c)
    BY <1>1
  <2>3. SessionInv' /\ (p # NoPool => Granted(p, ns, shape)')
    BY <2>1, <2>2, CallSession
  <2>4. JobInv'
    BY <1>2, <1>3, <1>5, <2>1, <2>2, <2>3
       DEF GemmGet, JobInv, Granted, GemmShape, InJob, Goto, Serving
  <2>5. QED
    BY <2>3, <2>4
<1>6. QED
  BY <1>4, <1>5

LEMMA JobShutdown ==
  ASSUME ControlInv, SessionInv, JobInv, ShutdownSessions,
         MainShutdown \/ \E c \in Conns : BeginJob(c) \/ EndJob(c)
  PROVE  SessionInv' /\ JobInv'
<1>1. SessionInv' /\ entry'.pool = NoPool
  BY ShutdownSession
<1>2. cpc \in [Conns -> ConnPc]
  BY DEF ControlInv, ServerTypeOK
<1>3. CASE MainShutdown
  BY <1>1, <1>3 DEF MainShutdown, JobInv, Serving
<1>4. ASSUME NEW c \in Conns, BeginJob(c) \/ EndJob(c) PROVE JobInv'
  <2>1. \A d \in Conns \ {c} : cpc[d] \notin InJob
    BY <1>4 DEF BeginJob, EndJob, ControlInv, LockInv, InJob
  <2>2. \A d \in Conns : cpc'[d] \notin {"call", "using"}
    BY <1>2, <1>4, <2>1 DEF BeginJob, EndJob, InJob, Goto
  <2>3. QED
    BY <1>1, <1>4, <2>2 DEF BeginJob, EndJob, Respond, JobInv, Serving
<1>5. QED
  BY <1>1, <1>3, <1>4

LEMMA JobNext ==
  ASSUME "alloc" \notin SessionFaults
  PROVE  ControlInv /\ (SessionInv /\ JobInv) /\ [ServerNext \/ Exited]_allVars
           => (SessionInv /\ JobInv)'
<1> SUFFICES ASSUME ControlInv, SessionInv, JobInv, [ServerNext \/ Exited]_allVars
             PROVE  SessionInv' /\ JobInv'
  OBVIOUS
<1>1. CASE ServerNext
  <2>1. CASE \E c \in Conns : PinJob(c) \/ GemmGet(c)
    BY <1>1, <2>1, JobCall DEF ServerNext
  <2>2. CASE Boot /\ Preload # NoShape
    <3>1. {HomeNode} \in SUBSET Nodes /\ Preload \in Shape
      BY JobServerAssumption
    <3>2. SessionInv'
      BY <2>2, <3>1, CallSession DEF Boot
    <3>3. JobInv'
      BY <2>2 DEF Boot, ControlInv, BootInv, JobInv, Serving
    <3>4. QED
      BY <3>2, <3>3
  <2>3. CASE /\ ShutdownSessions
             /\ MainShutdown \/ \E c \in Conns : BeginJob(c) \/ EndJob(c)
    BY <2>3, JobShutdown
  <2>4. CASE UNCHANGED sessionVars /\ \A c \in Conns : ~GemmGet(c)
    BY <1>1, <2>4, JobStutter, StutterSession
  <2>5. QED
    BY <1>1, <2>1, <2>2, <2>3, <2>4
       DEF ServerNext, MainStep, Thread, Client, Boot, CheckStop, Accept, AcceptTimesOut,
           Signal, CloseListener, MainShutdown, Connect, Send, HangUp, Control, Queue,
           Lock, BeginJob, OneshotEnds, GemmCall, GemmEnds, CallCrashes, EndJob,
           JobRaises, Respond, Reply
<1>2. CASE UNCHANGED allVars
  BY <1>2, StutterSession
     DEF allVars, serverVars, sessionVars, JobInv, Granted, GemmShape, Serving
<1>3. QED
  BY <1>1, <1>2 DEF Exited

LEMMA JobInvariant ==
  ASSUME "alloc" \notin SessionFaults
  PROVE  JobServerSpec => [](ControlInv /\ SessionInv /\ JobInv)
<1>1. JobServerInit => SessionInv /\ JobInv
  <2> SUFFICES ASSUME JobServerInit PROVE SessionInv /\ JobInv
    OBVIOUS
  <2>1. SessionTypeOK
    BY ControlInit DEF ControlInv, ServerTypeOK
  <2>2. SessionInv
    BY <2>1, NoShapeOK
       DEF JobServerInit, SessionInit, SessionInv, RecordOK, SessionExact, EntryIsOpen,
           OnlyEntryOpen, NoEntry, NoBuffers
  <2>3. QED
    BY <2>2 DEF JobServerInit, JobInv
<1>2. QED
  BY <1>1, JobNext, ControlInvariant, PTL DEF JobServerSpec

(* No other connection's job stops, replaces or pins anew the pool of a    *)
(* GEMM in flight, and its buffers take the operands: the job lock is held *)
(* from get_aveo_pool to the end of the call.                              *)
THEOREM GemmsKeepPools ==
  ASSUME "alloc" \notin SessionFaults PROVE JobServerSpec => []GemmKeepsPool
<1>1. ControlInv /\ SessionInv /\ JobInv => GemmKeepsPool
  BY GrantedComputes DEF GemmKeepsPool
<1>2. QED
  BY <1>1, JobInvariant, PTL

(* While ve_exec runs on a node no AVEO session is open on any: neither    *)
(* the recorded one, nor one the process has lost track of.                *)
THEOREM VeExecAlone ==
  ASSUME "alloc" \notin SessionFaults PROVE JobServerSpec => []OneshotAlone
<1>1. SessionInv /\ JobInv => OneshotAlone
  BY PoolRange DEF SessionInv, SessionExact, OnlyEntryOpen, JobInv, OneshotAlone
<1>2. QED
  BY <1>1, JobInvariant, PTL

(* A job that is answered "pass" did not count a GEMM whose pool was gone  *)
(* or too small: nothing but the device itself can have failed.            *)
THEOREM PassComputed ==
  ASSUME "alloc" \notin SessionFaults PROVE JobServerSpec => []PassIsComputed
<1>1. JobInv => PassIsComputed
  BY DEF JobInv, PassIsComputed
<1>2. QED
  BY <1>1, JobInvariant, PTL
=============================================================================
