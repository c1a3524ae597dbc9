--------------------------- MODULE PlanRunProofs ---------------------------
(***************************************************************************)
(* Theorems about PlanRun, for any VEs, shapes and backends, in three      *)
(* parts.  What the partition functions build is a tiling, for all extents *)
(* and any number of devices.  The pools of a process under its calls:     *)
(* IInv says which pool is referred to by whom (PoolsInv), and in which    *)
(* states of the calling thread a GEMM's own pool is there and shards run  *)
(* (RunInv).  What a GEMM that was cut into shards returns: every          *)
(* multiplication is one shard's (OneShard), so C is at all times what the *)
(* shards taken so far cover (Sums): ResultInv.                            *)
(***************************************************************************)
EXTENDS PlanRun, TLAPS, FiniteSetTheorems

-----------------------------------------------------------------------------
LEMMA DivMod ==
  ASSUME NEW a \in Nat, NEW b \in Nat \ {0}
  PROVE  /\ a \div b \in Nat /\ a % b \in Nat /\ a % b < b
         /\ a = b * (a \div b) + (a % b)
  OBVIOUS

LEMMA Distributes ==
  ASSUME NEW a \in Int, NEW b \in Int, NEW q \in Int
  PROVE  (a + b) * q = a * q + b * q /\ a * q \in Int
  OBVIOUS

LEMMA TimesMonotone ==
  ASSUME NEW a \in Nat, NEW b \in Nat, a <= b, NEW q \in Nat
  PROVE  a * q <= b * q
  OBVIOUS

LEMMA TimesCancels ==
  ASSUME NEW a \in Int, NEW b \in Int, NEW q \in Nat, a * q < b * q
  PROVE  a < b
<1>1. SUFFICES ASSUME b <= a PROVE b * q <= a * q
  OBVIOUS
<1>2. QED
  BY <1>1

LEMMA Quotient ==
  ASSUME NEW a \in Nat, NEW b \in Nat \ {0}
  PROVE  \E t \in Nat : t * b <= a /\ a < t * b + b
<1>1. PICK t \in Nat : t = a \div b
  BY DivMod
<1>2. a % b \in Nat /\ a % b < b /\ a = b * t + (a % b)
  BY <1>1, DivMod
<1>3. PICK l \in Nat : l = t * b /\ b * t = l
  OBVIOUS
<1>4. l <= a /\ a < l + b
  BY <1>2, <1>3
<1>5. QED
  BY <1>3, <1>4

(* What _split_extent computes with: parts of q, the first r one longer.   *)
CutIs(e, p, q, r) ==
  /\ r < p /\ e = p * q + r
  /\ \A i \in Nat : Cut(e, p, i) = i * q + (IF i < r THEN i ELSE r)

LEMMA CutForm ==
  ASSUME NEW e \in Nat \ {0}, NEW p \in 1..e
  PROVE  \E q \in Nat \ {0}, r \in Nat : CutIs(e, p, q, r)
<1>1. /\ e \div p \in Nat /\ e % p \in Nat /\ e % p < p
      /\ e = p * (e \div p) + (e % p)
  BY DivMod
<1>2. e \div p # 0
  BY <1>1
<1>3. CutIs(e, p, e \div p, e % p)
  BY <1>1 DEF Cut, CutIs
<1>4. QED
  BY <1>1, <1>2, <1>3

(* The cuts start at 0, end at the extent and grow with every part.        *)
LEMMA CutEnds ==
  ASSUME NEW e \in Nat \ {0}, NEW p \in 1..e
  PROVE  Cut(e, p, 0) = 0 /\ Cut(e, p, p) = e
<1>1. PICK q \in Nat \ {0}, r \in Nat : CutIs(e, p, q, r)
  BY CutForm
<1>2. /\ r < p /\ e = p * q + r
      /\ \A l \in Nat : Cut(e, p, l) = l * q + (IF l < r THEN l ELSE r)
  BY <1>1 DEF CutIs
<1>3. Cut(e, p, 0) = 0 * q + (IF 0 < r THEN 0 ELSE r)
  BY <1>2
<1>4. Cut(e, p, p) = p * q + (IF p < r THEN p ELSE r)
  BY <1>2
<1>5. QED
  BY <1>2, <1>3, <1>4

LEMMA CutGrows ==
  ASSUME NEW e \in Nat \ {0}, NEW p \in 1..e, NEW i \in Nat, NEW j \in Nat, i < j
  PROVE  Cut(e, p, i) \in Nat /\ Cut(e, p, j) \in Nat /\ Cut(e, p, i) < Cut(e, p, j)
<1>1. PICK q \in Nat \ {0}, r \in Nat : CutIs(e, p, q, r)
  BY CutForm
<1>2. /\ r < p /\ e = p * q + r
      /\ \A l \in Nat : Cut(e, p, l) = l * q + (IF l < r THEN l ELSE r)
  BY <1>1 DEF CutIs
<1>3. i * q \in Nat /\ j * q \in Nat /\ (i + 1) * q = i * q + 1 * q /\ (i + 1) * q <= j * q
  <2>1. (i + 1) * q <= j * q
    BY TimesMonotone
  <2>2. QED
    BY <2>1, Distributes
<1>4. /\ Cut(e, p, i) = i * q + (IF i < r THEN i ELSE r)
      /\ Cut(e, p, j) = j * q + (IF j < r THEN j ELSE r)
  BY <1>2
<1>5. PICK iq \in Nat, jq \in Nat : iq = i * q /\ jq = j * q /\ iq + q <= jq
  BY <1>3
<1>6. QED
  BY <1>4, <1>5

LEMMA CutUpTo ==
  ASSUME NEW e \in Nat \ {0}, NEW p \in 1..e, NEW i \in 0..p
  PROVE  Cut(e, p, i) \in 0..e
<1>1. Cut(e, p, 0) = 0 /\ Cut(e, p, p) = e
  BY CutEnds
<1>2. CASE i = 0
  BY <1>1, <1>2
<1>3. CASE i = p
  BY <1>1, <1>3
<1>4. CASE 0 < i /\ i < p
  BY <1>1, <1>4, CutGrows
<1>5. QED
  BY <1>2, <1>3, <1>4

(* Every index lies between two cuts: among the longer parts, or after.    *)
LEMMA CutsReach ==
  ASSUME NEW e \in Nat \ {0}, NEW p \in 1..e, NEW x \in 0..(e - 1)
  PROVE  \E i \in 0..(p - 1) : Cut(e, p, i) <= x /\ x < Cut(e, p, i + 1)
<1>1. PICK q \in Nat \ {0}, r \in Nat : CutIs(e, p, q, r)
  BY CutForm
<1>2. /\ r < p /\ e = p * q + r
      /\ \A l \in Nat : Cut(e, p, l) = l * q + (IF l < r THEN l ELSE r)
  BY <1>1 DEF CutIs
<1>3. r * (q + 1) = r * q + r /\ r * q \in Nat
  OBVIOUS
<1>4. CASE x < r * (q + 1)
  <2>0. x \in Nat /\ q + 1 \in Nat \ {0}
    OBVIOUS
  <2>1. PICK t \in Nat : t * (q + 1) <= x /\ x < t * (q + 1) + (q + 1)
    BY <2>0, Quotient
  <2>2. /\ t * q \in Nat /\ t * (q + 1) = t * q + t /\ (t + 1) * q = t * q + q
    BY <2>1
  <2>3. t < r
    BY <1>4, <2>1, <2>2, TimesCancels
  <2>4. Cut(e, p, t) = t * q + t
    BY <1>2, <2>1, <2>3
  <2>5. Cut(e, p, t + 1) = (t + 1) * q + (t + 1)
    <3>1. Cut(e, p, t + 1) = (t + 1) * q + (IF t + 1 < r THEN t + 1 ELSE r)
      BY <1>2, <2>1
    <3>2. QED
      BY <2>1, <2>3, <3>1
  <2>6. t \in 0..(p - 1)
    BY <1>2, <2>1, <2>3
  <2>7. Cut(e, p, t) <= x /\ x < Cut(e, p, t + 1)
    BY <2>1, <2>2, <2>4, <2>5
  <2>8. QED
    BY <2>6, <2>7
<1>5. CASE r * (q + 1) <= x
  <2>1. PICK y \in Nat : y = x - r * (q + 1)
    BY <1>3, <1>5
  <2>2. PICK t \in Nat : t * q <= y /\ y < t * q + q
    BY Quotient
  <2>3. /\ t * q \in Nat /\ (p - r) * q = p * q - r * q
        /\ (r + t) * q = r * q + t * q /\ (r + t + 1) * q = r * q + t * q + q
    BY <1>2, <2>2
  <2>4. y < (p - r) * q
    <3>1. PICK pq \in Nat, rq \in Nat : pq = p * q /\ rq = r * q
      OBVIOUS
    <3>2. e = pq + r /\ r * (q + 1) = rq + r /\ (p - r) * q = pq - rq /\ x < e
      BY <1>2, <1>3, <2>3, <3>1
    <3>3. QED
      BY <2>1, <3>2
  <2>5. t < p - r
    BY <1>2, <2>2, <2>3, <2>4, TimesCancels
  <2>6. r + t \in 0..(p - 1) /\ r + t \in Nat /\ r + t + 1 \in Nat
    BY <1>2, <2>2, <2>5
  <2>7. Cut(e, p, r + t) = (r + t) * q + r /\ Cut(e, p, r + t + 1) = (r + t + 1) * q + r
    <3>1. Cut(e, p, r + t) = (r + t) * q + (IF r + t < r THEN r + t ELSE r)
      BY <1>2, <2>6
    <3>2. Cut(e, p, r + t + 1) = (r + t + 1) * q + (IF r + t + 1 < r THEN r + t + 1 ELSE r)
      BY <1>2, <2>6
    <3>3. QED
      BY <2>2, <3>1, <3>2
  <2>8. Cut(e, p, r + t) <= x /\ x < Cut(e, p, r + t + 1)
    BY <1>3, <2>1, <2>2, <2>3, <2>7
  <2>9. QED
    BY <2>6, <2>8
<1>6. QED
  BY <1>3, <1>4, <1>5

-----------------------------------------------------------------------------
(* Every part gets something, and every index of the extent is in exactly  *)
(* one part.                                                               *)
Tiles(cuts, e) ==
  /\ \A i \in DOMAIN cuts :
       cuts[i].lo \in 0..e /\ cuts[i].hi \in 0..e /\ cuts[i].lo < cuts[i].hi
  /\ \A x \in 0..(e - 1) : \E i \in DOMAIN cuts :
       \A j \in DOMAIN cuts : In(x, cuts[j]) <=> i = j

LEMMA SplitTiles ==
  ASSUME NEW e \in Nat \ {0}, NEW count \in Nat \ {0}
  PROVE  Tiles(SplitExtent(e, count), e)
<1>1. PICK p \in 1..e : p = PartsOf(e, count)
  BY DEF PartsOf
<1> DEFINE cuts == SplitExtent(e, count)
<1>2. /\ DOMAIN cuts = 1..p
      /\ \A i \in 1..p : cuts[i].lo = Cut(e, p, i - 1) /\ cuts[i].hi = Cut(e, p, i)
  BY <1>1 DEF SplitExtent, Span
<1>3. ASSUME NEW i \in 1..p
      PROVE  cuts[i].lo \in 0..e /\ cuts[i].hi \in 0..e /\ cuts[i].lo < cuts[i].hi
  <2>1. i \in 0..p /\ i - 1 \in 0..p /\ i - 1 \in Nat /\ i \in Nat /\ i - 1 < i
    OBVIOUS
  <2>2. Cut(e, p, i - 1) \in 0..e /\ Cut(e, p, i) \in 0..e
    BY <2>1, CutUpTo
  <2>3. Cut(e, p, i - 1) < Cut(e, p, i)
    BY <2>1, CutGrows
  <2>4. QED
    BY <1>2, <2>2, <2>3
<1>4. ASSUME NEW i \in 1..p, NEW j \in 1..p, i < j
      PROVE  cuts[i].hi <= cuts[j].lo
  <2>1. CASE i = j - 1
    BY <1>2, <1>3, <2>1
  <2>2. CASE i < j - 1
    <3>1. i \in Nat /\ j - 1 \in Nat
      OBVIOUS
    <3>2. Cut(e, p, i) < Cut(e, p, j - 1) /\ Cut(e, p, i) \in Nat /\ Cut(e, p, j - 1) \in Nat
      BY <2>2, <3>1, CutGrows
    <3>3. QED
      BY <1>2, <3>2
  <2>3. QED
    BY <1>4, <2>1, <2>2
<1>5. ASSUME NEW x \in 0..(e - 1)
      PROVE  \E i \in 1..p : \A j \in 1..p : In(x, cuts[j]) <=> i = j
  <2>1. PICK l \in 0..(p - 1) : Cut(e, p, l) <= x /\ x < Cut(e, p, l + 1)
    BY CutsReach
  <2>2. PICK i \in 1..p : i = l + 1 /\ l = i - 1
    OBVIOUS
  <2>3. cuts[i].lo <= x /\ x < cuts[i].hi
    BY <1>2, <2>1, <2>2
  <2>4. ASSUME NEW j \in 1..p, In(x, cuts[j])
        PROVE  i = j
    <3>1. cuts[j].lo <= x /\ x < cuts[j].hi
      BY <2>4 DEF In
    <3>2. CASE i < j
      BY <1>3, <1>4, <2>3, <3>1, <3>2
    <3>3. CASE j < i
      BY <1>3, <1>4, <2>3, <3>1, <3>3
    <3>4. QED
      BY <3>2, <3>3
  <2>5. In(x, cuts[i])
    BY <2>3 DEF In
  <2>6. QED
    BY <2>4, <2>5
<1>6. DOMAIN cuts = 1..p
  BY <1>2
<1> HIDE DEF cuts
<1>7. Tiles(cuts, e)
  <2>1. \A i \in DOMAIN cuts :
          cuts[i].lo \in 0..e /\ cuts[i].hi \in 0..e /\ cuts[i].lo < cuts[i].hi
    BY <1>3, <1>6
  <2>2. ASSUME NEW x \in 0..(e - 1)
        PROVE  \E i \in DOMAIN cuts : \A j \in DOMAIN cuts : In(x, cuts[j]) <=> i = j
    <3>1. PICK i \in 1..p : \A j \in 1..p : In(x, cuts[j]) <=> i = j
      BY <1>5
    <3>2. i \in DOMAIN cuts /\ \A j \in DOMAIN cuts : In(x, cuts[j]) <=> i = j
      BY <1>6, <3>1
    <3>3. QED
      BY <3>2
  <2>3. QED
    BY <2>1, <2>2 DEF Tiles
<1>8. QED
  BY <1>7 DEF cuts

-----------------------------------------------------------------------------
(* Whatever the strategy, the extents and the number of devices: what the  *)
(* partition functions build is a tiling, which validate accepts.          *)
THEOREM PlansAreTilings ==
  ASSUME NEW strategy \in Strategies, NEW backend, NEW devs, Len(devs) \in Nat \ {0},
         NEW m \in Nat \ {0}, NEW n \in Nat \ {0}, NEW k \in Nat \ {0}
  PROVE  Valid(MakePlan(strategy, m, n, k, devs, backend))
<1> DEFINE e == Extent(strategy, m, n, k)
           cuts == SplitExtent(e, Len(devs))
           p == MakePlan(strategy, m, n, k, devs, backend)
<1>1. e \in Nat \ {0}
  BY DEF Extent, Strategies
<1>2. Tiles(cuts, e)
  <2> HIDE DEF e
  <2>1. QED
    BY <1>1, SplitTiles
<1>3. /\ p.m = m /\ p.n = n /\ p.k = k /\ p.strategy = strategy
      /\ DOMAIN p.shards = DOMAIN cuts
      /\ \A i \in DOMAIN cuts :
           p.shards[i] = MakeShard(strategy, m, n, k, devs[i], cuts[i])
  BY DEF MakePlan
<1>4. ASSUME NEW i \in DOMAIN cuts
      PROVE  /\ CutOf(strategy, p.shards[i]) = cuts[i]
             /\ strategy # "row_blocks" => p.shards[i].rows = Span(0, m)
             /\ strategy # "col_blocks" => p.shards[i].cols = Span(0, n)
  <2>1. p.shards[i] = MakeShard(strategy, m, n, k, devs[i], cuts[i])
    BY <1>3
  <2> HIDE DEF p, cuts
  <2>2. CASE strategy = "row_blocks"
    BY <2>1, <2>2 DEF MakeShard, CutOf
  <2>3. CASE strategy = "col_blocks"
    BY <2>1, <2>3 DEF MakeShard, CutOf
  <2>4. CASE strategy = "k_split"
    BY <2>1, <2>4 DEF MakeShard, CutOf
  <2>5. QED
    BY <2>2, <2>3, <2>4 DEF Strategies
<1> HIDE DEF p, cuts
<1>5. Extent(p.strategy, p.m, p.n, p.k) = e
  BY <1>3
<1>6. ExactlyOnce(p)
  <2> HIDE DEF e
  <2>1. QED
    BY <1>2, <1>3, <1>4, <1>5 DEF ExactlyOnce, Tiles
<1>7. ASSUME NEW i \in DOMAIN p.shards
      PROVE  LET s == p.shards[i]
                 cut == CutOf(p.strategy, s)
             IN  /\ 0 <= cut.lo /\ cut.lo < cut.hi /\ cut.hi <= Extent(p.strategy, p.m, p.n, p.k)
                 /\ p.strategy # "row_blocks" => s.rows = Span(0, p.m)
                 /\ p.strategy # "col_blocks" => s.cols = Span(0, p.n)
  <2> HIDE DEF e
  <2>1. QED
    BY <1>1, <1>2, <1>3, <1>4, <1>5 DEF Tiles
<1>8. Valid(p)
  BY <1>3, <1>6, <1>7 DEF Valid
<1>9. QED
  BY <1>8 DEF p

-----------------------------------------------------------------------------
(* Five pools for four references: one is always unused.                   *)
LEMMA FreshUnused == Fresh \in Unused
<1>1. \E p \in Unused : \A q \in Unused : p <= q
  <2> DEFINE Min(p) == p \in Unused /\ \A q \in Unused : p <= q
  <2>1. Unused \subseteq 1..5
    BY DEF Unused, Pools
  <2>2. 1 \in Unused => Min(1)
    BY <2>1
  <2>3. 1 \notin Unused /\ 2 \in Unused => Min(2)
    BY <2>1
  <2>4. 1 \notin Unused /\ 2 \notin Unused /\ 3 \in Unused => Min(3)
    BY <2>1
  <2>5. 1 \notin Unused /\ 2 \notin Unused /\ 3 \notin Unused /\ 4 \in Unused => Min(4)
    BY <2>1
  <2>6. 1 \notin Unused /\ 2 \notin Unused /\ 3 \notin Unused /\ 4 \notin Unused => Min(5)
    BY DEF Unused, Pools
  <2>7. QED
    BY <2>2, <2>3, <2>4, <2>5, <2>6
<1>2. QED
  BY <1>1 DEF Fresh

LEMMA FreshIsNew ==
  Fresh \in Pools /\ Fresh # NoPool /\ Fresh \notin {shared, session, hold, own}
  BY FreshUnused DEF Unused, Pools, NoPool

-----------------------------------------------------------------------------
(* The pools, on their own.                                                *)
PoolsShaped ==
  /\ pool = [p \in Pools |-> pool[p]]
  /\ \A p \in Pools :
       pool[p] = [kind |-> pool[p].kind, ids |-> pool[p].ids, up |-> pool[p].up]

Apart ==
  /\ {shared, session, hold, own} \subseteq {NoPool} \cup Pools
  /\ session # NoPool => session # hold /\ session # own
  /\ hold # NoPool => hold # own

PoolsInv == PoolsShaped /\ Apart /\ WorkersOwned /\ SharedIsUp

LEMMA PoolsInitOK == PoolsInit => PoolsInv
  BY DEF PoolsInit, PoolsInv, PoolsShaped, Apart, WorkersOwned, SharedIsUp, NewPool, Pools, NoPool

LEMMA PoolsQuiet == PoolsInv /\ UNCHANGED poolVars => PoolsInv'
  BY DEF PoolsInv, PoolsShaped, Apart, WorkersOwned, SharedIsUp, poolVars

(* What starting, stopping and dropping leave of each pool.                *)
LEMMA PoolChanges ==
  ASSUME PoolsShaped, NEW p
  PROVE  /\ Stopped(p) = [q \in Pools |-> [kind |-> pool[q].kind, ids |-> pool[q].ids,
                                            up |-> IF q = p THEN {} ELSE pool[q].up]]
         /\ Dropped(p) = [q \in Pools |-> IF q = p THEN NewPool ELSE pool[q]]
  BY DEF PoolsShaped, Stopped, Dropped

LEMMA GetWorkerPoolOK ==
  ASSUME PoolsInv, NEW ids, GetWorkerPool(ids)
  PROVE  PoolsInv'
<1>1. CASE UNCHANGED poolVars
  BY <1>1, PoolsQuiet
<1>2. CASE ReplaceWorkers(ids) /\ session' # NoPool
  <2>1. /\ pool' = Started(Dropped(session), Fresh, "worker", ids)
        /\ shared' = Fresh /\ session' = Fresh /\ UNCHANGED <<hold, own>>
    BY <1>2 DEF ReplaceWorkers
  <2>2. /\ DOMAIN pool' = Pools
        /\ pool'[Fresh] = [kind |-> "worker", ids |-> ids, up |-> ids]
        /\ \A q \in Pools \ {Fresh} : pool'[q] = IF q = session THEN NewPool ELSE pool[q]
    BY <2>1, FreshIsNew DEF Started, Dropped
  <2>3. PoolsShaped'
    <3>1. \A q \in Pools :
            pool'[q] = [kind |-> pool'[q].kind, ids |-> pool'[q].ids, up |-> pool'[q].up]
      BY <2>2, FreshIsNew DEF PoolsInv, PoolsShaped, NewPool
    <3>2. pool' = [q \in Pools |-> pool'[q]]
      BY <2>1 DEF Started, Dropped
    <3>3. QED
      BY <3>1, <3>2 DEF PoolsShaped
  <2>4. Apart' /\ SharedIsUp'
    BY <2>1, <2>2, FreshIsNew DEF PoolsInv, Apart, SharedIsUp
  <2>5. WorkersOwned'
    BY <2>1, <2>2, FreshIsNew DEF PoolsInv, WorkersOwned, NewPool
  <2>6. QED
    BY <2>3, <2>4, <2>5 DEF PoolsInv
<1>3. CASE ReplaceWorkers(ids) /\ session' = NoPool
  <2>1. /\ pool' = Stopped(session) /\ UNCHANGED <<shared, hold, own>>
        /\ lost' = (lost \/ shared \in {session} \ {NoPool})
    BY <1>3, FreshIsNew DEF ReplaceWorkers, Fails
  <2>2. pool' = [q \in Pools |-> [kind |-> pool[q].kind, ids |-> pool[q].ids,
                                   up |-> IF q = session THEN {} ELSE pool[q].up]]
    BY <2>1, PoolChanges DEF PoolsInv
  <2>3. PoolsShaped'
    BY <2>2 DEF PoolsShaped
  <2>4. Apart' /\ WorkersOwned'
    BY <1>3, <2>1, <2>2 DEF PoolsInv, Apart, WorkersOwned
  <2>5. SharedIsUp'
    <3>1. SUFFICES ASSUME shared # NoPool, ~lost'
                   PROVE  shared = hold /\ pool'[hold].up = pool'[hold].ids
      BY <2>1 DEF SharedIsUp
    <3>2. ~lost /\ shared # session
      BY <2>1, <3>1
    <3>3. shared = hold /\ hold \in Pools /\ pool[hold].up = pool[hold].ids
      BY <3>1, <3>2 DEF PoolsInv, SharedIsUp, Apart
    <3>4. QED
      BY <2>2, <3>2, <3>3
  <2>6. QED
    BY <2>3, <2>4, <2>5 DEF PoolsInv
<1>4. QED
  BY <1>1, <1>2, <1>3 DEF GetWorkerPool

LEMMA ShutdownOK ==
  ASSUME PoolsInv, ShutdownWorkers
  PROVE  PoolsInv'
<1>1. /\ pool' = [q \in Pools |-> IF q = session THEN NewPool ELSE pool[q]]
      /\ shared' = NoPool /\ session' = NoPool /\ UNCHANGED <<hold, own, lost>>
  BY DEF ShutdownWorkers, Dropped
<1>2. PoolsShaped'
  BY <1>1 DEF PoolsInv, PoolsShaped, NewPool
<1>3. Apart' /\ WorkersOwned' /\ SharedIsUp'
  BY <1>1 DEF PoolsInv, Apart, WorkersOwned, SharedIsUp, NewPool
<1>4. QED
  BY <1>2, <1>3 DEF PoolsInv

(* A pool that is started keeps the others as they are.                    *)
LEMMA StartedOne ==
  ASSUME PoolsShaped, NEW kind, NEW ids
  PROVE  LET ps == Started(pool, Fresh, kind, ids)
         IN  /\ ps = [q \in Pools |-> ps[q]]
             /\ ps[Fresh] = [kind |-> kind, ids |-> ids, up |-> ids]
             /\ \A q \in Pools \ {Fresh} : ps[q] = pool[q]
  BY FreshIsNew DEF PoolsShaped, Started

LEMMA OpenHoldOK ==
  ASSUME PoolsInv, NEW kind, NEW ids, NEW installs \in BOOLEAN, OpenHold(kind, ids, installs)
  PROVE  PoolsInv'
<1>1. CASE /\ pool' = Started(pool, Fresh, kind, ids) /\ hold' = Fresh
           /\ shared' = (IF installs THEN Fresh ELSE shared)
           /\ lost' = (lost /\ ~installs) /\ UNCHANGED <<session, own>>
  <2>1. /\ pool' = [q \in Pools |-> pool'[q]]
        /\ pool'[Fresh] = [kind |-> kind, ids |-> ids, up |-> ids]
        /\ \A q \in Pools \ {Fresh} : pool'[q] = pool[q]
    BY <1>1, StartedOne DEF PoolsInv
  <2>2. PoolsShaped'
    BY <2>1 DEF PoolsInv, PoolsShaped
  <2>3. Apart' /\ WorkersOwned'
    <3>1. Apart'
      BY <1>1, FreshIsNew DEF PoolsInv, Apart
    <3>2. hold = NoPool
      BY DEF OpenHold
    <3>3. QED
      BY <1>1, <2>1, <3>1, <3>2 DEF PoolsInv, WorkersOwned, NoPool, Pools
  <2>4. SharedIsUp'
    <3>1. CASE installs
      BY <1>1, <2>1, <3>1 DEF SharedIsUp
    <3>2. CASE ~installs
      <4>1. hold = NoPool /\ shared' = shared /\ session' = session
        BY <1>1, <3>2 DEF OpenHold
      <4>2. SUFFICES ASSUME shared # NoPool, ~lost'
                     PROVE  shared = session /\ pool'[shared].up = pool'[shared].ids
        BY <4>1 DEF SharedIsUp
      <4>3. ~lost
        BY <1>1, <3>2, <4>2
      <4>4. shared = session /\ shared \in Pools /\ pool[shared].up = pool[shared].ids
        BY <4>1, <4>2, <4>3 DEF PoolsInv, SharedIsUp, Apart
      <4>5. QED
        BY <2>1, <4>4, FreshIsNew
    <3>3. QED
      BY <3>1, <3>2
  <2>5. QED
    BY <2>2, <2>3, <2>4 DEF PoolsInv
<1>2. CASE UNCHANGED poolVars
  BY <1>2, PoolsQuiet
<1>3. QED
  BY <1>1, <1>2 DEF OpenHold, Fails, poolVars

LEMMA CloseHoldOK ==
  ASSUME PoolsInv, NEW installed, installed = (shared = hold), CloseHold(installed)
  PROVE  PoolsInv'
<1>1. /\ hold # NoPool /\ hold' = NoPool /\ UNCHANGED <<session, own>>
      /\ pool' = [q \in Pools |-> IF q = hold THEN NewPool ELSE pool[q]]
      /\ shared = hold => shared' = NoPool
      /\ shared # hold => shared' = shared /\ (~lost' => ~lost)
  BY DEF CloseHold, Dropped
<1>2. PoolsShaped'
  BY <1>1 DEF PoolsInv, PoolsShaped, NewPool
<1>3. Apart' /\ WorkersOwned'
  BY <1>1 DEF PoolsInv, Apart, WorkersOwned, NewPool
<1>4. SharedIsUp'
  <2>1. SUFFICES ASSUME shared' # NoPool, ~lost'
                 PROVE  shared' = session /\ pool'[shared'].up = pool'[shared'].ids
    BY <1>1 DEF SharedIsUp
  <2>2. shared # hold /\ shared' = shared /\ ~lost
    BY <1>1, <2>1
  <2>3. shared = session /\ shared \in Pools /\ pool[shared].up = pool[shared].ids
    BY <2>1, <2>2 DEF PoolsInv, SharedIsUp, Apart
  <2>4. QED
    BY <1>1, <2>2, <2>3
<1>5. QED
  BY <1>2, <1>3, <1>4 DEF PoolsInv

LEMMA StartOwnOK ==
  ASSUME PoolsInv, own = NoPool, NEW kind, NEW ids, StartOwn(kind, ids)
  PROVE  PoolsInv'
<1>1. /\ own' = Fresh /\ UNCHANGED <<shared, session, hold, lost>>
      /\ pool' = [q \in Pools |-> pool'[q]]
      /\ pool'[Fresh] = [kind |-> kind, ids |-> ids, up |-> ids]
      /\ \A q \in Pools \ {Fresh} : pool'[q] = pool[q]
  BY StartedOne DEF StartOwn, PoolsInv
<1>2. PoolsShaped'
  BY <1>1 DEF PoolsInv, PoolsShaped
<1>3. Apart' /\ WorkersOwned'
  <2>1. Apart'
    BY <1>1, FreshIsNew DEF PoolsInv, Apart
  <2>2. QED
    BY <1>1, <2>1 DEF PoolsInv, WorkersOwned, NoPool, Pools
<1>4. SharedIsUp'
  BY <1>1, FreshIsNew DEF PoolsInv, Apart, SharedIsUp
<1>5. QED
  BY <1>2, <1>3, <1>4 DEF PoolsInv

LEMMA StopOwnOK ==
  ASSUME PoolsInv, own # NoPool, StopOwn
  PROVE  PoolsInv'
<1>1. /\ own' = NoPool /\ UNCHANGED <<shared, session, hold, lost>>
      /\ pool' = [q \in Pools |-> IF q = own THEN NewPool ELSE pool[q]]
  BY DEF StopOwn, Dropped
<1>2. PoolsShaped'
  BY <1>1 DEF PoolsInv, PoolsShaped, NewPool
<1>3. Apart' /\ WorkersOwned'
  BY <1>1 DEF PoolsInv, Apart, WorkersOwned, NewPool
<1>4. SharedIsUp'
  BY <1>1 DEF PoolsInv, Apart, SharedIsUp
<1>5. QED
  BY <1>2, <1>3, <1>4 DEF PoolsInv

-----------------------------------------------------------------------------
(* The calls.                                                              *)
CallShaped ==
  /\ call = [how |-> call.how, ids |-> call.ids, plan |-> call.plan]
  /\ plan.m \in Nat /\ plan.n \in Nat /\ plan.k \in Nat

(* A GEMM's own pool is there, and shards run, in these states only.       *)
OwnInUse     == own # NoPool => pc \in {"run", "join", "stop"}
ShardsInTime ==
  /\ (\E i \in DOMAIN th : th[i] = "run") => pc \in {"run", "join"}
  /\ pc \in {"run", "join"} => DOMAIN th = Shards

RunInv == CallShaped /\ OwnInUse /\ ShardsInTime
IInv   == PoolsInv /\ RunInv

LEMMA PlanExtents ==
  ASSUME NEW s, NEW m, NEW n, NEW k, NEW devs, NEW b
  PROVE  /\ MakePlan(s, m, n, k, devs, b).m = m
         /\ MakePlan(s, m, n, k, devs, b).n = n
         /\ MakePlan(s, m, n, k, devs, b).k = k
  BY DEF MakePlan

LEMMA ChosenExtents ==
  ASSUME NEW m, NEW n, NEW k, NEW devs, NEW b, NEW room, NEW p \in Chosen(m, n, k, devs, b, room)
  PROVE  p.m = m /\ p.n = n /\ p.k = k
<1>1. \E s, sub : p = MakePlan(s, m, n, k, sub, b)
  <2>1. CASE p \in Candidates(m, n, k, devs, b, room)
    BY <2>1 DEF Candidates
  <2>2. CASE p \in {MakePlan("row_blocks", m, n, k, Pick(devs, {1}), b)}
    BY <2>2
  <2>3. QED
    BY <2>1, <2>2 DEF Chosen
<1>2. QED
  BY <1>1, PlanExtents

LEMMA ShapeExtents ==
  \A x \in Shapes : x[1] \in Nat /\ x[2] \in Nat /\ x[3] \in Nat
  BY PlanRunAssumption

LEMMA InitOK == Init => IInv
<1> SUFFICES ASSUME Init PROVE IInv
  OBVIOUS
<1>1. PoolsInv
  BY PoolsInitOK DEF Init
<1>2. CallShaped
  BY PlanExtents DEF Init, CallShaped, NoCall, plan
<1>3. OwnInUse /\ ShardsInTime
  BY DEF Init, PoolsInit, OwnInUse, ShardsInTime
<1>4. QED
  BY <1>1, <1>2, <1>3 DEF IInv, RunInv

(* What a caller does.                                                     *)
LEMMA CallersOK ==
  ASSUME IInv, Environment
  PROVE  IInv'
<1> USE DEF IInv, RunInv
<1>0. pc = "idle" /\ own = NoPool /\ \A i \in DOMAIN th : th[i] # "run"
  BY DEF OwnInUse, ShardsInTime, Environment, Forget, SessionCall, PlaneOpens, PlaneCloses,
         CallPlan, CallRows, CallPipeline, CallHetero, Free
<1>1. CASE Forget
  <2>1. CallShaped'
    BY <1>1, PlanExtents DEF Forget, CallShaped, NoCall, plan
  <2>2. PoolsInv' /\ OwnInUse' /\ ShardsInTime'
    BY <1>0, <1>1, PoolsQuiet DEF Forget, OwnInUse, ShardsInTime, poolVars
  <2>3. QED
    BY <2>1, <2>2
<1>2. CASE SessionCall \/ PlaneOpens \/ PlaneCloses
  <2>1. UNCHANGED runVars /\ own' = own
    BY <1>2 DEF SessionCall, PlaneOpens, PlaneCloses, ShutdownWorkers, GetWorkerPool,
                ReplaceWorkers, OpenHold, CloseHold, poolVars
  <2>2. RunInv'
    BY <2>1 DEF runVars, CallShaped, plan, OwnInUse, ShardsInTime, Shards
  <2>3. PoolsInv'
    <3>1. CASE SessionCall
      BY <3>1, ShutdownOK, GetWorkerPoolOK DEF SessionCall
    <3>2. CASE PlaneOpens
      BY <3>2, OpenHoldOK DEF PlaneOpens
    <3>3. CASE PlaneCloses
      <4>1. hold # NoPool /\ InBatch = (shared = hold)
        BY <3>3 DEF PlaneCloses, CloseHold, InBatch
      <4>2. QED
        BY <3>3, <4>1, CloseHoldOK DEF PlaneCloses
    <3>4. QED
      BY <1>2, <3>1, <3>2, <3>3
  <2>4. QED
    BY <2>2, <2>3
<1>3. CASE CallPlan \/ CallRows \/ CallPipeline \/ CallHetero
  <2>1. UNCHANGED poolVars
    BY <1>3 DEF CallPlan, CallRows, CallPipeline, CallHetero
  <2>2. \E how, ids, s, x, devs, b :
          x \in Shapes /\ Call(how, ids, MakePlan(s, x[1], x[2], x[3], devs, b))
    <3>1. CASE CallPlan
      BY <3>1 DEF CallPlan
    <3>2. CASE CallRows
      BY <3>2 DEF CallRows
    <3>3. CASE CallPipeline
      BY <3>3 DEF CallPipeline
    <3>4. CASE CallHetero
      BY <3>4 DEF CallHetero
    <3>5. QED
      BY <1>3, <3>1, <3>2, <3>3, <3>4
  <2>3. PICK how, ids, s, x, devs, b :
          x \in Shapes /\ Call(how, ids, MakePlan(s, x[1], x[2], x[3], devs, b))
    BY <2>2
  <2>4. CallShaped'
    BY <2>3, PlanExtents, ShapeExtents DEF Call, CallShaped, plan
  <2>5. th' = <<>> /\ pc' \notin {"run", "join"}
    BY <1>3, <2>3 DEF Call, CallPlan, CallRows, CallPipeline, CallHetero, Goto
  <2>6. OwnInUse' /\ ShardsInTime'
    BY <1>0, <2>1, <2>5 DEF poolVars, OwnInUse, ShardsInTime
  <2>7. QED
    BY <2>1, <2>4, <2>6, PoolsQuiet
<1>4. QED
  BY <1>1, <1>2, <1>3 DEF Environment

(* Up to where its pool is picked a call has none, and no shard runs.      *)
LEMMA RoutingOK ==
  ASSUME IInv,
         Scale \/ Place \/ RouteHost \/ RoutePhi \/ RouteAveo \/ RouteWorkers
           \/ PickNone \/ Check \/ CheckPipeline
  PROVE  IInv'
<1> USE DEF IInv, RunInv
<1>0. pc \notin {"run", "join", "stop"} /\ UNCHANGED <<poolVars, th>>
  BY DEF Scale, Place, RouteHost, RoutePhi, RouteAveo, RouteWorkers, PickNone, Check, CheckPipeline
<1>1. PoolsInv'
  BY <1>0, PoolsQuiet
<1>2. pc' \notin {"run", "join"}
  BY DEF Scale, Place, RouteHost, RoutePhi, RouteAveo, RouteWorkers, PickNone, Check, CheckPipeline,
         Goto, Ends
<1>3. OwnInUse' /\ ShardsInTime'
  BY <1>0, <1>2 DEF OwnInUse, ShardsInTime, poolVars
<1>4. CallShaped'
  <2>1. CASE UNCHANGED call
    BY <2>1 DEF CallShaped, plan
  <2>2. CASE Place
    <3>1. UNCHANGED call \/ \E devs, room : \E p \in Chosen(plan.m, plan.n, plan.k, devs, "VE_NLC", room) :
                              call' = [call EXCEPT !.plan = p]
      BY <2>2 DEF Place
    <3>2. SUFFICES ASSUME NEW devs, NEW room,
                          NEW p \in Chosen(plan.m, plan.n, plan.k, devs, "VE_NLC", room),
                          call' = [call EXCEPT !.plan = p]
                   PROVE  CallShaped'
      BY <2>1, <3>1
    <3>3. p.m = plan.m /\ p.n = plan.n /\ p.k = plan.k
      BY ChosenExtents
    <3>4. call' = [how |-> call.how, ids |-> call.ids, plan |-> p]
      BY <3>2 DEF CallShaped
    <3>5. call'.plan = p
      BY <3>4
    <3>6. QED
      BY <3>3, <3>4, <3>5 DEF CallShaped, plan
  <2>3. QED
    BY <2>1, <2>2 DEF Scale, RouteHost, RoutePhi, RouteAveo, RouteWorkers, PickNone, Check, CheckPipeline
<1>5. QED
  BY <1>1, <1>3, <1>4

LEMMA PickOK ==
  ASSUME IInv, PickGiven \/ PickOwn
  PROVE  IInv'
<1> USE DEF IInv, RunInv
<1>0. pc = "pick" /\ own = NoPool /\ UNCHANGED call
  BY DEF PickGiven, PickOwn, OwnInUse
<1>1. CallShaped'
  BY <1>0 DEF CallShaped, plan
<1>2. CASE UNCHANGED poolVars
  <2>1. own' = NoPool
    BY <1>0, <1>2 DEF poolVars
  <2>2. th' = th \/ pc' = "run"
    BY DEF PickGiven, PickOwn, Submit, Goto
  <2>3. (\E i \in DOMAIN th : th[i] = "run") => FALSE
    BY <1>0 DEF ShardsInTime
  <2>4. ShardsInTime'
    <3>1. CASE pc' = "run"
      BY <1>0, <3>1 DEF PickGiven, PickOwn, Submit, ShardsInTime, Shards, plan, Raises, Fallback, Ends, Goto
    <3>2. CASE pc' # "run"
      BY <2>2, <2>3, <3>2 DEF PickGiven, PickOwn, Submit, ShardsInTime, Raises, Fallback, Ends, Goto
    <3>3. QED
      BY <3>1, <3>2
  <2>5. QED
    BY <1>1, <1>2, <2>1, <2>4, PoolsQuiet DEF OwnInUse
<1>3. CASE PickOwn /\ StartOwn(OwnKind, OwnIds) /\ pc' = "run"
  <2>1. PoolsInv'
    BY <1>0, <1>3, StartOwnOK
  <2>2. QED
    BY <1>0, <1>1, <1>3, <2>1 DEF OwnInUse, ShardsInTime, PickOwn, Submit, Shards, plan,
                              StartOwn, Raises, Fallback, Ends, Goto
<1>4. QED
  BY <1>2, <1>3 DEF PickGiven, PickOwn, OwnFails, Fails, Submit, Goto, poolVars

(* While shards run, no pool is started or stopped.                        *)
LEMMA RunningOK ==
  ASSUME IInv,
         Thread \/ LeaveLoop \/ Join \/ \E i \in DOMAIN th : Take(i)
  PROVE  IInv'
<1> USE DEF IInv, RunInv
<1>1. UNCHANGED <<poolVars, call>>
  BY DEF Thread, ShardEnds, LeaveLoop, Join, Take
<1>2. PoolsInv' /\ CallShaped'
  BY <1>1, PoolsQuiet DEF CallShaped, plan
<1>3. pc \in {"run", "join"} /\ pc' \in {"run", "join", "stop"}
  BY DEF Thread, ShardEnds, LeaveLoop, Join, Take, Goto
<1>4. OwnInUse'
  BY <1>3 DEF OwnInUse
<1>5. ShardsInTime'
  <2>1. CASE pc' \in {"run", "join"}
    <3>1. DOMAIN th' = DOMAIN th
      BY DEF Thread, ShardEnds, LeaveLoop, Join, Take
    <3>2. QED
      BY <1>1, <1>3, <2>1, <3>1 DEF ShardsInTime, Shards, plan
  <2>2. CASE Join
    BY <1>3, <2>2 DEF Join, ShardsInTime, Goto
  <2>3. QED
    BY <1>3, <2>1, <2>2 DEF Thread, ShardEnds, LeaveLoop, Take, Goto
<1>6. QED
  BY <1>2, <1>4, <1>5

LEMMA FinishOK ==
  ASSUME IInv, Finish
  PROVE  IInv'
<1> USE DEF IInv, RunInv
<1>1. pc = "stop" /\ pc' \notin {"run", "join"} /\ UNCHANGED <<call, th>>
  BY DEF Finish, Raises, Fallback, Ends, Goto
<1>2. PoolsInv' /\ own' = NoPool
  <2>1. CASE own = NoPool
    BY <2>1, PoolsQuiet DEF Finish, poolVars
  <2>2. CASE own # NoPool
    BY <2>2, StopOwnOK DEF Finish, StopOwn
  <2>3. QED
    BY <2>1, <2>2
<1>3. CallShaped' /\ OwnInUse' /\ ShardsInTime'
  BY <1>1, <1>2 DEF CallShaped, plan, OwnInUse, ShardsInTime
<1>4. QED
  BY <1>2, <1>3

LEMMA StutterOK == IInv /\ UNCHANGED vars => IInv'
  BY PoolsQuiet DEF IInv, RunInv, CallShaped, OwnInUse, ShardsInTime, Shards, plan,
                    vars, runVars, poolVars

LEMMA StepOK == IInv /\ [Next]_vars => IInv'
<1> SUFFICES ASSUME IInv, [Next]_vars PROVE IInv'
  OBVIOUS
<1>1. CASE Environment
  BY <1>1, CallersOK
<1>2. CASE Scale \/ Place \/ RouteHost \/ RoutePhi \/ RouteAveo \/ RouteWorkers
            \/ PickNone \/ Check \/ CheckPipeline
  BY <1>2, RoutingOK
<1>3. CASE PickGiven \/ PickOwn
  BY <1>3, PickOK
<1>4. CASE Thread \/ LeaveLoop \/ Join \/ \E i \in DOMAIN th : Take(i)
  BY <1>4, RunningOK
<1>5. CASE Finish
  BY <1>5, FinishOK
<1>6. CASE UNCHANGED vars
  BY <1>6, StutterOK
<1>7. QED
  BY <1>1, <1>2, <1>3, <1>4, <1>5, <1>6 DEF Next, Step

LEMMA Invariant == Spec => []IInv
  BY InitOK, StepOK, PTL DEF Spec

-----------------------------------------------------------------------------
(* Every worker that is up is in the pool of the session, of a data plane  *)
(* or multi-batch call, or of the GEMM that runs: none is left behind.     *)
THEOREM WorkersHaveOwners == Spec => []WorkersOwned
<1>1. IInv => WorkersOwned
  BY DEF IInv, PoolsInv
<1>2. QED
  BY <1>1, Invariant, PTL

(* The pool execute_plan reuses has all its workers up, until a start in   *)
(* get_worker_pool has failed.                                             *)
THEOREM SharedPoolIsUp == Spec => []SharedIsUp
<1>1. IInv => SharedIsUp
  BY DEF IInv, PoolsInv
<1>2. QED
  BY <1>1, Invariant, PTL

(* No step stops a pool while a shard runs in it.                          *)
THEOREM PoolsOutliveShards == Spec => StoppedOnlyUnused
<1> DEFINE Quiet == \A i \in DOMAIN th : th[i] = "run" /\ th' # <<>> /\ use # NoPool =>
                      pool'[use].up = pool[use].up
<1>1. IInv /\ [Next]_vars => [Quiet]_vars
  <2> SUFFICES ASSUME IInv, [Next]_vars, NEW i \in DOMAIN th, th[i] = "run"
               PROVE  UNCHANGED pool
    OBVIOUS
  <2>1. pc \in {"run", "join"}
    BY DEF IInv, RunInv, ShardsInTime
  <2>2. CASE Thread \/ LeaveLoop \/ Join \/ \E j \in DOMAIN th : Take(j)
    BY <2>2 DEF Thread, ShardEnds, LeaveLoop, Join, Take, poolVars
  <2>3. CASE UNCHANGED vars
    BY <2>3 DEF vars, poolVars
  <2>4. ~Environment
    BY <2>1 DEF Environment, Forget, SessionCall, PlaneOpens, PlaneCloses, CallPlan, CallRows,
                CallPipeline, CallHetero, Free
  <2>5. ~(Scale \/ Place \/ RouteHost \/ RoutePhi \/ RouteAveo \/ RouteWorkers
          \/ PickNone \/ PickGiven \/ PickOwn \/ Finish \/ Check \/ CheckPipeline)
    BY <2>1 DEF Scale, Place, RouteHost, RoutePhi, RouteAveo, RouteWorkers, PickNone,
                PickGiven, PickOwn, Finish, Check, CheckPipeline
  <2>6. QED
    BY <2>2, <2>3, <2>4, <2>5 DEF Next, Step
<1>2. QED
  BY <1>1, Invariant, PTL DEF Spec, StoppedOnlyUnused

-----------------------------------------------------------------------------
LEMMA PrefixLength ==
  ASSUME NEW size \in DOMAIN Devices
  PROVE  Len(Pick(Devices, 1..size)) = size /\ size \in Nat \ {0}
<1>1. size \in Nat \ {0}
  BY PlanRunAssumption
<1>2. Cardinality(1..size) = size
  BY <1>1, FS_Interval
<1>3. Pick(Devices, 1..size) = [r \in 1..size |-> Pick(Devices, 1..size)[r]]
  BY <1>2 DEF Pick
<1>4. QED
  BY <1>1, <1>3

(* The operands of every call can be cut for any number of the devices, by *)
(* any strategy, into a tiling.                                            *)
THEOREM PlansTile == Spec => []PartitionTiles
<1>1. IInv => PartitionTiles
  <2> SUFFICES ASSUME IInv, plan.m > 0, plan.n > 0, plan.k > 0,
                      NEW s \in Strategies, NEW size \in DOMAIN Devices
               PROVE  Valid(MakePlan(s, plan.m, plan.n, plan.k, Pick(Devices, 1..size), "VE_NLC"))
    BY DEF PartitionTiles
  <2>1. plan.m \in Nat \ {0} /\ plan.n \in Nat \ {0} /\ plan.k \in Nat \ {0}
    BY DEF IInv, RunInv, CallShaped
  <2>2. QED
    BY <2>1, PrefixLength, PlansAreTilings
<1>2. QED
  BY <1>1, Invariant, PTL

-----------------------------------------------------------------------------
(* What is used of a plan: its shards are whole in the dimensions that are *)
(* not cut, and tile the one that is.                                      *)
Tiled(p) ==
  /\ p.m \in Nat /\ p.n \in Nat /\ p.k \in Nat /\ p.strategy \in Strategies
  /\ \E l \in Nat : p.shards = [i \in 1..l |-> p.shards[i]]
  /\ \A i \in DOMAIN p.shards :
       /\ p.strategy # "row_blocks" => p.shards[i].rows = Span(0, p.m)
       /\ p.strategy # "col_blocks" => p.shards[i].cols = Span(0, p.n)
       /\ p.strategy # "k_split"    => p.shards[i].ks   = Span(0, p.k)
  /\ ExactlyOnce(p)

LEMMA BuiltIsTiled ==
  ASSUME NEW s \in Strategies, NEW m \in Nat, NEW n \in Nat, NEW k \in Nat,
         NEW devs, Len(devs) \in Nat, NEW b, Buildable(s, m, n, k, devs)
  PROVE  Tiled(MakePlan(s, m, n, k, devs, b))
<1> DEFINE e == Extent(s, m, n, k)
           cuts == SplitExtent(e, Len(devs))
           p == MakePlan(s, m, n, k, devs, b)
           v == MakePlan(s, m, n, k, devs, "VE_NLC")
<1>1. PICK l \in Nat : l = PartsOf(e, Len(devs))
  BY DEF PartsOf, Extent, Strategies
<1>2. DOMAIN cuts = 1..l
  BY <1>1 DEF SplitExtent
<1>3. /\ p.m = m /\ p.n = n /\ p.k = k /\ p.strategy = s
      /\ p.shards = [i \in 1..l |-> MakeShard(s, m, n, k, devs[i], cuts[i])]
  BY <1>2 DEF MakePlan
<1>4. v.m = m /\ v.n = n /\ v.k = k /\ v.strategy = s /\ v.shards = p.shards
  BY DEF MakePlan
<1>5. ExactlyOnce(v)
  BY DEF Buildable, Valid
<1> HIDE DEF p, v, cuts, e
<1>6. ExactlyOnce(p)
  BY <1>3, <1>4, <1>5 DEF ExactlyOnce
<1>7. p.shards = [i \in 1..l |-> p.shards[i]]
  BY <1>3
<1>8. ASSUME NEW i \in DOMAIN p.shards
      PROVE  /\ p.strategy # "row_blocks" => p.shards[i].rows = Span(0, p.m)
             /\ p.strategy # "col_blocks" => p.shards[i].cols = Span(0, p.n)
             /\ p.strategy # "k_split"    => p.shards[i].ks   = Span(0, p.k)
  BY <1>3 DEF MakeShard
<1>9. Tiled(p)
  BY <1>3, <1>6, <1>7, <1>8 DEF Tiled
<1>10. QED
  BY <1>9 DEF p

(* Each multiplication is one shard's.                                     *)
LEMMA OneShard ==
  ASSUME NEW p, Tiled(p), NEW x \in Cells(p)
  PROVE  \E i \in DOMAIN p.shards :
           \A j \in DOMAIN p.shards : Covers(p.shards[j], x) <=> i = j
<1>1. /\ x[1] \in 0..(p.m - 1) /\ In(x[1], Span(0, p.m))
      /\ x[2] \in 0..(p.n - 1) /\ In(x[2], Span(0, p.n))
      /\ x[3] \in 0..(p.k - 1) /\ In(x[3], Span(0, p.k))
  BY DEF Tiled, Cells, In, Span
<1>2. PICK y \in 0..(Extent(p.strategy, p.m, p.n, p.k) - 1) :
        y = CASE p.strategy = "row_blocks" -> x[1]
              [] p.strategy = "col_blocks" -> x[2]
              [] p.strategy = "k_split"    -> x[3]
  BY <1>1 DEF Tiled, Extent, Strategies
<1>3. \A j \in DOMAIN p.shards : Covers(p.shards[j], x) <=> In(y, CutOf(p.strategy, p.shards[j]))
  <2> SUFFICES ASSUME NEW j \in DOMAIN p.shards
               PROVE  Covers(p.shards[j], x) <=> In(y, CutOf(p.strategy, p.shards[j]))
    OBVIOUS
  <2>1. CASE p.strategy = "row_blocks"
    BY <1>1, <1>2, <2>1 DEF Tiled, Covers, InBlock, CutOf
  <2>2. CASE p.strategy = "col_blocks"
    BY <1>1, <1>2, <2>2 DEF Tiled, Covers, InBlock, CutOf
  <2>3. CASE p.strategy = "k_split"
    BY <1>1, <1>2, <2>3 DEF Tiled, Covers, InBlock, CutOf
  <2>4. QED
    BY <2>1, <2>2, <2>3 DEF Tiled, Strategies
<1>4. PICK i \in DOMAIN p.shards :
        \A j \in DOMAIN p.shards : In(y, CutOf(p.strategy, p.shards[j])) <=> i = j
  BY DEF Tiled, ExactlyOnce
<1>5. QED
  BY <1>3, <1>4

LEMMA NoShards ==
  ASSUME NEW p, Tiled(p), p.shards = <<>>
  PROVE  Zeros(p) = Product(p)
<1>1. DOMAIN p.shards = {}
  OBVIOUS
<1>2. Cells(p) = {}
  BY <1>1, OneShard
<1>3. QED
  BY <1>2 DEF Zeros, Product

(* What a shard writes, in terms of the multiplications it covers.         *)
LEMMA ShardAt ==
  ASSUME NEW p, Tiled(p), NEW i \in DOMAIN p.shards, NEW x \in Cells(p)
  PROVE  /\ Part(p.shards[i], x) \in {0, 1}
         /\ p.strategy = "k_split" =>
              InBlock(p.shards[i], x) /\ (Covers(p.shards[i], x) <=> Part(p.shards[i], x) = 1)
         /\ p.strategy # "k_split" =>
              Part(p.shards[i], x) = 1 /\ (Covers(p.shards[i], x) <=> InBlock(p.shards[i], x))
<1>1. /\ In(x[1], Span(0, p.m)) /\ In(x[2], Span(0, p.n)) /\ In(x[3], Span(0, p.k))
  BY DEF Tiled, Cells, In, Span
<1>2. QED
  BY <1>1 DEF Tiled, Covers, InBlock, Part

(* The host, which writes all of them.                                     *)
LEMMA HostIsProduct ==
  ASSUME NEW p, Tiled(p)
  PROVE  HostExecute(p) = Product(p)
<1> SUFFICES ASSUME NEW x \in Cells(p) PROVE HostExecute(p)[x] = 1
  BY DEF HostExecute, Product
<1> DEFINE writers == {j \in DOMAIN p.shards : InBlock(p.shards[j], x)}
<1>1. PICK i \in DOMAIN p.shards :
        \A j \in DOMAIN p.shards : Covers(p.shards[j], x) <=> i = j
  BY OneShard
<1>2. HostExecute(p)[x] =
        CASE p.strategy = "k_split" ->
               Cardinality({j \in writers : Part(p.shards[j], x) = 1})
          [] p.strategy # "k_split" /\ writers # {} -> Part(p.shards[Latest(writers)], x)
          [] OTHER -> 0
  BY DEF HostExecute
<1>3. CASE p.strategy = "k_split"
  <2>1. {j \in writers : Part(p.shards[j], x) = 1} = {i}
    BY <1>1, <1>3, ShardAt
  <2>2. QED
    BY <1>2, <1>3, <2>1, FS_Singleton
<1>4. CASE p.strategy # "k_split"
  <2>1. writers = {i}
    BY <1>1, <1>4, ShardAt
  <2>2. Latest(writers) = i
    <3>1. i <= i
      BY DEF Tiled
    <3>2. QED
      BY <2>1, <3>1 DEF Latest
  <2>3. QED
    BY <1>2, <1>4, <2>1, <2>2, ShardAt
<1>5. QED
  BY <1>3, <1>4

(* What a plan's taken shards leave in C, and one shard more.              *)
Sums(p, t) ==
  [x \in Cells(p) |->
     IF \E i \in DOMAIN p.shards : t[i] = "taken" /\ Covers(p.shards[i], x) THEN 1 ELSE 0]

LEMMA OneMore ==
  ASSUME NEW p, Tiled(p), NEW t, NEW u, NEW i \in DOMAIN p.shards, t[i] # "taken",
         u[i] = "taken", \A j \in DOMAIN p.shards \ {i} : u[j] = t[j]
  PROVE  With(p, p.shards[i], Sums(p, t)) = Sums(p, u)
<1> SUFFICES ASSUME NEW x \in Cells(p)
             PROVE  With(p, p.shards[i], Sums(p, t))[x] = Sums(p, u)[x]
  BY DEF With, Sums
<1>1. PICK h \in DOMAIN p.shards :
        \A j \in DOMAIN p.shards : Covers(p.shards[j], x) <=> h = j
  BY OneShard
<1>2. /\ Sums(p, t)[x] = IF t[h] = "taken" THEN 1 ELSE 0
      /\ Sums(p, u)[x] = IF u[h] = "taken" THEN 1 ELSE 0
  BY <1>1 DEF Sums
<1>3. CASE p.strategy = "k_split"
  <2>1. With(p, p.shards[i], Sums(p, t))[x] = Sums(p, t)[x] + Part(p.shards[i], x)
    BY <1>3 DEF With
  <2>2. QED
    BY <1>1, <1>2, <1>3, <2>1, ShardAt
<1>4. CASE p.strategy # "k_split"
  <2>1. With(p, p.shards[i], Sums(p, t))[x] =
          IF InBlock(p.shards[i], x) THEN Part(p.shards[i], x) ELSE Sums(p, t)[x]
    BY <1>4 DEF With
  <2>2. QED
    BY <1>1, <1>2, <1>4, <2>1, ShardAt
<1>5. QED
  BY <1>3, <1>4

LEMMA NoneTaken ==
  ASSUME NEW p, NEW t, \A i \in DOMAIN p.shards : t[i] # "taken"
  PROVE  Sums(p, t) = Zeros(p)
  BY DEF Sums, Zeros

LEMMA AllTaken ==
  ASSUME NEW p, Tiled(p), NEW t, \A i \in DOMAIN p.shards : t[i] = "taken"
  PROVE  Sums(p, t) = Product(p)
<1>1. \A x \in Cells(p) : \E i \in DOMAIN p.shards : Covers(p.shards[i], x)
  BY OneShard
<1>2. QED
  BY <1>1 DEF Sums, Product

-----------------------------------------------------------------------------
(* The calling thread: the plan it executes, what is in C by then, and the *)
(* operand.                                                                *)
Cutting == pc \in {"route", "pick", "run", "join", "stop"} \/ (pc = "scale" /\ ~Plain)

PlanIsTiled  == Cutting => Tiled(plan)
NothingYet   == pc \in {"route", "pick"} \/ (pc = "scale" /\ ~Plain) => c = Zeros(plan)
TakenIsThere == pc \in {"run", "join", "stop"} /\ ~broken => c = Sums(plan, th)
AllIsThere   == pc = "check" /\ ~broken => c = Product(plan)
ThreadsTyped ==
  /\ pc \in {"run", "join", "stop"} => DOMAIN th = Shards
  /\ \A i \in DOMAIN th : th[i] \in {"run", "ok", "junk", "raised", "taken"}
LoopLeft ==
  pc \in {"join", "stop"} =>
    (\E i \in Shards : th[i] = "raised") \/ (\A i \in Shards : th[i] = "taken")
IsScaled == pc \notin {"idle", "scale"} => left = "scaled"

ResultInv ==
  /\ PlanIsTiled /\ NothingYet /\ TakenIsThere /\ AllIsThere
  /\ ThreadsTyped /\ LoopLeft /\ IsScaled /\ ResultIsProduct

LEMMA ResultInit == Init => ResultInv
  BY DEF Init, ResultInv, Cutting, PlanIsTiled, NothingYet, TakenIsThere, AllIsThere,
         ThreadsTyped, LoopLeft, IsScaled, ResultIsProduct

(* Plans of the devices the callers list.                                  *)
LEMMA CalledIsTiled ==
  ASSUME NEW s \in Strategies, NEW x \in Shapes, NEW size \in DOMAIN Devices, NEW b,
         Buildable(s, x[1], x[2], x[3], Pick(Devices, 1..size))
  PROVE  Tiled(MakePlan(s, x[1], x[2], x[3], Pick(Devices, 1..size), b))
  BY PrefixLength, ShapeExtents, BuiltIsTiled

LEMMA PickedLength ==
  ASSUME NEW devs, NEW I, IsFiniteSet(I)
  PROVE  Len(Pick(devs, I)) = Cardinality(I) /\ Cardinality(I) \in Nat
<1>1. Cardinality(I) \in Nat
  BY FS_CardinalityType
<1>2. Pick(devs, I) = [r \in 1..Cardinality(I) |-> Pick(devs, I)[r]]
  BY DEF Pick
<1>3. QED
  BY <1>1, <1>2

LEMMA ChosenIsTiled ==
  ASSUME NEW m \in Nat, NEW n \in Nat, NEW k \in Nat, NEW room \in Nat,
         NEW devs, Len(devs) \in Nat, DOMAIN devs = 1..Len(devs),
         NEW p \in Chosen(m, n, k, devs, "VE_NLC", room)
  PROVE  Tiled(p)
<1>1. CASE p \in Candidates(m, n, k, devs, "VE_NLC", room)
  <2>1. PICK s \in Strategies, sub \in UNION {Subsets(devs, d) : d \in DOMAIN devs} :
          /\ p = MakePlan(s, m, n, k, sub, "VE_NLC")
          /\ Buildable(s, m, n, k, sub)
    BY <1>1 DEF Candidates
  <2>2. PICK I : I \subseteq DOMAIN devs /\ sub = Pick(devs, I)
    <3>1. PICK d \in DOMAIN devs : sub \in Subsets(devs, d)
      BY <2>1
    <3>2. 1..d \subseteq DOMAIN devs
      OBVIOUS
    <3>3. QED
      BY <3>1, <3>2 DEF Subsets
  <2>3. IsFiniteSet(DOMAIN devs)
    BY FS_Interval
  <2>4. IsFiniteSet(I)
    BY <2>2, <2>3, FS_Subset
  <2>5. Len(sub) \in Nat
    BY <2>2, <2>4, PickedLength
  <2>6. QED
    BY <2>1, <2>5, BuiltIsTiled
<1>2. CASE /\ p = MakePlan("row_blocks", m, n, k, Pick(devs, {1}), "VE_NLC")
           /\ Buildable("row_blocks", m, n, k, Pick(devs, {1}))
  <2>1. Len(Pick(devs, {1})) \in Nat
    BY FS_Singleton, PickedLength
  <2>2. QED
    BY <1>2, <2>1, BuiltIsTiled DEF Strategies
<1>3. QED
  BY <1>1, <1>2 DEF Chosen

LEMMA ResultUnderCallers ==
  ASSUME IInv, ResultInv, Environment
  PROVE  ResultInv'
<1> USE DEF ResultInv
<1>1. CASE Forget
  BY <1>1 DEF Forget, Cutting, PlanIsTiled, NothingYet, TakenIsThere, AllIsThere,
              ThreadsTyped, LoopLeft, IsScaled, ResultIsProduct
<1>2. CASE SessionCall \/ PlaneOpens \/ PlaneCloses
  BY <1>2 DEF SessionCall, PlaneOpens, PlaneCloses, runVars, Free, Cutting, PlanIsTiled,
              NothingYet, TakenIsThere, AllIsThere, ThreadsTyped, LoopLeft, IsScaled,
              ResultIsProduct, plan, Shards
<1>3. CASE CallPlan \/ CallRows \/ CallHetero
  <2>1. \E how, ids, b : \E s \in Strategies, x \in Shapes, size \in DOMAIN Devices :
          /\ Buildable(s, x[1], x[2], x[3], Pick(Devices, 1..size))
          /\ Call(how, ids, MakePlan(s, x[1], x[2], x[3], Pick(Devices, 1..size), b))
    <3>1. CASE CallPlan
      BY <3>1 DEF CallPlan
    <3>2. CASE CallRows
      BY <3>2 DEF CallRows, Strategies
    <3>3. CASE CallHetero
      BY <3>3 DEF CallHetero, Strategies
    <3>4. QED
      BY <1>3, <3>1, <3>2, <3>3
  <2>2. PICK how, ids, b : \E s \in Strategies, x \in Shapes, size \in DOMAIN Devices :
          /\ Buildable(s, x[1], x[2], x[3], Pick(Devices, 1..size))
          /\ Call(how, ids, MakePlan(s, x[1], x[2], x[3], Pick(Devices, 1..size), b))
    BY <2>1
  <2>3. PICK s \in Strategies, x \in Shapes, size \in DOMAIN Devices :
          /\ Buildable(s, x[1], x[2], x[3], Pick(Devices, 1..size))
          /\ Call(how, ids, MakePlan(s, x[1], x[2], x[3], Pick(Devices, 1..size), b))
    BY <2>2
  <2> DEFINE p == MakePlan(s, x[1], x[2], x[3], Pick(Devices, 1..size), b)
  <2>4. Tiled(p)
    BY <2>3, CalledIsTiled
  <2> HIDE DEF p
  <2>5. plan' = p /\ c' = Zeros(p) /\ th' = <<>>
    BY <2>3 DEF p, Call, plan
  <2>6. pc' \in {"route", "pick", "scale"} /\ (pc' # "scale" => left' = "scaled")
    BY <1>3 DEF CallPlan, CallRows, CallHetero, Goto
  <2>7. QED
    BY <2>4, <2>5, <2>6 DEF PlanIsTiled, NothingYet, TakenIsThere, AllIsThere, ThreadsTyped,
                            LoopLeft, IsScaled, ResultIsProduct
<1>4. CASE CallPipeline
  <2>1. pc' = "scale" /\ Plain' /\ th' = <<>>
    BY <1>4 DEF CallPipeline, Call, Goto, Plain
  <2>2. QED
    BY <2>1 DEF Cutting, PlanIsTiled, NothingYet, TakenIsThere, AllIsThere, ThreadsTyped,
                LoopLeft, IsScaled, ResultIsProduct
<1>5. QED
  BY <1>1, <1>2, <1>3, <1>4 DEF Environment

(* The pipeline's stages before the GEMM.                                  *)
LEMMA ResultScale ==
  ASSUME IInv, ResultInv, Scale
  PROVE  ResultInv'
<1>1. UNCHANGED <<call, c, th, broken>> /\ pc = "scale" /\ pc' \in {"place", "pick", "idle"}
  BY DEF Scale, Goto, Ends
<1>2. /\ pc' = "pick" => ~Plain
      /\ pc' # "idle" => left' = "scaled"
      /\ pc' = "idle" => out' = "raised"
  BY DEF Scale, Goto, Ends
<1>3. QED
  BY <1>1, <1>2 DEF ResultInv, Cutting, PlanIsTiled, NothingYet, TakenIsThere, AllIsThere,
                    ThreadsTyped, LoopLeft, IsScaled, ResultIsProduct, plan, Shards, Plain

LEMMA ResultPlace ==
  ASSUME IInv, ResultInv, Place
  PROVE  ResultInv'
<1>1. pc = "place" /\ left = "scaled" /\ UNCHANGED <<left, th, broken>>
  BY DEF Place, ResultInv, IsScaled
<1>2. CASE pc' = "idle"
  <2>1. UNCHANGED call /\ (out' = "raised" \/ c' = Product(plan))
    BY <1>2 DEF Place, Ends, Goto
  <2>2. QED
    BY <1>1, <1>2, <2>1 DEF ResultInv, Cutting, PlanIsTiled, NothingYet, TakenIsThere, AllIsThere,
                            ThreadsTyped, LoopLeft, IsScaled, ResultIsProduct, plan
<1>3. CASE pc' # "idle"
  <2>1. PICK room \in 0..Len(Devices) :
          \E p \in Chosen(plan.m, plan.n, plan.k, Pick(Devices, 1..room), "VE_NLC", room) :
            call' = [call EXCEPT !.plan = p] /\ c' = Zeros(p) /\ Goto("route") /\ room # 0
    BY <1>3 DEF Place, Ends, Goto
  <2>2. PICK p \in Chosen(plan.m, plan.n, plan.k, Pick(Devices, 1..room), "VE_NLC", room) :
          call' = [call EXCEPT !.plan = p] /\ c' = Zeros(p) /\ Goto("route") /\ room # 0
    BY <2>1
  <2>3. Len(Pick(Devices, 1..room)) = room /\ DOMAIN Pick(Devices, 1..room) = 1..room
    <3>1. Len(Devices) \in Nat /\ room \in Nat
      BY PlanRunAssumption
    <3>2. IsFiniteSet(1..room) /\ Cardinality(1..room) = room
      BY <3>1, FS_Interval
    <3>3. QED
      BY <3>2, PickedLength DEF Pick
  <2>4. plan.m \in Nat /\ plan.n \in Nat /\ plan.k \in Nat /\ room \in Nat
    BY PlanRunAssumption DEF IInv, RunInv, CallShaped
  <2>5. Tiled(p)
    BY <2>3, <2>4, ChosenIsTiled
  <2>6. plan' = p
    BY <2>2 DEF IInv, RunInv, CallShaped, plan
  <2>7. QED
    BY <1>1, <2>2, <2>5, <2>6 DEF ResultInv, PlanIsTiled, NothingYet, TakenIsThere, AllIsThere,
                              ThreadsTyped, LoopLeft, IsScaled, ResultIsProduct, Goto
<1>4. QED
  BY <1>2, <1>3

LEMMA ResultRoute ==
  ASSUME IInv, ResultInv, RouteHost \/ RoutePhi \/ RouteAveo \/ RouteWorkers
  PROVE  ResultInv'
<1>1. /\ pc = "route" /\ left = "scaled" /\ Tiled(plan) /\ c = Zeros(plan)
      /\ UNCHANGED <<call, left, th>> /\ plan' = plan
  BY DEF RouteHost, RoutePhi, RouteAveo, RouteWorkers, ResultInv, IsScaled, PlanIsTiled,
         NothingYet, Cutting, plan
<1>2. CASE pc' = "pick"
  <2>1. c' = c
    BY <1>2 DEF RouteHost, RoutePhi, RouteAveo, RouteWorkers, Goto, Ends
  <2>2. QED
    BY <1>1, <1>2, <2>1 DEF ResultInv, Cutting, PlanIsTiled, NothingYet, TakenIsThere,
                            AllIsThere, ThreadsTyped, LoopLeft, IsScaled, ResultIsProduct
<1>3. CASE pc' \in {"check", "idle"} /\ (c' = Product(plan) \/ broken' \/ out' = "raised")
  <2>1. pc' = "check" => c' = Product(plan)
    BY <1>1, <1>3, HostIsProduct DEF RouteHost, RoutePhi, RouteAveo, RouteWorkers, Goto, Ends
  <2>2. QED
    BY <1>1, <1>3, <2>1 DEF ResultInv, Cutting, PlanIsTiled, NothingYet, TakenIsThere,
                            AllIsThere, ThreadsTyped, LoopLeft, IsScaled, ResultIsProduct
<1>4. CASE RouteHost
  BY <1>1, <1>3, <1>4, HostIsProduct DEF RouteHost, Goto
<1>5. CASE RoutePhi
  BY <1>1, <1>3, <1>5 DEF RoutePhi, Goto, Ends
<1>6. CASE RouteWorkers
  BY <1>2, <1>6 DEF RouteWorkers, Goto
<1>7. CASE RouteAveo
  <2>1. CASE c' = With(plan, plan.shards[1], c) /\ Ends("device")
    <3>1. Len(plan.shards) = 1
      BY <1>7 DEF RouteAveo, AveoAlone
    <3>2. PICK l \in Nat : plan.shards = [i \in 1..l |-> plan.shards[i]]
      BY <1>1 DEF Tiled
    <3>3. Len(plan.shards) = l
      BY <3>2
    <3>4. DOMAIN plan.shards = {1}
      BY <3>1, <3>2, <3>3
    <3> DEFINE t == [i \in {1} |-> "ok"]
               u == [i \in {1} |-> "taken"]
    <3>5. Sums(plan, t) = Zeros(plan) /\ Sums(plan, u) = Product(plan)
      BY <1>1, <3>4, NoneTaken, AllTaken
    <3>6. With(plan, plan.shards[1], Sums(plan, t)) = Sums(plan, u)
      BY <1>1, <3>4, OneMore
    <3>7. c' = Product(plan)
      BY <1>1, <2>1, <3>5, <3>6
    <3>8. QED
      BY <1>3, <2>1, <3>7 DEF Ends
  <2>2. CASE broken' /\ Ends("device")
    BY <1>3, <2>2 DEF Ends
  <2>3. CASE Goto("pick")
    BY <1>2, <2>3 DEF Goto
  <2>4. QED
    BY <1>7, <2>1, <2>2, <2>3 DEF RouteAveo
<1>8. QED
  BY <1>4, <1>5, <1>6, <1>7

LEMMA ResultPick ==
  ASSUME IInv, ResultInv, PickNone \/ PickGiven \/ PickOwn
  PROVE  ResultInv'
<1>1. /\ pc = "pick" /\ left = "scaled" /\ Tiled(plan) /\ c = Zeros(plan)
      /\ UNCHANGED <<call, left, broken>> /\ plan' = plan
  BY DEF PickNone, PickGiven, PickOwn, ResultInv, IsScaled, PlanIsTiled, NothingYet, Cutting, plan
<1>2. CASE Submit(use') /\ UNCHANGED c
  <2>1. pc' = "run" /\ th' = [i \in Shards |-> "run"] /\ Shards' = Shards
    BY <1>1, <1>2 DEF Submit, Goto, Shards
  <2>2. c' = Sums(plan, th')
    BY <1>1, <1>2, <2>1, NoneTaken DEF Shards
  <2>3. QED
    BY <1>1, <2>1, <2>2 DEF ResultInv, PlanIsTiled, NothingYet, TakenIsThere, AllIsThere,
                            ThreadsTyped, LoopLeft, IsScaled, ResultIsProduct
<1>3. CASE PickNone \/ (Raises /\ UNCHANGED th)
  <2>1. th' = th
    BY <1>3 DEF PickNone
  <2>2. (pc' = "check" /\ c' = Product(plan)) \/ (pc' = "idle" /\ out' = "raised")
    <3>1. CASE PickNone
      BY <1>1, <3>1, NoShards DEF PickNone, Goto, Ends
    <3>2. CASE Raises
      BY <1>1, <3>2, HostIsProduct DEF Raises, Fallback, Goto, Ends
    <3>3. QED
      BY <1>3, <3>1, <3>2
  <2>3. QED
    BY <1>1, <2>1, <2>2 DEF ResultInv, Cutting, PlanIsTiled, NothingYet, TakenIsThere,
                            AllIsThere, ThreadsTyped, LoopLeft, IsScaled, ResultIsProduct
<1>4. QED
  BY <1>2, <1>3 DEF PickNone, PickGiven, PickOwn, Submit

LEMMA ResultShards ==
  ASSUME IInv, ResultInv, Thread \/ (\E i \in DOMAIN th : Take(i))
  PROVE  ResultInv'
<1>1. /\ pc \in {"run", "join"} /\ left = "scaled" /\ Tiled(plan) /\ DOMAIN th = Shards
      /\ UNCHANGED <<pc, call, left>> /\ plan' = plan /\ Shards' = Shards
      /\ ~broken => c = Sums(plan, th)
  BY DEF Thread, ShardEnds, Take, ResultInv, IsScaled, PlanIsTiled, TakenIsThere, ThreadsTyped,
         Cutting, plan, Shards
<1>2. CASE Thread
  <2>1. PICK i \in DOMAIN th : ShardEnds(i)
    BY <1>2 DEF Thread
  <2>2. PICK y \in {"ok", "raised", "junk"} : th' = [th EXCEPT ![i] = y] /\ th[i] = "run"
    BY <2>1 DEF ShardEnds
  <2>3. UNCHANGED <<c, broken>>
    BY <2>1 DEF ShardEnds
  <2>4. Sums(plan, th') = Sums(plan, th)
    BY <1>1, <2>2 DEF Sums, Shards
  <2>5. LoopLeft' /\ ThreadsTyped'
    BY <1>1, <2>2 DEF ResultInv, LoopLeft, ThreadsTyped
  <2>6. QED
    BY <1>1, <2>3, <2>4, <2>5 DEF ResultInv, PlanIsTiled, NothingYet, TakenIsThere,
                                  AllIsThere, IsScaled, ResultIsProduct
<1>3. CASE \E i \in DOMAIN th : Take(i)
  <2>1. PICK i \in DOMAIN th : Take(i)
    BY <1>3
  <2>2. /\ pc = "run" /\ th' = [th EXCEPT ![i] = "taken"] /\ th[i] \in {"ok", "junk"}
        /\ broken' = (broken \/ th[i] = "junk")
        /\ th[i] = "ok" => c' = With(plan, plan.shards[i], c)
    BY <2>1 DEF Take
  <2>3. ~broken' => c' = Sums(plan, th')
    <3>1. With(plan, plan.shards[i], Sums(plan, th)) = Sums(plan, th')
      <4>1. /\ i \in DOMAIN plan.shards /\ th[i] # "taken" /\ th'[i] = "taken"
            /\ \A j \in DOMAIN plan.shards \ {i} : th'[j] = th[j]
        BY <1>1, <2>2 DEF Shards
      <4>2. QED
        BY <1>1, <4>1, OneMore
    <3>2. QED
      BY <1>1, <2>2, <3>1
  <2>4. ThreadsTyped' /\ LoopLeft'
    BY <1>1, <2>2 DEF ResultInv, LoopLeft, ThreadsTyped
  <2>5. QED
    BY <1>1, <2>2, <2>3, <2>4 DEF ResultInv, PlanIsTiled, NothingYet, TakenIsThere,
                                  AllIsThere, IsScaled, ResultIsProduct
<1>4. QED
  BY <1>2, <1>3

LEMMA ResultLoopEnds ==
  ASSUME IInv, ResultInv, LeaveLoop \/ Join
  PROVE  ResultInv'
<1>1. /\ pc \in {"run", "join"} /\ pc' \in {"join", "stop"}
      /\ UNCHANGED <<call, left, th, c, broken, out>> /\ plan' = plan /\ Shards' = Shards
  BY DEF LeaveLoop, Join, Goto, plan, Shards
<1>2. LoopLeft'
  BY <1>1 DEF LeaveLoop, Join, ResultInv, LoopLeft
<1>3. QED
  BY <1>1, <1>2 DEF ResultInv, Cutting, PlanIsTiled, NothingYet, TakenIsThere, AllIsThere,
                    ThreadsTyped, IsScaled, ResultIsProduct

LEMMA ResultFinish ==
  ASSUME IInv, ResultInv, Finish
  PROVE  ResultInv'
<1>1. /\ pc = "stop" /\ left = "scaled" /\ Tiled(plan) /\ DOMAIN th = Shards
      /\ UNCHANGED <<call, left, th, broken>> /\ plan' = plan
      /\ ~broken => c = Sums(plan, th)
  BY DEF Finish, ResultInv, IsScaled, PlanIsTiled, TakenIsThere, ThreadsTyped, Cutting, plan
<1>2. \/ pc' = "check" /\ (~broken => c' = Product(plan))
      \/ pc' = "idle" /\ out' = "raised"
  <2>1. CASE \E i \in Shards : th[i] = "raised"
    BY <1>1, <2>1, HostIsProduct DEF Finish, Raises, Fallback, Goto, Ends
  <2>2. CASE ~\E i \in Shards : th[i] = "raised"
    <3>1. \A i \in DOMAIN plan.shards : th[i] = "taken"
      BY <1>1, <2>2 DEF ResultInv, LoopLeft, Shards
    <3>2. Sums(plan, th) = Product(plan)
      BY <1>1, <3>1, AllTaken
    <3>3. QED
      BY <1>1, <2>2, <3>2 DEF Finish, Goto
  <2>3. QED
    BY <2>1, <2>2
<1>3. QED
  BY <1>1, <1>2 DEF ResultInv, Cutting, PlanIsTiled, NothingYet, TakenIsThere, AllIsThere,
                    ThreadsTyped, LoopLeft, IsScaled, ResultIsProduct

LEMMA ResultCheck ==
  ASSUME IInv, ResultInv, Check \/ CheckPipeline
  PROVE  ResultInv'
  BY DEF Check, CheckPipeline, Ends, ResultInv, Cutting, PlanIsTiled, NothingYet, TakenIsThere, AllIsThere,
         ThreadsTyped, LoopLeft, IsScaled, ResultIsProduct, plan

LEMMA ResultStep == IInv /\ ResultInv /\ [Next]_vars => ResultInv'
<1> SUFFICES ASSUME IInv, ResultInv, [Next]_vars PROVE ResultInv'
  OBVIOUS
<1>1. CASE Environment
  BY <1>1, ResultUnderCallers
<1>2. CASE Scale \/ Place
  BY <1>2, ResultScale, ResultPlace
<1>3. CASE RouteHost \/ RoutePhi \/ RouteAveo \/ RouteWorkers
  BY <1>3, ResultRoute
<1>4. CASE PickNone \/ PickGiven \/ PickOwn
  BY <1>4, ResultPick
<1>5. CASE Thread \/ \E i \in DOMAIN th : Take(i)
  BY <1>5, ResultShards
<1>6. CASE LeaveLoop \/ Join \/ Finish \/ Check \/ CheckPipeline
  BY <1>6, ResultLoopEnds, ResultFinish, ResultCheck
<1>7. CASE UNCHANGED vars
  BY <1>7 DEF vars, runVars, ResultInv, Cutting, PlanIsTiled, NothingYet, TakenIsThere,
              AllIsThere, ThreadsTyped, LoopLeft, IsScaled, ResultIsProduct, plan, Shards, Plain
<1>8. QED
  BY <1>1, <1>2, <1>3, <1>4, <1>5, <1>6, <1>7 DEF Next, Step

(* Whatever was placed and whichever shards failed, a call that returns    *)
(* without an error code of AVEO has each multiplication of the scaled     *)
(* operand once in C.                                                      *)
THEOREM ResultsAreProducts == Spec => []ResultIsProduct
<1>1. ResultInv => ResultIsProduct
  BY DEF ResultInv
<1>2. QED
  BY <1>1, ResultInit, ResultStep, Invariant, PTL DEF Spec
=============================================================================
