----------------------------- MODULE Partition -----------------------------
(***************************************************************************)
(* How a product C = A * B is cut into shards (partition/multi_device.py): *)
(* _split_extent, the three partition_matrix_ functions and                *)
(* PlacementPlan.validate.  A range [start, end) is a span, a shard is the *)
(* box rows x cols x ks of the multiplications it does.                    *)
(***************************************************************************)
EXTENDS Integers, Sequences, FiniteSets

Strategies == {"row_blocks", "col_blocks", "k_split"}

Span(lo, hi) == [lo |-> lo, hi |-> hi]
In(x, span)  == span.lo <= x /\ x < span.hi

-----------------------------------------------------------------------------
(* Variant: the remainder is dropped.                                      *)
CutEven(extent, p, i) == i * (extent \div p)

(* Where the first i of p parts end: the first extent % p of them are one  *)
(* longer than the others.                                                 *)
Cut(extent, p, i) ==
  i * (extent \div p) + (IF i < extent % p THEN i ELSE extent % p)

(* _split_extent: never more parts than elements, none of an empty extent. *)
PartsOf(extent, n) == IF n > extent THEN extent ELSE n
SplitExtent(extent, n) ==
  [i \in 1..PartsOf(extent, n) |->
     Span(Cut(extent, PartsOf(extent, n), i - 1), Cut(extent, PartsOf(extent, n), i))]

-----------------------------------------------------------------------------
(* The dimension a strategy cuts, and the shards that result: device i     *)
(* gets the i-th range, devices left over get nothing.                     *)
Extent(strategy, m, n, k) ==
  CASE strategy = "row_blocks" -> m
    [] strategy = "col_blocks" -> n
    [] strategy = "k_split"    -> k

MakeShard(strategy, m, n, k, dev, cut) ==
  [device |-> dev,
   rows   |-> IF strategy = "row_blocks" THEN cut ELSE Span(0, m),
   cols   |-> IF strategy = "col_blocks" THEN cut ELSE Span(0, n),
   ks     |-> IF strategy = "k_split"    THEN cut ELSE Span(0, k)]

MakePlan(strategy, m, n, k, devs, backend) ==
  LET cuts == SplitExtent(Extent(strategy, m, n, k), Len(devs))
  IN  [m |-> m, n |-> n, k |-> k, strategy |-> strategy, backend |-> backend,
       shards |-> [i \in DOMAIN cuts |->
                     MakeShard(strategy, m, n, k, devs[i], cuts[i])]]

-----------------------------------------------------------------------------
(* PlacementPlan.validate: every index of the cut dimension is in exactly  *)
(* one shard, and the shards are whole in the other two.                   *)
CutOf(strategy, s) ==
  CASE strategy = "row_blocks" -> s.rows
    [] strategy = "col_blocks" -> s.cols
    [] strategy = "k_split"    -> s.ks

ExactlyOnce(p) ==
  \A x \in 0..(Extent(p.strategy, p.m, p.n, p.k) - 1) :
    \E i \in DOMAIN p.shards :
      \A j \in DOMAIN p.shards : In(x, CutOf(p.strategy, p.shards[j])) <=> i = j

Valid(p) ==
  /\ p.strategy = "k_split" => p.k > 0
  /\ \A i \in DOMAIN p.shards :
       LET s == p.shards[i]
           cut == CutOf(p.strategy, s)
       IN  /\ 0 <= cut.lo /\ cut.lo < cut.hi
           /\ cut.hi <= Extent(p.strategy, p.m, p.n, p.k)
           /\ p.strategy # "row_blocks" => s.rows = Span(0, p.m)
           /\ p.strategy # "col_blocks" => s.cols = Span(0, p.n)
           /\ p.strategy = "row_blocks" => p.n > 0
  /\ ExactlyOnce(p)

(* What the partition functions accept; they raise on anything else.       *)
Buildable(strategy, m, n, k, devs) ==
  /\ devs # << >>
  /\ strategy = "k_split" => k > 0
  /\ Valid(MakePlan(strategy, m, n, k, devs, "VE_NLC"))

-----------------------------------------------------------------------------
(* C as the multiplications summed into it: <<i, j, l>> stands for         *)
(* A[i, l] * B[l, j] in C[i, j], and the product holds each once.          *)
Cells(p)    == (0..(p.m - 1)) \X (0..(p.n - 1)) \X (0..(p.k - 1))
Product(p)  == [x \in Cells(p) |-> 1]
Zeros(p)    == [x \in Cells(p) |-> 0]
InBlock(s, x) == In(x[1], s.rows) /\ In(x[2], s.cols)
Covers(s, x)  == InBlock(s, x) /\ In(x[3], s.ks)
=============================================================================
