----------------------------- MODULE Placement -----------------------------
(***************************************************************************)
(* choose_best_placement (partition/cost_model.py): which plans it weighs  *)
(* and what it falls back to.  The estimates are floating point: any of    *)
(* the candidates may turn out the cheapest.  A power cap leaves room for  *)
(* some number of VEs beside what is reserved, as all draw the same.       *)
(***************************************************************************)
EXTENDS Partition

CONSTANTS
  AllSubsetsUpTo,  \* up to so many devices every subset is tried (4)
  MinPanel         \* the thinnest K panel a k_split may give a device (32)

(* The devices whose positions are in I, in their order.                   *)
Pick(devs, I) ==
  [r \in 1..Cardinality(I) |->
     devs[CHOOSE i \in I : Cardinality({j \in I : j <= i}) = r]]

Subsets(devs, size) ==
  IF Len(devs) <= AllSubsetsUpTo
  THEN {Pick(devs, I) : I \in {J \in SUBSET DOMAIN devs : Cardinality(J) = size}}
  ELSE {Pick(devs, 1..size)}

Candidates(m, n, k, devs, backend, room) ==
  {MakePlan(c[1], m, n, k, c[2], backend) :
     c \in {x \in Strategies \X (UNION {Subsets(devs, d) : d \in DOMAIN devs}) :
              /\ Len(x[2]) <= room
              /\ x[1] = "k_split" => k >= Len(x[2]) * MinPanel
              /\ Buildable(x[1], m, n, k, x[2])}}

(* Without a candidate, rows on the first device, whatever the cap says;   *)
(* an empty result stands for the ValueError of the partition function.    *)
Chosen(m, n, k, devs, backend, room) ==
  LET cs == Candidates(m, n, k, devs, backend, room)
      first == Pick(devs, {1})
  IN  IF cs # {} THEN cs
      ELSE IF Buildable("row_blocks", m, n, k, first)
           THEN {MakePlan("row_blocks", m, n, k, first, backend)}
           ELSE {}
=============================================================================
