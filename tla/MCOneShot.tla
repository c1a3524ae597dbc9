----------------------------- MODULE MCOneShot -----------------------------
(* OneShot for TLC: two calls at once.  Vectors of two doubles, unrolled   *)
(* by two, so that rows of up to seven meet the unrolled loop, the vectors *)
(* and the rest.                                                           *)
EXTENDS OneShot

S(kind, m, n, k, threads) ==
  [kind |-> kind, m |-> m, n |-> n, k |-> k, threads |-> threads]
Pair(s, t) == [c \in Calls |-> IF c = CHOOSE d \in Calls : TRUE THEN s ELSE t]

(* One call in every shape with every kernel, beside another of its kind.  *)
Shapes == {<<1, 7, 3>>, <<3, 5, 2>>, <<5, 2, 1>>, <<2, 4, 5>>}
MCSetups ==
  {Pair(S(kind, s[1], s[2], s[3], 4), S(kind, 2, 1, 1, 1)) : kind \in {"phi", "host"}, s \in Shapes}
    \cup {Pair(S(kind, s[1], s[2], 1, 1), S("ve", 1, 1, 1, 1)) :
            kind \in {"prep", "tiled", "ve"}, s \in Shapes}
    \cup {Pair(S("phi", 1, 1, 1, 1), S("prep", 2, 2, 1, 1)),
          Pair(S("mkl", 2, 1, 1, 1), S("phi", 1, 3, 1, 1)),
          Pair(S("prep", 1, 1, 1, 1), S("prep", 1, 2, 1, 1)),
          Pair(S("scale", 1, 3, 1, 1), S("scale", 1, 3, 1, 1)),
          Pair(S("tiled", 5, 3, 4, 1), S("numpy", 2, 2, 2, 1))}
AllRunFaults == RunFaultKinds
=============================================================================
