-------------------------- MODULE MCSessionCalls --------------------------
(* SessionCalls for TLC: two nodes, dimensions none of which dominates.     *)
EXTENDS SessionCalls

S(m, n, k) == [m |-> m, n |-> n, k |-> k]
MCNodes == {1, 2}
MCNodeSets == {{1}, {1, 2}}
MCShapes == {NoShape, S(1, 1, 1), S(2, 1, 1), S(1, 1, 2), S(2, 2, 1)}
AllSessionFaults == {"open", "alloc"}
=============================================================================
