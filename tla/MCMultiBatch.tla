-------------------------- MODULE MCMultiBatch --------------------------
(* MultiBatch for TLC: every setting, one to four batches.                 *)
EXTENDS MultiBatch

MCSettings == {s \in Setting : s.app = "spmv" => ~s.phi}
HeteroSettings == {s \in Setting : s.app = "hetero" /\ s.overlap}
AllFaults == FaultKinds
NoFaults == {}
=============================================================================
