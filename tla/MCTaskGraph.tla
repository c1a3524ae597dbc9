--------------------------- MODULE MCTaskGraph ---------------------------
(* TaskGraph for TLC: the three nodes of build_spmv_gemm_graph_fns and one *)
(* more, which shares the host with the first; the graphs are its chain    *)
(* beside that node, a longer chain, the diamond of examples/e4_job_dag.py, *)
(* independent nodes, cycles, a missing name and every graph on a few      *)
(* names.                                                                  *)
EXTENDS TaskGraph

MCTasks == {"spmv", "prep", "gemm", "reduce"}
MCNames == MCTasks \cup {"other"}
Beside  == [t \in MCTasks |-> IF t = "reduce" THEN {} ELSE SpmvGemmDeps[t]]
Chain   == [Beside EXCEPT !["reduce"] = {"gemm"}]
Diamond == [t \in MCTasks |-> CASE t = "spmv" -> {} [] t = "reduce" -> {"prep", "gemm"}
                                [] OTHER -> {"spmv"}]
Free    == [t \in MCTasks |-> {}]
Cycle   == [Diamond EXCEPT !["spmv"] = {"reduce"}]
LateCycle == [Diamond EXCEPT !["prep"] = {"spmv", "reduce"}]
Missing == [Diamond EXCEPT !["gemm"] = {"other"}]
MCGraphs == {Beside, Chain, Diamond, Free, Cycle, LateCycle, Missing}
              \cup [MCTasks -> SUBSET {"spmv", "prep", "other"}]

MCDevice == [t \in MCTasks |->
               IF t = "reduce" THEN "host" ELSE SpmvGemmDevice(TRUE, <<"ve0", "ve1">>)[t]]
MCWatts  == [t \in MCTasks |-> CASE t = "spmv" -> 6 [] t = "reduce" -> 2 [] t = "prep" -> 3 [] OTHER -> 9]
MCAsync   == {"spmv", "prep"}
MCRaises  == SpmvGemmRaises \cup {"reduce"}
MCReports == SpmvGemmReports(TRUE) \cup {"reduce"}
MCCritical == SpmvGemmCritical
=============================================================================
