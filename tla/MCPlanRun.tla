----------------------------- MODULE MCPlanRun -----------------------------
(* PlanRun for TLC: two VEs, extents zero to three.                          *)
EXTENDS PlanRun

MCVeIds == 1..2
MCDevices == <<1, 2>>
MCShapes == {<<0, 1, 1>>, <<3, 2, 1>>, <<1, 1, 3>>}
MCBackends == {"VE_NLC", "PHI_MKL", "HOST_REF"}
=============================================================================
