--------------------------- MODULE MCJobServer ---------------------------
(* JobServer for TLC: two connections, one or two nodes, a preload smaller *)
(* than some of the jobs.                                                  *)
EXTENDS JobServer, JobSpec

S(m, n, k) == [m |-> m, n |-> n, k |-> k]
MCNodes == {1, 2}
MCNodeSets == {{1}, {2}}
Small == S(1, 1, 1)
Tall  == S(2, 1, 1)
Wide  == S(1, 2, 1)
MCShapes == {Small, Tall, Wide}
MCPreload == Small

Ctl(op) == [op |-> op, path |-> "host", node |-> 1, shape |-> NoShape, mode |-> "grow",
            single |-> FALSE, oneshot |-> FALSE, close |-> FALSE]

J(type, devices, shape, backend, mode, oneshot, close) ==
  [type |-> type, hostOnly |-> FALSE, devices |-> devices, shape |-> shape,
   fileA |-> NotGiven, fileB |-> NotGiven,
   backend |-> backend, forceVe |-> FALSE, mode |-> mode,
   oneshot |-> oneshot, close |-> close]

WithFiles(job, a, b) == [job EXCEPT !.fileA = a, !.fileB = b]
Mat(r, c) == [rows |-> r, cols |-> c]

(* Jobs of every type, that run on the host or raise, that grow, replace   *)
(* and close sessions, that name their operands' files; two VEs were found. *)
MCJobs ==
  {WithFiles(J("dense_batch", << >>, Small, "auto", "grow", FALSE, TRUE),
             Mat(2, 1), Mat(1, 1)),
   WithFiles(J("dense_batch", << >>, Small, "ve", "grow", FALSE, FALSE),
             NotGiven, Mat(2, 2)),
   WithFiles(J("phi_prep_ve_gemm", << >>, Small, "ve", "grow", FALSE, FALSE),
             NoMatrix, NotGiven),
   J("dense_batch",      <<1, 2>>, Wide, "ve",   "strict", FALSE, TRUE),
   J("phi_prep_ve_gemm", <<1>>,   Tall, "ve",   "grow",   TRUE,  FALSE),
   J("dense_batch",      << >>,   Tall, "host", "grow",   FALSE, TRUE),
   J("sparse_dense",     <<3, 2>>, Wide, "auto", "strict", FALSE, FALSE),
   J("dataprep",         <<1>>,   Wide, "auto", "strict", FALSE, FALSE),
   J("no such type",     << >>,   Small, "auto", "grow",  FALSE, FALSE)}
MCFound == <<1, 2>>
MCRequests ==
  {Ctl("shutdown"), Ctl("bad")}
    \cup UNION {{JobRequest(job, FALSE, MCFound, rec) :
                   rec \in Recommended(ResolveDevices(job, FALSE, MCFound))} : job \in MCJobs}
OpenCallFaults == {"open", "call"}
=============================================================================
