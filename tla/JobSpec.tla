------------------------------ MODULE JobSpec ------------------------------
(***************************************************************************)
(* From a job's JSON to what its thread does with the shared session       *)
(* (runtime/job_runner.py): the devices, the choice between host and VE,   *)
(* and what each job type takes from its fields.                           *)
(***************************************************************************)
EXTENDS Integers, Sequences, SequencesExt

DenseTypes  == {"dense_batch", "phi_prep_ve_gemm"}
SingleTypes == {"sparse_dense", "dataprep"}

(* A file of a job: none is named, or no matrix can be loaded from it.     *)
NotGiven == [rows |-> 0, cols |-> 0]
NoMatrix == [rows |-> -1, cols |-> -1]

(* A job: devices is << >> for "auto", an unknown type has no runner;      *)
(* fileA and fileB are "matrix_a" and "matrix_b", which dense jobs know.   *)
Job(types, devs, shapes, files) ==
  [type : types, hostOnly : BOOLEAN, devices : Seq(devs), shape : shapes,
   fileA : files, fileB : files, backend : {"auto", "host", "ve"}, forceVe : BOOLEAN, mode : {"grow", "strict"},
   oneshot : BOOLEAN, close : BOOLEAN]

(* _resolve_devices: the named devices that were found, else all of them;  *)
(* found is << >> without the VE toolchain.                                *)
ResolveDevices(job, hostOnly, found) ==
  LET named == SelectSeq(job.devices, LAMBDA d : d \in ToSet(found))
  IN  IF hostOnly \/ job.hostOnly THEN << >>
      ELSE IF named = << >> THEN found ELSE named

(* recommend_backend (partition/dispatch.py), without a Phi: the cheapest  *)
(* by floating-point estimates, of the host and the VE if there is one.    *)
Recommended(devs) == {"host"} \cup (IF devs = << >> THEN {} ELSE {"ve"})

(* Only the dense jobs follow the recommendation, unless told not to.      *)
UseHost(job, devs, recommended) ==
  \/ devs = << >>
  \/ job.backend = "host" /\ ~(job.type \in DenseTypes /\ job.forceVe)
  \/ /\ job.type \in DenseTypes /\ job.backend = "auto" /\ ~job.forceVe
     /\ recommended = "host"

(* The shape of the operands, some of it from the files.                   *)
LoadedShape(job) ==
  [m |-> IF job.fileA = NotGiven THEN job.shape.m ELSE job.fileA.rows,
   k |-> IF job.fileA = NotGiven THEN job.shape.k ELSE job.fileA.cols,
   n |-> IF job.fileB = NotGiven THEN job.shape.n ELSE job.fileB.cols]

(* load_array raises for what is no matrix, the job for one that does not  *)
(* fit.                                                                    *)
LoadFails(job) ==
  \/ NoMatrix \in {job.fileA, job.fileB}
  \/ job.fileB # NotGiven /\ job.fileB.rows # LoadedShape(job).k

(* run_job: the request as its thread carries it out.  A single GEMM has   *)
(* no comparison with ve_exec and does not close the session; dataprep     *)
(* knows no pin_mode.                                                      *)
JobRequest(job, hostOnly, found, recommended) ==
  LET devs  == ResolveDevices(job, hostOnly, found)
      known == job.type \in DenseTypes \cup SingleTypes
      host  == UseHost(job, devs, recommended)
      dense == job.type \in DenseTypes
  IN  [op      |-> "run",
       path    |-> IF ~known \/ (dense /\ LoadFails(job)) THEN "raises" ELSE IF host THEN "host" ELSE "aveo",
       node    |-> IF devs = << >> THEN Head(found) ELSE Head(devs),
       shape   |-> IF ~dense \/ LoadFails(job) THEN job.shape ELSE LoadedShape(job),
       mode    |-> IF job.type = "dataprep" THEN "grow" ELSE job.mode,
       single  |-> known /\ ~dense,
       oneshot |-> dense /\ ~host /\ job.oneshot,
       close   |-> dense /\ job.close]
=============================================================================
