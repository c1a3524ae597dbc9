------------------------------ MODULE OneShot ------------------------------
(***************************************************************************)
(* Calls that build a program if need be, run it once and read its result: *)
(* run_ve_dgemm_shard (backends/ve_dgemm.py), run_phi_dgemm                *)
(* (backends/phi_dgemm.py), run_phi_prep_scale (backends/phi_prep.py) and  *)
(* _prep_scale around it (runtime/job_runner.py), host_avx512_dgemm,       *)
(* host_blocked_dgemm and host_numpy_dgemm (backends/host_dgemm.py).       *)
(* Several threads make them at once: the shards of one product, or the    *)
(* jobs of several processes.  A VE shard has its own files; the calls on  *)
(* the Phi all use the same two.                                           *)
(***************************************************************************)
EXTENDS Kernels

CONSTANTS
  Calls,      \* the calls
  Setups,     \* what each of them may be: functions from Calls to Setup
  RunFaults   \* a subset of RunFaultKinds

(* "build": a compiler or the probe of its license fails;  "copy": writing *)
(* the built program breaks off;  "run": a transfer or a run fails;        *)
(* "time": what runs outlasts its limit.                                   *)
RunFaultKinds == {"build", "copy", "run", "time"}
(* "phi" is run_phi_dgemm with backend auto, "mkl" with mkl; "prep" is     *)
(* run_phi_prep_scale alone, "scale" as _prep_scale and                    *)
(* run_spmv_dataprep_pipeline call it, with the host behind it.            *)
Kinds == {"ve", "phi", "mkl", "prep", "scale", "host", "tiled", "numpy"}
(* ncc and gcc write their programs under the final name; those for the    *)
(* card are made in a container and copied out.                            *)
InContainer == {"mkl", "imci", "prep"}
Programs == InContainer \cup {"ve", "host"}
Libraries == {"omp", "mkl"}
Setup == [kind : Kinds, m : Nat, n : Nat, k : Nat, threads : Nat \ {0}]

ASSUME OneShotAssumption ==
  /\ IsFiniteSet(Calls) /\ Calls \cap {"phi", "prep", "nobody"} = {}
  /\ Setups \subseteq [Calls -> Setup]
  /\ \A f \in Setups, c \in Calls : f[c].m > 0 /\ f[c].n > 0 /\ f[c].k > 0
  /\ RunFaults \subseteq RunFaultKinds

VARIABLES
  setup,     \* what each call is
  license,   \* the Intel compiler has its license
  made,      \* each program in the container: "none", its compiler, or its writer
  program,   \* each built program: "absent", "whole", "broken" or its writer
  icc,       \* dgemm_rect.mic was built by icc, not by k1om-gcc
  target,    \* the program each call wants
  pc,        \* each call
  libs,      \* the libraries on the card: "absent", "whole", "part" or the writer
  kernel,    \* the kernel in the program each call runs, "torn" for a part
  input,     \* whose operands each input file holds
  output,    \* whose product each output file holds, and by which kernel
  run,       \* the process each call started
  operands,  \* whose operands it read
  got,       \* what each call returned
  alone      \* history: no other call touched the files of this one

buildVars == <<license, made, program, icc, target>>
runVars   == <<libs, kernel, input, output, run, operands, got, alone>>
vars      == <<setup, buildVars, pc, runVars>>

Nobody == "nobody"
NoFile == [of |-> Nobody, by |-> "none"]
Kind(c) == setup[c].kind
Scales(c) == Kind(c) \in {"prep", "scale"}
OnPhi(c) == Kind(c) \in {"phi", "mkl"} \/ Scales(c)
InProcess(c) == Kind(c) \in {"host", "tiled", "numpy"}

(* The programs a call may build, with auto on the Phi either of two.      *)
MayWant(c) ==
  IF Kind(c) = "phi" THEN {"mkl", "imci"}
  ELSE IF Scales(c) THEN {"prep"} ELSE Programs \cap {Kind(c)}

(* The input and output files a call uses: fixed paths on the Phi, its own *)
(* work directory elsewhere.                                               *)
Files(c) == IF ~OnPhi(c) THEN c ELSE IF Scales(c) THEN "prep" ELSE "phi"
FileNames == Calls \cup {"phi", "prep"}

(* Of the programs and libraries, those nobody asks for are left out.      *)
Init ==
  /\ setup \in Setups /\ license \in BOOLEAN
  /\ made = [p \in InContainer |-> "none"]
  /\ program \in [Programs -> {"absent", "whole"}]
  /\ \A p \in Programs : program[p] = "whole" => \E c \in Calls : p \in MayWant(c)
  /\ icc \in BOOLEAN /\ (icc => license /\ program["imci"] = "whole")
  /\ libs \in [Libraries -> {"absent", "part", "whole"}]
  /\ \A l \in Libraries : libs[l] # "absent" => \E c \in Calls : OnPhi(c)
  /\ target = [c \in Calls |-> "none"] /\ pc = [c \in Calls |-> "start"]
  /\ kernel = [c \in Calls |-> "torn"]
  /\ input = [f \in FileNames |-> Nobody] /\ output = [f \in FileNames |-> NoFile]
  /\ run = [c \in Calls |-> "none"] /\ operands = [c \in Calls |-> Nobody]
  /\ got = [c \in Calls |-> NoFile] /\ alone = [c \in Calls |-> TRUE]

Goto(c, where) == pc' = [pc EXCEPT ![c] = where]

-----------------------------------------------------------------------------
(* Building.  A file that is there and no older than its source is taken   *)
(* as it is, whole or not.                                                 *)
LooksBuilt(p) == program[p] # "absent"
Find(c, p) ==
  /\ target' = [target EXCEPT ![c] = p]
  /\ Goto(c, IF LooksBuilt(p) THEN "stage" ELSE "build")

(* try_icc_license: the license file is copied into the container and a    *)
(* trial program compiled; what fails there counts as no license, but a    *)
(* probe that outlasts its time limit raises.                              *)
LicenseSeen(ok) == ok = license \/ (~ok /\ "build" \in RunFaults)

(* auto prefers MKL where there is a license; the others want one program, *)
(* or none.                                                                *)
BeginPhi(c) ==
  /\ Kind(c) = "phi"
  /\ \E ok \in BOOLEAN : LicenseSeen(ok) /\ Find(c, IF ok THEN "mkl" ELSE "imci")

ProbeTimesOut(c) ==
  /\ pc[c] = "start" /\ Kind(c) = "phi" /\ "time" \in RunFaults
  /\ Goto(c, "raised")
  /\ UNCHANGED <<setup, buildVars, runVars>>

BeginOne(c) == Kind(c) # "phi" /\ \E p \in MayWant(c) : Find(c, p)

BeginInProcess(c) == MayWant(c) = {} /\ Goto(c, "stage") /\ UNCHANGED target

Begin(c) ==
  /\ pc[c] = "start"
  /\ BeginPhi(c) \/ BeginOne(c) \/ BeginInProcess(c)
  /\ UNCHANGED <<setup, license, made, program, icc, runVars>>

(* "except Exception": auto tries the IMCI program when MKL's fails.       *)
BuildRaises(c) ==
  IF Kind(c) = "phi" /\ target[c] = "mkl" THEN Find(c, "imci")
  ELSE Goto(c, "raised") /\ UNCHANGED target

NeedsLicense(p) == p \in {"mkl", "prep"}

CompilerFails(c) ==
  /\ pc[c] \in {"build", "making"}
  /\ "build" \in RunFaults \/ (NeedsLicense(target[c]) /\ ~license)
  /\ made' = [p \in InContainer |-> IF made[p] = c THEN "none" ELSE made[p]]
  /\ BuildRaises(c)
  /\ UNCHANGED <<setup, license, program, icc, runVars>>

(* The file appears under its final name and grows: gcc or ncc writes it,  *)
(* or podman cp.                                                           *)
WriteProgram(c) ==
  /\ program' = [program EXCEPT ![target[c]] = c]
  /\ Goto(c, "building")
  /\ UNCHANGED <<setup, license, made, icc, target, runVars>>

CompileVe(c) == pc[c] = "build" /\ target[c] = "ve" /\ WriteProgram(c)

CompileHost(c) == pc[c] = "build" /\ target[c] = "host" /\ WriteProgram(c)

(* In the container all builds of a program use one path: one that begins  *)
(* while another copies its result out may spoil the copy.                 *)
Make(c) ==
  /\ made' = [made EXCEPT ![target[c]] = c]
  /\ \/ UNCHANGED program
     \/ /\ program[target[c]] \in Calls
        /\ program' = [program EXCEPT ![target[c]] = "broken"]
  /\ Goto(c, "making")
  /\ UNCHANGED <<setup, license, icc, target, runVars>>

MakeImci(c) == pc[c] = "build" /\ target[c] = "imci" /\ Make(c)

MakeMkl(c) == pc[c] = "build" /\ target[c] = "mkl" /\ license /\ Make(c)

MakePrep(c) == pc[c] = "build" /\ target[c] = "prep" /\ license /\ Make(c)

(* dgemm_rect.mic is icc's where there is a license.  Of two compilers at  *)
(* once the file is that of the one that began last.                       *)
MakeEnds(c) ==
  /\ pc[c] = "making"
  /\ \E ok \in BOOLEAN :
       /\ LicenseSeen(ok) /\ (NeedsLicense(target[c]) => ok)
       /\ made' = [made EXCEPT ![target[c]] = IF @ # c THEN @ ELSE IF ok THEN "icc" ELSE "gcc"]
  /\ Goto(c, "made")
  /\ UNCHANGED <<setup, license, program, icc, target, runVars>>

CopyOut(c) == pc[c] = "made" /\ WriteProgram(c)

(* Of two writers at once the file is that of the one that began last; a   *)
(* copy of what another compiler is writing is a part.                     *)
BuildEnds(c) ==
  /\ pc[c] = "building"
  /\ LET p == target[c]
         whole == p \in InContainer => made[p] \in {"icc", "gcc"}
     IN  IF program[p] # c THEN UNCHANGED <<program, icc>>
         ELSE /\ program' = [program EXCEPT ![p] = IF whole THEN "whole" ELSE "broken"]
              /\ icc' = IF p = "imci" THEN made[p] = "icc" ELSE icc
  /\ Goto(c, "stage")
  /\ UNCHANGED <<setup, license, made, target, runVars>>

(* Writing breaks off: the part stays there.                               *)
WriteBreaks(c) ==
  /\ pc[c] = "building" /\ "copy" \in RunFaults
  /\ program' = [program EXCEPT ![target[c]] = IF @ = c THEN "broken" ELSE @]
  /\ BuildRaises(c)
  /\ UNCHANGED <<setup, license, made, icc, runVars>>

-----------------------------------------------------------------------------
KernelNow(c) ==
  IF target[c] \in Programs /\ program[target[c]] # "whole" THEN "torn"
  ELSE CASE InProcess(c) /\ target[c] = "none" -> Kind(c)
         [] target[c] = "ve"   -> "nlc"
         [] target[c] = "host" -> "avx512"
         [] target[c] = "mkl"  -> "mkl"
         [] target[c] = "prep" -> "prep"
         [] target[c] = "imci" -> IF icc THEN "imci" ELSE "pthread"

Alive(c) == run[c] \in {"started", "computing", "writing"}
Staged == {"putting", "staged", "deploying", "deployed", "waiting"}
Same(c, d) == d # c /\ Files(d) = Files(c)

(* A VE shard writes its operands to a file of its own.                    *)
StageVe(c) ==
  /\ pc[c] = "stage" /\ Kind(c) = "ve"
  /\ Goto(c, "putting")
  /\ UNCHANGED <<setup, buildVars, runVars>>

(* On the card: scp of the program as it is now, then of the input file,   *)
(* which is written over; a call already using it is not alone any more,   *)
(* and this one is if nobody, not even a run that was given up, is still   *)
(* at it.                                                                  *)
StagePhi(c) ==
  /\ pc[c] = "stage" /\ OnPhi(c)
  /\ kernel' = [kernel EXCEPT ![c] = KernelNow(c)]
  /\ input' = [input EXCEPT ![Files(c)] = Nobody]
  /\ alone' = [d \in Calls |->
       IF d = c THEN ~ \E e \in Calls : Same(c, e) /\ (pc[e] \in Staged \/ Alive(e))
       ELSE alone[d] /\ ~(Same(c, d) /\ pc[d] \in Staged)]
  /\ Goto(c, "putting")
  /\ UNCHANGED <<setup, buildVars, libs, output, run, operands, got>>

PutEnds(c) ==
  /\ pc[c] = "putting"
  /\ input' = [input EXCEPT ![Files(c)] = c]
  /\ Goto(c, "staged")
  /\ UNCHANGED <<setup, buildVars, libs, kernel, output, run, operands, got, alone>>

(* _deploy_mic_libs: what is not on the card is uploaded; "test -s" takes  *)
(* a part for the library, and nobody looks how an upload ended.           *)
Needs(c) == IF target[c] = "mkl" THEN Libraries ELSE {"omp"}
Deploy(c) ==
  /\ pc[c] = "staged" /\ OnPhi(c)
  /\ libs' = [l \in Libraries |->
                IF l \in Needs(c) /\ libs[l] = "absent" THEN c ELSE libs[l]]
  /\ Goto(c, "deploying")
  /\ UNCHANGED <<setup, buildVars, kernel, input, output, run, operands, got, alone>>

DeployEnds(c) ==
  /\ pc[c] = "deploying"
  /\ \E left \in {"whole"} \cup {"part" : f \in RunFaults \cap {"run"}} :
       libs' = [l \in Libraries |-> IF libs[l] = c THEN left ELSE libs[l]]
  /\ Goto(c, "deployed")
  /\ UNCHANGED <<setup, buildVars, kernel, input, output, run, operands, got, alone>>

DeployTimesOut(c) ==
  /\ pc[c] = "deploying" /\ "time" \in RunFaults
  /\ libs' = [l \in Libraries |-> IF libs[l] = c THEN "part" ELSE libs[l]]
  /\ Goto(c, "raised")
  /\ UNCHANGED <<setup, buildVars, kernel, input, output, run, operands, got, alone>>

(* ve_exec is given the program itself, as it is now, ssh the copy on the  *)
(* card; half a program does not run, nor one with half a library.  Only   *)
(* k1om-gcc's needs none.                                                  *)
LaunchVe(c) ==
  /\ pc[c] = "staged" /\ Kind(c) = "ve"
  /\ kernel' = [kernel EXCEPT ![c] = KernelNow(c)]
  /\ run' = [run EXCEPT ![c] = IF KernelNow(c) = "torn" THEN "failed" ELSE "started"]
  /\ Goto(c, "waiting")
  /\ UNCHANGED <<setup, buildVars, libs, input, output, operands, got, alone>>

Loads(c) ==
  \/ kernel[c] = "pthread"
  \/ kernel[c] # "torn" /\ \A l \in Needs(c) : libs[l] = "whole"
LaunchPhi(c) ==
  /\ pc[c] = "deployed"
  /\ run' = [run EXCEPT ![c] = IF Loads(c) THEN "started" ELSE "failed"]
  /\ Goto(c, "waiting")
  /\ UNCHANGED <<setup, buildVars, libs, kernel, input, output, operands, got, alone>>

(* The process: read the input, compute, truncate the output, write it.    *)
RunReads(c) ==
  /\ run[c] = "started"
  /\ operands' = [operands EXCEPT ![c] = input[Files(c)]]
  /\ \/ run' = [run EXCEPT ![c] = "computing"]
     \/ input[Files(c)] = Nobody /\ run' = [run EXCEPT ![c] = "failed"]
  /\ UNCHANGED <<setup, buildVars, pc, libs, kernel, input, output, got, alone>>

RunOpens(c) ==
  /\ run[c] = "computing"
  /\ output' = [output EXCEPT ![Files(c)] = NoFile]
  /\ run' = [run EXCEPT ![c] = "writing"]
  /\ UNCHANGED <<setup, buildVars, pc, libs, kernel, input, operands, got, alone>>

RunWrites(c) ==
  /\ run[c] = "writing"
  /\ output' = [output EXCEPT ![Files(c)] = [of |-> operands[c], by |-> kernel[c]]]
  /\ run' = [run EXCEPT ![c] = "done"]
  /\ UNCHANGED <<setup, buildVars, pc, libs, kernel, input, operands, got, alone>>

RunFails(c) ==
  /\ Alive(c) /\ "run" \in RunFaults
  /\ run' = [run EXCEPT ![c] = "failed"]
  /\ UNCHANGED <<setup, buildVars, pc, libs, kernel, input, output, operands, got, alone>>

(* Variant: the exit status is not looked at.                              *)
SucceededAnyway(c) == run[c] \in {"done", "failed"}

Succeeded(c) == run[c] = "done"

(* status: what the call decodes agrees with the host's.  The operands of  *)
(* two calls differ, so that of another call's it never does, whatever     *)
(* their shapes.                                                           *)
Agrees(c, out) ==
  out.of = c /\ Computed(out.by, setup[c], setup[c].threads) = Product(setup[c])

(* Variant: _prep_scale does not look at the status.                       *)
TakesAnyway(c, out) == out # NoFile

(* A part of an output file cannot be decoded.  The status is returned     *)
(* with the result; the callers with the host behind them act on it.       *)
Takes(c, out) == out # NoFile /\ (Kind(c) = "scale" => Agrees(c, out))

Get(c) ==
  /\ pc[c] = "waiting" /\ Succeeded(c)
  /\ LET out == output[Files(c)]
     IN  IF Takes(c, out) THEN got' = [got EXCEPT ![c] = out] /\ Goto(c, "returned")
         ELSE Goto(c, "raised") /\ UNCHANGED got
  /\ UNCHANGED <<setup, buildVars, libs, kernel, input, output, run, operands, alone>>

GetNothing(c) ==
  /\ pc[c] = "waiting" /\ run[c] = "failed"
  /\ Goto(c, "raised")
  /\ UNCHANGED <<setup, buildVars, runVars>>

TransferFails(c) ==
  /\ pc[c] = "putting" /\ "run" \in RunFaults
  /\ Goto(c, "raised")
  /\ UNCHANGED <<setup, buildVars, runVars>>

(* subprocess.run kills what it started: ve_exec, but on the Phi only ssh, *)
(* and the program there goes on.                                          *)
TimesOut(c) ==
  /\ pc[c] = "waiting" /\ Alive(c) /\ "time" \in RunFaults
  /\ run' = IF OnPhi(c) THEN run ELSE [run EXCEPT ![c] = "failed"]
  /\ Goto(c, "raised")
  /\ UNCHANGED <<setup, buildVars, libs, kernel, input, output, operands, got, alone>>

(* Whatever was raised, and when the status is not "pass", the host scales. *)
ScaleOnHost(c) ==
  /\ pc[c] = "raised" /\ Kind(c) = "scale"
  /\ got' = [got EXCEPT ![c] = [of |-> c, by |-> "numpy"]]
  /\ Goto(c, "returned")
  /\ UNCHANGED <<setup, buildVars, libs, kernel, input, output, run, operands, alone>>

(* The host's kernels are called in the process: a part of a library does  *)
(* not load.                                                               *)
Call(c) ==
  /\ pc[c] = "stage" /\ InProcess(c)
  /\ kernel' = [kernel EXCEPT ![c] = KernelNow(c)]
  /\ IF KernelNow(c) = "torn" THEN Goto(c, "raised") /\ UNCHANGED got
     ELSE /\ got' = [got EXCEPT ![c] = [of |-> c, by |-> KernelNow(c)]]
          /\ Goto(c, "returned")
  /\ UNCHANGED <<setup, buildVars, libs, input, output, run, operands, alone>>

Step(c) ==
  \/ Begin(c) \/ ProbeTimesOut(c) \/ CompilerFails(c) \/ CompileVe(c) \/ CompileHost(c)
  \/ MakeImci(c) \/ MakeMkl(c) \/ MakePrep(c) \/ MakeEnds(c) \/ CopyOut(c)
  \/ BuildEnds(c) \/ WriteBreaks(c) \/ StageVe(c) \/ StagePhi(c) \/ PutEnds(c)
  \/ Deploy(c) \/ DeployEnds(c) \/ DeployTimesOut(c) \/ LaunchVe(c) \/ LaunchPhi(c) \/ Get(c)
  \/ GetNothing(c) \/ TransferFails(c) \/ TimesOut(c) \/ ScaleOnHost(c) \/ Call(c)
Run(c) == RunReads(c) \/ RunOpens(c) \/ RunWrites(c) \/ RunFails(c)

Over(c) == pc[c] \in {"returned", "raised"} /\ ~Alive(c)
Finished == (\A c \in Calls : Over(c)) /\ UNCHANGED vars
Next == (\E c \in Calls : Step(c) \/ Run(c)) \/ Finished
Spec == Init /\ [][Next]_vars

-----------------------------------------------------------------------------
(* What a call returns is the product of its own operands, each term added *)
(* once: on the VE and the host always, whatever the other calls do; on    *)
(* the Phi when no other call and no run that was given up used the files  *)
(* at the same time, or when the caller falls back to the host on a bad    *)
(* status.  It holds whatever the build cache and the card held and        *)
(* whoever was building.                                                   *)
ReturnedIsProduct ==
  \A c \in Calls : pc[c] = "returned" /\ (alone[c] \/ Kind(c) = "scale")
                     => Agrees(c, got[c])
=============================================================================
