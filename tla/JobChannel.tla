---------------------------- MODULE JobChannel ----------------------------
(***************************************************************************)
(* What a device worker promises to the code that submits jobs to it,      *)
(* without files and without polling: jobs are submitted one after the     *)
(* other, each is run at most once and only while its submitter waits for  *)
(* it, and a reply is either the outcome of that run or the news that      *)
(* there will be none.  VeWorker and PhiWorker implement it as long as no  *)
(* job outlasts the wait for it.                                           *)
(***************************************************************************)
EXTENDS Naturals

CONSTANTS
  NJobs,
  Exact  \* TRUE when "ok" is the reply only of a job that was done

VARIABLES
  phase,    \* the submitter: "idle", "waiting" or "closed"
  job,      \* the last job submitted, 0 before
  outcome,  \* the verdict of each job's run, "none" before it has run
  reply     \* what the submitter was told

channelVars == <<phase, job, outcome, reply>>

Init ==
  /\ phase = "idle" /\ job = 0
  /\ outcome = [j \in 1..NJobs |-> "none"]
  /\ reply = [j \in 1..NJobs |-> "none"]

Submit ==
  /\ phase = "idle" /\ job < NJobs
  /\ job' = job + 1 /\ phase' = "waiting"
  /\ UNCHANGED <<outcome, reply>>

(* The submitter waits for the very job that runs, and it ran never before.*)
Run ==
  /\ phase = "waiting" /\ outcome[job] = "none"
  /\ \E v \in {"DONE", "FAIL"} : outcome' = [outcome EXCEPT ![job] = v]
  /\ UNCHANGED <<phase, job, reply>>

Honest(v) == IF v = "DONE" THEN "ok" ELSE "fail"

Reply ==
  /\ phase = "waiting" /\ outcome[job] # "none"
  /\ \E r \in {Honest(outcome[job])} \cup (IF Exact THEN {} ELSE {"ok"}) :
        reply' = [reply EXCEPT ![job] = r]
  /\ phase' = "idle"
  /\ UNCHANGED <<job, outcome>>

Lose ==
  /\ phase = "waiting"
  /\ reply' = [reply EXCEPT ![job] = "lost"] /\ phase' = "idle"
  /\ UNCHANGED <<job, outcome>>

Close ==
  /\ phase = "idle" /\ phase' = "closed"
  /\ UNCHANGED <<job, outcome, reply>>

Next == Submit \/ Run \/ Reply \/ Lose \/ Close

Spec == Init /\ [][Next]_channelVars
=============================================================================
