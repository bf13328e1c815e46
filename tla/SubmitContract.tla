---------------------------- MODULE SubmitContract ----------------------------
(***************************************************************************)
(* What ScanOrchestration assumes of DockerJobRunner.submit: the reporter  *)
(* is the last thing a run starts, it is told whether a step before it     *)
(* failed, and submit returns only once it has exited.  Everything else is *)
(* an exception or a dead worker, which may leave the reporter running.    *)
(***************************************************************************)
CONSTANTS Runs

VARIABLES
  submit,    \* the call of each run
  reporter   \* its reporter container

contractVars == <<submit, reporter>>

Started == {"ingesting", "reporting"}   \* without, with IPPON_FAILED=1

ContractInit ==
  /\ submit = [r \in Runs |-> "working"]
  /\ reporter = [r \in Runs |-> "none"]

StartReporter(r) ==
  /\ submit[r] = "working" /\ reporter[r] = "none"
  /\ \E how \in Started : reporter' = [reporter EXCEPT ![r] = how]
  /\ UNCHANGED submit

ReporterExits(r) ==
  /\ reporter[r] \in Started
  /\ reporter' = [reporter EXCEPT ![r] = "exited"]
  /\ UNCHANGED submit

SubmitReturns(r) ==
  /\ submit[r] = "working" /\ reporter[r] = "exited"
  /\ submit' = [submit EXCEPT ![r] = "returned"]
  /\ UNCHANGED reporter

SubmitRaises(r) ==
  /\ submit[r] = "working"
  /\ submit' = [submit EXCEPT ![r] = "raised"]
  /\ UNCHANGED reporter

WorkerDies(r) ==
  /\ submit[r] = "working"
  /\ submit' = [submit EXCEPT ![r] = "lost"]
  /\ UNCHANGED reporter

ContractNext == \E r \in Runs :
  \/ StartReporter(r) \/ ReporterExits(r)
  \/ SubmitReturns(r) \/ SubmitRaises(r) \/ WorkerDies(r)

ContractSpec == ContractInit /\ [][ContractNext]_contractVars
================================================================================
