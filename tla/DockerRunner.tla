----------------------------- MODULE DockerRunner -----------------------------
(***************************************************************************)
(* DockerJobRunner.submit against one Docker daemon.  A run is one call,   *)
(* for one delivery of a scan's task: it ensures the images, creates two   *)
(* volumes, runs the steps one container at a time, and deletes the        *)
(* volumes in a finally block.  Volumes are named by the scan's id,        *)
(* containers by the step and the first eight digits of it, and nothing    *)
(* ever removes a container that has stopped.                              *)
(*                                                                         *)
(* External: the daemon removes a volume only when no container refers to  *)
(* it, running or not, and makes a missing one when a container is         *)
(* created; git clone wants an empty directory.                            *)
(***************************************************************************)
EXTENDS Naturals, Sequences

CONSTANTS
  Scans,
  Runs,         \* calls of submit
  ShortIds,     \* first eight digits of scan ids
  Draws,        \* what an instance starts from: those digits by scan, scans by run
  SecretScan,   \* spec.secret_scan_enabled
  None

ASSUME DrawsAssumption == Draws \subseteq [Scans -> ShortIds] \X [Runs -> Scans]
ASSUME SecretScanAssumption == SecretScan \in BOOLEAN
Chain == IF SecretScan THEN <<"clone", "syft", "grype", "secret-scan", "reporter">>
                       ELSE <<"clone", "syft", "grype", "reporter">>
Steps == {Chain[i] : i \in DOMAIN Chain}
Files == {"sha", "sbom", "findings", "secrets"}   \* what the steps leave in /artifacts

VARIABLES
  short,     \* the first eight digits of each scan's id, drawn at random
  run,       \* the calls of submit
  box,       \* containers, by name
  vols,      \* the volumes there are: <<scan, "workspace">>, <<scan, "artifacts">>
  work,      \* what a workspace volume holds
  art        \* which run has written a file of an artifacts volume

vars == <<short, run, box, vols, work, art>>

Active == {"images", "workspace", "artifacts", "step", "created", "wait",
           "drop_workspace", "drop_artifacts"}
Over   == {"returned", "raised", "lost"}

Run == [scan: Scans,             \* spec.scan_id
        pc: Active \cup Over,
        at: DOMAIN Chain,        \* the step it is at
        failed: BOOLEAN,         \* failed_step is not None
        raising: BOOLEAN,        \* an exception is on its way through finally
        told: {"none", "ingesting", "reporting"},   \* history: how its reporter started
        exited: BOOLEAN]         \* history: its reporter has stopped or was removed

Box == [run: Runs, st: {"created", "running", "ok", "bad"},
        clean: BOOLEAN]          \* clone: it found an empty workspace

ASSUME NoneAssumption == None \notin Runs \cup Box

Names == Steps \X ShortIds

TypeOK ==
  /\ short \in [Scans -> ShortIds]
  /\ run \in [Runs -> Run]
  /\ box \in [Names -> Box \cup {None}]
  /\ vols \subseteq Scans \X {"workspace", "artifacts"}
  /\ work \in [Scans -> {"empty", "partial", "repo"}]
  /\ art \in [Scans -> [Files -> Runs \cup {None}]]

Init ==
  /\ \E draw \in Draws :
       /\ short = draw[1]
       /\ run = [r \in Runs |->
            [scan |-> draw[2][r], pc |-> "images", at |-> 1, failed |-> FALSE,
             raising |-> FALSE, told |-> "none", exited |-> FALSE]]
  /\ box = [n \in Names |-> None]
  /\ vols = {}
  /\ work = [s \in Scans |-> "empty"]
  /\ art = [s \in Scans |-> [f \in Files |-> None]]

--------------------------------------------------------------------------------
ScanOf(r) == run[r].scan

Volume(r) == ScanOf(r)      \* named by the whole id

StepOf(r) == Chain[run[r].at]
Name(r)   == <<StepOf(r), short[ScanOf(r)]>>
Mine(r)   == box[Name(r)] # None /\ box[Name(r)].run = r

Mounts(step) == IF step \in {"grype", "reporter"} THEN {"artifacts"} ELSE {"workspace", "artifacts"}

InUse(s, kind) == \E n \in Names :
  box[n] # None /\ Volume(box[n].run) = s /\ kind \in Mounts(n[1])

Goto(r, pc) == run' = [run EXCEPT ![r].pc = pc]

(* An exception inside the try block: the finally block is next.           *)
Raise(r) == run' = [run EXCEPT ![r].pc = "drop_workspace", ![r].raising = TRUE]

--------------------------------------------------------------------------------
EnsureImages(r) ==
  /\ run[r].pc = "images"
  /\ Goto(r, "workspace")
  /\ UNCHANGED <<short, box, vols, work, art>>

CreateWorkspace(r) ==
  /\ run[r].pc = "workspace"
  /\ vols' = vols \cup {<<Volume(r), "workspace">>}
  /\ Goto(r, "artifacts")
  /\ UNCHANGED <<short, box, work, art>>

CreateArtifacts(r) ==
  /\ run[r].pc = "artifacts"
  /\ vols' = vols \cup {<<Volume(r), "artifacts">>}
  /\ Goto(r, "step")
  /\ UNCHANGED <<short, box, work, art>>

(* Before the try block an error leaves submit at once.                    *)
PrepareFails(r) ==
  /\ run[r].pc \in {"images", "workspace", "artifacts"}
  /\ Goto(r, "raised")
  /\ UNCHANGED <<short, box, vols, work, art>>

(* create_or_replace: a container of that name is removed, whoever made it *)
(* and whatever it is doing.                                               *)
CreateBox(r) ==
  LET old == box[Name(r)] IN
  /\ run[r].pc = "step"
  /\ box' = [box EXCEPT ![Name(r)] = [run |-> r, st |-> "created", clean |-> FALSE]]
  /\ vols' = vols \cup {<<Volume(r), kind>> : kind \in Mounts(StepOf(r))}
  /\ run' = [q \in Runs |->
       IF q = r THEN [run[q] EXCEPT !.pc = "created"]
       ELSE IF StepOf(r) = "reporter" /\ old # None /\ old.run = q /\ old.st = "running"
       THEN [run[q] EXCEPT !.exited = TRUE] ELSE run[q]]
  /\ UNCHANGED <<short, work, art>>

Told(r) ==
  IF StepOf(r) # "reporter" THEN "none"
  ELSE IF run[r].failed THEN "reporting" ELSE "ingesting"

StartBox(r) ==
  LET s == Volume(r)
      clean == StepOf(r) = "clone" /\ work[s] = "empty"
  IN
  /\ run[r].pc = "created" /\ Mine(r)
  /\ box' = [box EXCEPT ![Name(r)].st = "running", ![Name(r)].clean = clean]
  /\ work' = IF clean THEN [work EXCEPT ![s] = "partial"] ELSE work
  /\ run' = [run EXCEPT ![r].pc = "wait", ![r].told = Told(r)]
  /\ UNCHANGED <<short, vols, art>>

(* The daemon refuses to create or to start the container, or it is gone.  *)
StepFails(r) ==
  /\ run[r].pc \in {"step", "created"}
  /\ Raise(r)
  /\ UNCHANGED <<short, box, vols, work, art>>

(* The run goes on: after an exit code of 0 with the next step, after any  *)
(* other one with the reporter.                                            *)
NextStep(r) == run' = [run EXCEPT ![r].at = @ + 1, ![r].pc = "step"]
GiveUp(r)   == run' = [run EXCEPT ![r].failed = TRUE, ![r].at = Len(Chain), ![r].pc = "step"]

(* Mutant: an expired deadline is an exit code like any other.             *)
WaitTimesOutAsExit(r) ==
  /\ run[r].pc = "wait" /\ Mine(r) /\ box[Name(r)].st = "running"
  /\ IF StepOf(r) = "reporter" THEN Goto(r, "drop_workspace") ELSE GiveUp(r)
  /\ UNCHANGED <<short, box, vols, work, art>>

(* Mutant: the reporter is a step like the others.                         *)
WaitReturnsPastReporter(r) ==
  /\ run[r].pc = "wait" /\ Mine(r)
  /\ \/ box[Name(r)].st = "ok" /\ NextStep(r)
     \/ box[Name(r)].st = "bad" /\ GiveUp(r)
  /\ UNCHANGED <<short, box, vols, work, art>>

(* The first step that exits non-zero sends the run to the reporter; the   *)
(* reporter's own exit code changes nothing.                               *)
WaitReturns(r) ==
  /\ run[r].pc = "wait" /\ Mine(r)
  /\ \/ StepOf(r) # "reporter" /\ box[Name(r)].st = "ok"  /\ NextStep(r)
     \/ StepOf(r) # "reporter" /\ box[Name(r)].st = "bad" /\ GiveUp(r)
     \/ StepOf(r) = "reporter" /\ box[Name(r)].st \in {"ok", "bad"} /\ Goto(r, "drop_workspace")
  /\ UNCHANGED <<short, box, vols, work, art>>

(* Mutant: wait is called without a timeout.                               *)
WaitForEver(r) ==
  /\ run[r].pc = "wait" /\ ~ Mine(r)
  /\ Raise(r)
  /\ UNCHANGED <<short, box, vols, work, art>>

(* The deadline passes, and the container keeps running.                   *)
WaitTimesOut(r) ==
  /\ run[r].pc = "wait" /\ Mine(r) /\ box[Name(r)].st = "running"
  /\ Raise(r)
  /\ UNCHANGED <<short, box, vols, work, art>>

(* Another run has replaced the container: its logs are a 404.             *)
WaitFindsNothing(r) ==
  /\ run[r].pc = "wait" /\ ~ Mine(r)
  /\ Raise(r)
  /\ UNCHANGED <<short, box, vols, work, art>>

(* Mutant: the volumes are removed by force, with whatever refers to them. *)
DropWorkspaceByForce(r) ==
  /\ run[r].pc = "drop_workspace"
  /\ vols' = vols \ {<<Volume(r), "workspace">>}
  /\ work' = [work EXCEPT ![Volume(r)] = "empty"]
  /\ Goto(r, "drop_artifacts")
  /\ UNCHANGED <<short, box, art>>

(* _delete_volume: a refusal is logged, and that is all.                   *)
DropWorkspace(r) ==
  LET s == Volume(r) IN
  /\ run[r].pc = "drop_workspace"
  /\ IF InUse(s, "workspace")
       THEN UNCHANGED <<vols, work>>
       ELSE /\ vols' = vols \ {<<s, "workspace">>}
            /\ work' = [work EXCEPT ![s] = "empty"]
  /\ Goto(r, "drop_artifacts")
  /\ UNCHANGED <<short, box, art>>

(* Mutant: the same for the artifacts.                                     *)
DropArtifactsByForce(r) ==
  /\ run[r].pc = "drop_artifacts"
  /\ vols' = vols \ {<<Volume(r), "artifacts">>}
  /\ art' = [art EXCEPT ![Volume(r)] = [f \in Files |-> None]]
  /\ Goto(r, IF run[r].raising THEN "raised" ELSE "returned")
  /\ UNCHANGED <<short, box, work>>

DropArtifacts(r) ==
  LET s == Volume(r) IN
  /\ run[r].pc = "drop_artifacts"
  /\ IF InUse(s, "artifacts")
       THEN UNCHANGED <<vols, art>>
       ELSE /\ vols' = vols \ {<<s, "artifacts">>}
            /\ art' = [art EXCEPT ![s] = [f \in Files |-> None]]
  /\ Goto(r, IF run[r].raising THEN "raised" ELSE "returned")
  /\ UNCHANGED <<short, box, work>>

WorkerDies(r) ==
  /\ run[r].pc \in Active
  /\ Goto(r, "lost")
  /\ UNCHANGED <<short, box, vols, work, art>>

--------------------------------------------------------------------------------
(* The containers.                                                         *)

Produces(step) ==
  CASE step = "clone" -> "sha" [] step = "syft" -> "sbom"
    [] step = "grype" -> "findings" [] step = "secret-scan" -> "secrets"

(* What a step needs in order to exit 0; the reporter asks for nothing, it *)
(* reports what is missing.                                                *)
CanSucceed(n) ==
  LET s == Volume(box[n].run) IN
  CASE n[1] = "clone"       -> box[n].clean
    [] n[1] = "grype"       -> art[s]["sbom"] # None
    [] n[1] = "secret-scan" -> work[s] = "repo"
    [] OTHER                -> TRUE

BoxSucceeds(n) ==
  LET r == box[n].run
      s == Volume(r)
  IN
  /\ CanSucceed(n)
  /\ box' = [box EXCEPT ![n].st = "ok"]
  /\ work' = IF n[1] = "clone" THEN [work EXCEPT ![s] = "repo"] ELSE work
  /\ art' = IF n[1] = "reporter" THEN art ELSE [art EXCEPT ![s][Produces(n[1])] = r]

(* A clone that fails tidies up after itself unless it is killed.          *)
BoxFails(n) ==
  LET s == Volume(box[n].run) IN
  /\ box' = [box EXCEPT ![n].st = "bad"]
  /\ \/ UNCHANGED work
     \/ box[n].clean /\ work' = [work EXCEPT ![s] = "empty"]
  /\ UNCHANGED art

BoxExits(n) ==
  /\ box[n] # None /\ box[n].st = "running"
  /\ BoxSucceeds(n) \/ BoxFails(n)
  /\ run' = IF n[1] = "reporter" THEN [run EXCEPT ![box[n].run].exited = TRUE] ELSE run
  /\ UNCHANGED <<short, vols>>

--------------------------------------------------------------------------------
SubmitStep(r) ==
  \/ EnsureImages(r) \/ CreateWorkspace(r) \/ CreateArtifacts(r) \/ PrepareFails(r)
  \/ CreateBox(r) \/ StartBox(r) \/ StepFails(r)
  \/ WaitReturns(r) \/ WaitTimesOut(r) \/ WaitFindsNothing(r)
  \/ DropWorkspace(r) \/ DropArtifacts(r)

Next ==
  \/ \E r \in Runs : SubmitStep(r) \/ WorkerDies(r)
  \/ \E n \in Names : BoxExits(n)

Spec == Init /\ [][Next]_vars

(* The worker runs submit, and every wait has its deadline.  Nothing is    *)
(* assumed of the containers.                                              *)
FairSpec == Spec /\ \A r \in Runs : WF_vars(SubmitStep(r))

--------------------------------------------------------------------------------
(* Properties.                                                             *)

(* Another scan's id starts with the same eight digits.                    *)
Collides(s) == \E t \in Scans : t # s /\ short[t] = short[s]

(* On docker a scan is ingested at most once, however often its task is    *)
(* delivered: what the first run's stopped containers keep alive makes the *)
(* clone of every later one fail.                                          *)
OneIngestPerScan == \A q, r \in Runs :
  /\ q # r /\ ScanOf(q) = ScanOf(r) /\ ~ Collides(ScanOf(r))
  /\ run[q].told = "ingesting"
  => run[r].told # "ingesting"

(* While a reporter ingests, the artifacts below it are those its own run  *)
(* has made: no other delivery overwrites or removes them.                 *)
ReporterReadsOwnArtifacts == \A r \in Runs :
  run[r].told = "ingesting" /\ ~ run[r].exited /\ ~ Collides(ScanOf(r)) =>
    \A f \in Files :
      art[ScanOf(r)][f] = IF f = "secrets" /\ ~ SecretScan THEN None ELSE r

(* submit has returned: no container of that run is still working.  Only   *)
(* an exception or the worker's death leaves one behind.                   *)
ReturnedLeavesNothingRunning == \A n \in Names :
  box[n] # None /\ box[n].st = "running" => run[box[n].run].pc # "returned"

(* Every call of submit comes to an end, whatever the containers do.       *)
EverySubmitEnds == \A r \in Runs : <>(run[r].pc \in Over)

(* What ScanOrchestration assumes of this runner.                          *)
Contract == INSTANCE SubmitContract WITH
  submit   <- [r \in Runs |-> IF run[r].pc \in Over THEN run[r].pc ELSE "working"],
  reporter <- [r \in Runs |-> IF run[r].exited THEN "exited" ELSE run[r].told]

ImplementsContract == Contract!ContractSpec

================================================================================
