-------------------------- MODULE DockerRunnerProofs --------------------------
(***************************************************************************)
(* The Docker runner, for any number of scans, deliveries and collisions   *)
(* of their ids, with or without the scan for secrets.                     *)
(***************************************************************************)
EXTENDS DockerRunner, TLAPS

CloneBox(s) == box[<<"clone", short[s]>>]

(* Nothing failed, and the clone is behind it.                             *)
Cloned(r) == run[r].at > 1 /\ ~ run[r].failed

(* Before the container of the step was started.                           *)
Early == {"images", "workspace", "artifacts", "step", "created"}

(* The reporter was waited for.                                            *)
Reported(r) ==
  \/ run[r].pc \in {"drop_workspace", "drop_artifacts"} /\ ~ run[r].raising
  \/ run[r].pc = "returned"

(* What a run has told its reporter, and what it knows of it.              *)
RunFacts(r) ==
  /\ run[r].failed => run[r].at = Len(Chain)
  /\ run[r].told # "none" => run[r].at = Len(Chain) /\ (run[r].told = "ingesting" <=> ~ run[r].failed)
  /\ run[r].exited => run[r].told # "none"
  /\ run[r].pc \in Early => run[r].told = "none"
  /\ Reported(r) => run[r].exited /\ (Mine(r) => box[Name(r)].st \in {"ok", "bad"})

RunInv == \A r \in Runs : RunFacts(r)

(* A container is named after its run's scan, and one that has not exited  *)
(* is the one its run is at.                                               *)
BoxFacts(n) ==
  /\ n[2] = short[ScanOf(box[n].run)]
  /\ box[n].clean => n[1] = "clone"
  /\ box[n].st \in {"created", "running"} => n[1] = StepOf(box[n].run)
  /\ n[1] = "reporter" /\ box[n].st = "running" =>
       run[box[n].run].told # "none" /\ ~ run[box[n].run].exited
  /\ n[1] = "reporter" /\ box[n].st \in {"ok", "bad"} => run[box[n].run].exited

BoxInv == \A n \in Names : box[n] # None => BoxFacts(n)

(* The clone of a scan is a lock that is never given back: one container   *)
(* finds the workspace empty, and what is left of it keeps it from being   *)
(* emptied.  The run behind that container is the only one to write the    *)
(* artifacts.                                                              *)
CloneRunning(s) ==
  CloneBox(s) # None /\ CloneBox(s).st = "running" /\ CloneBox(s).clean => work[s] = "partial"

CloneDone(s) ==
  CloneBox(s) # None /\ CloneBox(s).st = "ok" =>
    /\ work[s] = "repo"
    /\ \A q \in Runs : ScanOf(q) = s /\ Cloned(q) => q = CloneBox(s).run

ClonedOnce(s) == \A r \in Runs : ScanOf(r) = s /\ Cloned(r) =>
  /\ CloneBox(s) # None
  /\ work[s] = "repo"
  /\ \A q \in Runs : ScanOf(q) = s /\ Cloned(q) => q = r
  /\ \A i \in DOMAIN Chain : i < run[r].at => art[s][Produces(Chain[i])] = r

StepDone(s) == \A r \in Runs :
  ScanOf(r) = s /\ run[r].pc = "wait" /\ Mine(r) /\ box[Name(r)].st = "ok" /\ StepOf(r) # "reporter"
  => art[s][Produces(StepOf(r))] = r

ScanInv == \A s \in Scans : ~ Collides(s) =>
  CloneRunning(s) /\ CloneDone(s) /\ ClonedOnce(s) /\ StepDone(s)

SecretsInv == ~ SecretScan => \A s \in Scans : art[s]["secrets"] = None

DockerInv == TypeOK /\ RunInv /\ BoxInv /\ ScanInv /\ SecretsInv
--------------------------------------------------------------------------------
(* The two chains, spelled out.                                            *)
LEMMA ChainShape ==
  /\ Len(Chain) \in Nat /\ Len(Chain) > 1 /\ DOMAIN Chain = 1 .. Len(Chain)
  /\ Chain[1] = "clone" /\ Chain[Len(Chain)] = "reporter"
  /\ \A i, j \in DOMAIN Chain : Chain[i] = Chain[j] => i = j
  /\ \A i \in DOMAIN Chain : Chain[i] \in Steps
  /\ \A i \in DOMAIN Chain : Chain[i] \in {"clone", "syft", "grype", "secret-scan", "reporter"}
  /\ ~ SecretScan => \A i \in DOMAIN Chain : Chain[i] # "secret-scan"
  /\ \A f \in Files : (f = "secrets" /\ ~ SecretScan)
       \/ \E i \in DOMAIN Chain : i < Len(Chain) /\ Produces(Chain[i]) = f
<1>1. CASE SecretScan
  <2>1. Chain = <<"clone", "syft", "grype", "secret-scan", "reporter">>
    BY <1>1 DEF Chain
  <2>2. Len(Chain) = 5 /\ DOMAIN Chain = 1 .. 5
    BY <2>1
  <2>3. ASSUME NEW f \in Files
        PROVE  \E i \in DOMAIN Chain : i < Len(Chain) /\ Produces(Chain[i]) = f
    <3>1. 1 \in DOMAIN Chain /\ 2 \in DOMAIN Chain /\ 3 \in DOMAIN Chain /\ 4 \in DOMAIN Chain
      BY <2>2
    <3>2. /\ Produces(Chain[1]) = "sha" /\ Produces(Chain[2]) = "sbom"
          /\ Produces(Chain[3]) = "findings" /\ Produces(Chain[4]) = "secrets"
      BY <2>1 DEF Produces
    <3>. QED BY <2>2, <3>1, <3>2 DEF Files
  <2>. QED BY <1>1, <2>1, <2>2, <2>3 DEF Steps
<1>2. CASE ~ SecretScan
  <2>1. Chain = <<"clone", "syft", "grype", "reporter">>
    BY <1>2 DEF Chain
  <2>2. Len(Chain) = 4 /\ DOMAIN Chain = 1 .. 4
    BY <2>1
  <2>3. ASSUME NEW f \in Files, f # "secrets"
        PROVE  \E i \in DOMAIN Chain : i < Len(Chain) /\ Produces(Chain[i]) = f
    <3>1. 1 \in DOMAIN Chain /\ 2 \in DOMAIN Chain /\ 3 \in DOMAIN Chain
      BY <2>2
    <3>2. /\ Produces(Chain[1]) = "sha" /\ Produces(Chain[2]) = "sbom"
          /\ Produces(Chain[3]) = "findings"
      BY <2>1 DEF Produces
    <3>. QED BY <2>2, <2>3, <3>1, <3>2 DEF Files
  <2>. QED BY <1>2, <2>1, <2>2, <2>3 DEF Steps
<1>. QED BY <1>1, <1>2

(* No two steps leave the same file.                                       *)
LEMMA ProducesApart ==
  \A a, b \in {"clone", "syft", "grype", "secret-scan"} :
    /\ Produces(a) \in Files
    /\ Produces(a) = Produces(b) => a = b
    /\ Produces(a) = "secrets" => a = "secret-scan"
  BY DEF Produces, Files

LEMMA DockerInitial == Init => DockerInv
<1>. SUFFICES ASSUME Init PROVE DockerInv
  OBVIOUS
<1>1. PICK draw \in Draws :
        /\ short = draw[1]
        /\ run = [r \in Runs |->
             [scan |-> draw[2][r], pc |-> "images", at |-> 1, failed |-> FALSE,
              raising |-> FALSE, told |-> "none", exited |-> FALSE]]
  BY DEF Init
<1>2. draw[1] \in [Scans -> ShortIds] /\ draw[2] \in [Runs -> Scans]
  BY DrawsAssumption
<1>3. box = [n \in Names |-> None] /\ vols = {} /\ work = [s \in Scans |-> "empty"]
      /\ art = [s \in Scans |-> [f \in Files |-> None]]
  BY DEF Init
<1>4. run \in [Runs -> Run]
  BY <1>1, <1>2, ChainShape DEF Run, Active
<1>5. TypeOK
  BY <1>1, <1>2, <1>3, <1>4 DEF TypeOK
<1>6. RunInv
  BY <1>1 DEF RunInv, RunFacts, Reported
<1>7. BoxInv
  BY <1>3 DEF BoxInv, BoxFacts
<1>8. ScanInv
  <2>. SUFFICES ASSUME NEW s \in Scans
                PROVE  CloneRunning(s) /\ CloneDone(s) /\ ClonedOnce(s) /\ StepDone(s)
    BY DEF ScanInv
  <2>1. CloneBox(s) = None
    <3>1. <<"clone", short[s]>> \in Names
      BY <1>1, <1>2, ChainShape DEF Names
    <3>. QED BY <1>3, <3>1 DEF CloneBox
  <2>2. \A r \in Runs : ~ Cloned(r)
    BY <1>1 DEF Cloned
  <2>3. \A r \in Runs : ~ Mine(r)
    <3>. SUFFICES ASSUME NEW r \in Runs PROVE box[Name(r)] = None
      BY DEF Mine
    <3>1. Name(r) \in Names
      BY <1>1, <1>2, <1>4, ChainShape DEF Name, StepOf, Names, ScanOf
    <3>. QED BY <1>3, <3>1
  <2>. QED BY <2>1, <2>2, <2>3 DEF CloneRunning, CloneDone, ClonedOnce, StepDone
<1>9. SecretsInv
  BY <1>3 DEF SecretsInv, Files
<1>. QED BY <1>5, <1>6, <1>7, <1>8, <1>9 DEF DockerInv

--------------------------------------------------------------------------------
(* What the steps change.                                                  *)

LEMMA NameIsName ==
  ASSUME TypeOK, NEW r \in Runs
  PROVE  /\ run[r] \in Run /\ ScanOf(r) \in Scans /\ StepOf(r) \in Steps /\ Name(r) \in Names
         /\ Name(r)[1] = StepOf(r) /\ Name(r)[2] = short[ScanOf(r)]
         /\ StepOf(r) = "reporter" <=> run[r].at = Len(Chain)
         /\ StepOf(r) = "clone" <=> run[r].at = 1
<1>1. run[r] \in Run /\ short[ScanOf(r)] \in ShortIds
  BY DEF TypeOK, Run, ScanOf
<1>. QED BY <1>1, ChainShape DEF Run, ScanOf, StepOf, Name, Names

(* The steps that only move the control of a run: to the next stage, to    *)
(* the finally block, or out.                                              *)
Moves(r) ==
  \/ EnsureImages(r) \/ CreateWorkspace(r) \/ CreateArtifacts(r) \/ PrepareFails(r)
  \/ StepFails(r) \/ WaitTimesOut(r) \/ WaitFindsNothing(r)
  \/ DropWorkspace(r) \/ DropArtifacts(r) \/ WorkerDies(r)

LEMMA MoveView ==
  ASSUME TypeOK, NEW r \in Runs, Moves(r)
  PROVE  /\ UNCHANGED <<short, box>> /\ run' \in [Runs -> Run]
         /\ \A q \in Runs : q # r => run'[q] = run[q]
         /\ \A q \in Runs : run'[q] = [run[q] EXCEPT !.pc = run'[q].pc, !.raising = run'[q].raising]
         /\ run'[r].pc \in Early => run[r].pc \in Early
         /\ run'[r].pc # "wait"
         /\ Reported(r)' => Reported(r)
<1>1. run[r] \in Run /\ run \in [Runs -> Run]
  BY DEF TypeOK
<1>2. UNCHANGED <<short, box>>
  BY SMTT(30) DEF Moves, EnsureImages, CreateWorkspace, CreateArtifacts, PrepareFails, StepFails,
         WaitTimesOut, WaitFindsNothing, DropWorkspace, DropArtifacts, WorkerDies
<1>3. PICK pc \in (Active \cup Over) \ {"wait"}, raising \in BOOLEAN :
        /\ run' = [run EXCEPT ![r] = [run[r] EXCEPT !.pc = pc, !.raising = raising]]
        /\ pc \in Early => run[r].pc \in Early
        /\ (pc \in {"drop_workspace", "drop_artifacts"} /\ ~ raising) \/ pc = "returned" => Reported(r)
  <2>1. ASSUME NEW pc, Goto(r, pc)
        PROVE  run' = [run EXCEPT ![r] = [run[r] EXCEPT !.pc = pc, !.raising = run[r].raising]]
    BY <1>1, <2>1 DEF Goto, Run
  <2>2. ASSUME Raise(r)
        PROVE  run' = [run EXCEPT ![r] = [run[r] EXCEPT !.pc = "drop_workspace", !.raising = TRUE]]
    BY <1>1, <2>2 DEF Raise, Run
  <2>3. run[r].raising \in BOOLEAN
    BY <1>1 DEF Run
  <2>4. CASE EnsureImages(r) \/ CreateWorkspace(r) \/ CreateArtifacts(r)
    <3>1. PICK pc \in {"workspace", "artifacts", "step"} : Goto(r, pc) /\ run[r].pc \in Early
      BY <2>4 DEF EnsureImages, CreateWorkspace, CreateArtifacts, Early
    <3>. QED BY <2>1, <2>3, <3>1 DEF Active
  <2>5. CASE PrepareFails(r) \/ WorkerDies(r)
    <3>1. PICK pc \in {"raised", "lost"} : Goto(r, pc)
      BY <2>5 DEF PrepareFails, WorkerDies
    <3>. QED BY <2>1, <2>3, <3>1 DEF Over, Early
  <2>6. CASE StepFails(r) \/ WaitTimesOut(r) \/ WaitFindsNothing(r)
    <3>1. Raise(r)
      BY <2>6 DEF StepFails, WaitTimesOut, WaitFindsNothing
    <3>. QED BY <2>2, <3>1 DEF Active, Early
  <2>7. CASE DropWorkspace(r)
    BY <2>1, <2>3, <2>7 DEF DropWorkspace, Active, Early, Reported
  <2>8. CASE DropArtifacts(r)
    BY <2>1, <2>3, <2>8 DEF DropArtifacts, Over, Early, Reported
  <2>. QED BY <2>4, <2>5, <2>6, <2>7, <2>8 DEF Moves
<1>4. [run[r] EXCEPT !.pc = pc, !.raising = raising] \in Run
  BY <1>1 DEF Run
<1>5. run'[r].pc = pc /\ run'[r].raising = raising
  BY <1>1, <1>3 DEF Run
<1>6. \A q \in Runs : run[q] = [run[q] EXCEPT !.pc = run[q].pc, !.raising = run[q].raising]
  BY <1>1 DEF Run
<1>. QED BY <1>1, <1>2, <1>3, <1>4, <1>5, <1>6 DEF Reported

(* Only what no container refers to is emptied.                            *)
LEMMA MoveStores ==
  ASSUME TypeOK, NEW r \in Runs, Moves(r)
  PROVE  /\ vols' \subseteq Scans \X {"workspace", "artifacts"}
         /\ work' \in [Scans -> {"empty", "partial", "repo"}]
         /\ art' \in [Scans -> [Files -> Runs \cup {None}]]
         /\ \A s \in Scans : work'[s] = work[s] \/ ~ InUse(s, "workspace")
         /\ \A s \in Scans : art'[s] = art[s] \/ ~ InUse(s, "artifacts")
         /\ \A s \in Scans, f \in Files : art'[s][f] \in {art[s][f], None}
<1>1. Volume(r) \in Scans
  BY NameIsName DEF Volume
<1>2. CASE DropWorkspace(r)
  BY <1>1, <1>2 DEF DropWorkspace, TypeOK
<1>3. CASE DropArtifacts(r)
  <2>1. UNCHANGED work /\ vols' \subseteq vols
    BY <1>3 DEF DropArtifacts
  <2>2. \/ art' = art
        \/ ~ InUse(Volume(r), "artifacts") /\ art' = [art EXCEPT ![Volume(r)] = [f \in Files |-> None]]
    BY <1>3 DEF DropArtifacts
  <2>3. CASE art' = art
    BY <2>1, <2>3 DEF TypeOK
  <2>4. CASE ~ InUse(Volume(r), "artifacts") /\ art' = [art EXCEPT ![Volume(r)] = [f \in Files |-> None]]
    <3>1. art' \in [Scans -> [Files -> Runs \cup {None}]]
      BY <2>4 DEF TypeOK
    <3>2. \A s \in Scans : art'[s] = IF s = Volume(r) THEN [f \in Files |-> None] ELSE art[s]
      BY <2>4 DEF TypeOK
    <3>. QED BY <2>1, <2>4, <3>1, <3>2 DEF TypeOK
  <2>. QED BY <2>2, <2>3, <2>4
<1>4. CASE CreateWorkspace(r) \/ CreateArtifacts(r)
  BY <1>1, <1>4 DEF CreateWorkspace, CreateArtifacts, TypeOK
<1>5. CASE UNCHANGED <<vols, work, art>>
  BY <1>5 DEF TypeOK
<1>. QED BY <1>2, <1>3, <1>4, <1>5 DEF Moves, EnsureImages, PrepareFails, StepFails, WaitTimesOut,
            WaitFindsNothing, WorkerDies

(* Every container that carries the digits of a scan mounts its volumes,   *)
(* unless another scan has them too.                                       *)
LEMMA KeptInUse ==
  ASSUME TypeOK, BoxInv, NEW s \in Scans, ~ Collides(s),
         NEW n \in Names, box[n] # None, n[2] = short[s]
  PROVE  /\ ScanOf(box[n].run) = s /\ box[n].run \in Runs
         /\ InUse(s, "artifacts")
         /\ n[1] = "clone" => InUse(s, "workspace")
<1>1. box[n] \in Box /\ box[n].run \in Runs
  BY DEF TypeOK, Box
<1>2. ScanOf(box[n].run) \in Scans /\ short[ScanOf(box[n].run)] = short[s]
  BY <1>1, NameIsName DEF BoxInv, BoxFacts
<1>3. ScanOf(box[n].run) = s
  BY <1>2 DEF Collides
<1>. QED BY <1>1, <1>3 DEF InUse, Volume, Mounts

LEMMA CloneName ==
  ASSUME TypeOK, NEW s \in Scans
  PROVE  <<"clone", short[s]>> \in Names
  BY ChainShape DEF TypeOK, Names

(* What is known of a container that a step leaves alone.                  *)
LEMMA BoxCarries ==
  ASSUME TypeOK, BoxInv, NEW m \in Names, box'[m] = box[m], box[m] # None,
         UNCHANGED short,
         run'[box[m].run].scan = run[box[m].run].scan,
         run'[box[m].run].at = run[box[m].run].at \/ box[m].st \notin {"created", "running"},
         m[1] = "reporter" /\ box[m].st = "running" =>
           run'[box[m].run].told # "none" /\ ~ run'[box[m].run].exited,
         run[box[m].run].exited => run'[box[m].run].exited
  PROVE  BoxFacts(m)'
<1>. DEFINE b == box[m]
            q == box[m].run
<1>1. BoxFacts(m)
  BY DEF BoxInv
<1>2. ScanOf(q)' = ScanOf(q)
  BY DEF ScanOf
<1>3. b.st \in {"created", "running"} => StepOf(q)' = StepOf(q)
  BY DEF StepOf
<1>. QED BY <1>1, <1>2, <1>3 DEF BoxFacts

LEMMA MoveKeeps ==
  ASSUME DockerInv, NEW r \in Runs, Moves(r) PROVE DockerInv'
<1>1. TypeOK /\ RunInv /\ BoxInv /\ ScanInv /\ SecretsInv
  BY DEF DockerInv
<1>2. /\ UNCHANGED <<short, box>> /\ run' \in [Runs -> Run]
      /\ \A q \in Runs : q # r => run'[q] = run[q]
      /\ run'[r].pc \in Early => run[r].pc \in Early
      /\ run'[r].pc # "wait"
      /\ Reported(r)' => Reported(r)
  BY <1>1, MoveView
<1>3. ASSUME NEW q \in Runs
      PROVE  /\ run'[q].scan = run[q].scan /\ run'[q].at = run[q].at
             /\ run'[q].failed = run[q].failed /\ run'[q].told = run[q].told
             /\ run'[q].exited = run[q].exited
  <2>1. run[q] \in Run
    BY <1>1 DEF TypeOK
  <2>2. run'[q] = [run[q] EXCEPT !.pc = run'[q].pc, !.raising = run'[q].raising]
    BY <1>1, MoveView
  <2>. QED BY <2>1, <2>2 DEF Run
<1>4. TypeOK'
  BY <1>1, <1>2, MoveStores DEF TypeOK
<1>5. \A q \in Runs : /\ ScanOf(q)' = ScanOf(q) /\ StepOf(q)' = StepOf(q) /\ Name(q)' = Name(q)
                      /\ (Mine(q) <=> Mine(q)') /\ (Cloned(q) <=> Cloned(q)')
                      /\ Reported(q)' => Reported(q)
                      /\ run'[q].pc \in Early => run[q].pc \in Early
                      /\ run'[q].pc = "wait" => run[q].pc = "wait"
  BY <1>2, <1>3 DEF ScanOf, StepOf, Name, Mine, Cloned, Reported
<1>6. RunInv'
  BY <1>1, <1>2, <1>3, <1>5 DEF RunInv, RunFacts, Early
<1>7. BoxInv'
  <2>1. \A n \in Names : box[n] # None => box[n].run \in Runs
    BY <1>1 DEF TypeOK, Box
  <2>. QED BY <1>1, <1>2, <1>3, <1>5, <2>1 DEF BoxInv, BoxFacts
<1>8. ASSUME NEW s \in Scans, ~ Collides(s)'
      PROVE  (CloneRunning(s) /\ CloneDone(s) /\ ClonedOnce(s) /\ StepDone(s))'
  <2>1. ~ Collides(s) /\ CloneRunning(s) /\ CloneDone(s) /\ ClonedOnce(s) /\ StepDone(s)
    BY <1>1, <1>2, <1>8 DEF Collides, ScanInv
  <2>2. CloneBox(s)' = CloneBox(s)
    BY <1>2 DEF CloneBox
  <2>3. CloneBox(s) # None => work'[s] = work[s] /\ art'[s] = art[s]
    BY <1>1, <2>1, CloneName, KeptInUse, MoveStores DEF CloneBox
  <2>4. CloneRunning(s)' /\ CloneDone(s)' /\ ClonedOnce(s)'
    BY <1>3, <1>5, <2>1, <2>2, <2>3 DEF CloneRunning, CloneDone, ClonedOnce
  <2>5. ASSUME NEW q \in Runs, ScanOf(q) = s, Mine(q) PROVE art'[s] = art[s]
    <3>1. Name(q) \in Names /\ Name(q)[2] = short[s] /\ box[Name(q)] # None
      BY <1>1, <2>5, NameIsName DEF Mine
    <3>. QED BY <1>1, <2>1, <3>1, KeptInUse, MoveStores
  <2>6. StepDone(s)'
    BY <1>2, <1>5, <2>1, <2>5 DEF StepDone
  <2>. QED BY <2>4, <2>6
<1>9. SecretsInv'
  BY <1>1, MoveStores DEF SecretsInv, Files
<1>. QED BY <1>4, <1>6, <1>7, <1>8, <1>9 DEF DockerInv, ScanInv

--------------------------------------------------------------------------------
(* The run whose reporter a new container of run r removes.                *)
Hit(r, q) ==
  /\ q # r /\ StepOf(r) = "reporter"
  /\ box[Name(r)] # None /\ box[Name(r)].run = q /\ box[Name(r)].st = "running"

LEMMA CreateView ==
  ASSUME TypeOK, NEW r \in Runs, CreateBox(r)
  PROVE  /\ \A q \in Runs :
              /\ run'[q].scan = run[q].scan /\ run'[q].at = run[q].at
              /\ run'[q].failed = run[q].failed /\ run'[q].told = run[q].told
              /\ run'[q].raising = run[q].raising
              /\ run'[q].pc = IF q = r THEN "created" ELSE run[q].pc
              /\ run'[q].exited = IF Hit(r, q) THEN TRUE ELSE run[q].exited
         /\ run' \in [Runs -> Run]
<1>1. run' = [q \in Runs |->
        IF q = r THEN [run[q] EXCEPT !.pc = "created"]
        ELSE IF Hit(r, q) THEN [run[q] EXCEPT !.exited = TRUE] ELSE run[q]]
  BY DEF CreateBox, Hit
<1>2. ASSUME NEW q \in Runs
      PROVE  /\ run'[q] \in Run
             /\ run'[q].scan = run[q].scan /\ run'[q].at = run[q].at
             /\ run'[q].failed = run[q].failed /\ run'[q].told = run[q].told
             /\ run'[q].raising = run[q].raising
             /\ run'[q].pc = IF q = r THEN "created" ELSE run[q].pc
             /\ run'[q].exited = IF Hit(r, q) THEN TRUE ELSE run[q].exited
  <2>1. run'[q] = IF q = r THEN [run[q] EXCEPT !.pc = "created"]
                  ELSE IF Hit(r, q) THEN [run[q] EXCEPT !.exited = TRUE] ELSE run[q]
    BY <1>1
  <2>2. run[q] \in Run
    BY DEF TypeOK
  <2>3. CASE q = r
    <3>1. ~ Hit(r, q)
      BY <2>3 DEF Hit
    <3>. QED BY <2>1, <2>2, <2>3, <3>1 DEF Run, Active
  <2>4. CASE q # r
    BY <2>1, <2>2, <2>4 DEF Run
  <2>. QED BY <2>3, <2>4
<1>3. run' \in [Runs -> Run]
  BY <1>1, <1>2
<1>. QED BY <1>2, <1>3

(* A new container takes the name of an old one: what the old one was      *)
(* known for goes with it, what it held in use stays in use.               *)
LEMMA CreateKeeps ==
  ASSUME DockerInv, NEW r \in Runs, CreateBox(r) PROVE DockerInv'
<1>. DEFINE n   == Name(r)
            old == box[n]
            new == [run |-> r, st |-> "created", clean |-> FALSE]
<1>1. TypeOK /\ RunInv /\ BoxInv /\ ScanInv /\ SecretsInv
  BY DEF DockerInv
<1>2. /\ run[r].pc = "step" /\ UNCHANGED <<short, work, art>>
      /\ box' = [box EXCEPT ![n] = new]
      /\ vols' = vols \cup {<<Volume(r), kind>> : kind \in Mounts(StepOf(r))}
  BY DEF CreateBox
<1>3. \A q \in Runs : run[q] \in Run /\ Name(q) \in Names
  BY <1>1, NameIsName DEF TypeOK
<1>4. new \in Box /\ new # None
  <2>1. new \in Box
    BY DEF Box
  <2>. QED BY <2>1, NoneAssumption
<1>5. /\ \A q \in Runs :
           /\ run'[q].scan = run[q].scan /\ run'[q].at = run[q].at
           /\ run'[q].failed = run[q].failed /\ run'[q].told = run[q].told
           /\ run'[q].raising = run[q].raising
           /\ run'[q].pc = IF q = r THEN "created" ELSE run[q].pc
           /\ run'[q].exited = IF Hit(r, q) THEN TRUE ELSE run[q].exited
      /\ run' \in [Runs -> Run]
  BY <1>1, CreateView
<1>6. \A m \in Names : box'[m] = IF m = n THEN new ELSE box[m]
  BY <1>1, <1>2, <1>3 DEF TypeOK
<1>7. TypeOK'
  <2>1. Volume(r) \in Scans /\ Mounts(StepOf(r)) \subseteq {"workspace", "artifacts"}
    BY <1>1, NameIsName DEF Volume, Mounts
  <2>2. vols' \subseteq Scans \X {"workspace", "artifacts"}
    BY <1>1, <1>2, <2>1 DEF TypeOK
  <2>. QED BY <1>1, <1>2, <1>3, <1>4, <1>5, <2>2 DEF TypeOK
<1>8. \A q \in Runs : /\ ScanOf(q)' = ScanOf(q) /\ StepOf(q)' = StepOf(q) /\ Name(q)' = Name(q)
                      /\ (Cloned(q)' <=> Cloned(q))
  BY <1>2, <1>5 DEF ScanOf, StepOf, Name, Cloned
<1>9. \A q \in Runs : Hit(r, q) => run[q].told # "none" /\ ~ run[q].exited
  BY <1>1, <1>3, NameIsName DEF BoxInv, BoxFacts, Hit
(* The others keep their containers, or lose them to this one.             *)
<1>10. \A q \in Runs : q # r /\ Mine(q)' => Mine(q) /\ box'[Name(q)] = box[Name(q)]
  BY <1>3, <1>6, <1>8 DEF Mine
<1>11. RunInv'
  <2>. SUFFICES ASSUME NEW q \in Runs
       PROVE RunFacts(q)'
    BY DEF RunInv
  <2>1. run[q].pc \in Early => run[q].told = "none"
    BY <1>1 DEF RunInv, RunFacts
  <2>2. (run[q].exited => run[q].told # "none")'
    <3>1. run[q].exited => run[q].told # "none"
      BY <1>1 DEF RunInv, RunFacts
    <3>. QED BY <1>5, <1>9, <3>1
  <2>3. (run[q].pc \in Early => run[q].told = "none")'
    BY <1>2, <1>5, <2>1 DEF Early
  <2>4. Reported(q)' => q # r /\ Reported(q)
    BY <1>5 DEF Reported
  <2>5. (Reported(q) => run[q].exited /\ (Mine(q) => box[Name(q)].st \in {"ok", "bad"}))'
    <3>. SUFFICES ASSUME Reported(q)' PROVE run'[q].exited /\ (Mine(q)' => box'[Name(q)'].st \in {"ok", "bad"})
      OBVIOUS
    <3>1. q # r /\ run[q].exited /\ (Mine(q) => box[Name(q)].st \in {"ok", "bad"})
      BY <1>1, <2>4 DEF RunInv, RunFacts
    <3>2. run'[q].exited
      BY <1>5, <3>1
    <3>3. Mine(q)' => box'[Name(q)'].st \in {"ok", "bad"}
      BY <1>8, <1>10, <3>1
    <3>. QED BY <3>2, <3>3
  <2>6. /\ run[q].failed => run[q].at = Len(Chain)
        /\ run[q].told # "none" => run[q].at = Len(Chain) /\ (run[q].told = "ingesting" <=> ~ run[q].failed)
    BY <1>1 DEF RunInv, RunFacts
  <2>7. /\ run'[q].failed = run[q].failed /\ run'[q].at = run[q].at /\ run'[q].told = run[q].told
    BY <1>5
  <2>. QED BY <2>2, <2>3, <2>5, <2>6, <2>7 DEF RunFacts
<1>12. BoxInv'
  <2>. SUFFICES ASSUME NEW m \in Names, box'[m] # None
       PROVE BoxFacts(m)'
    BY DEF BoxInv
  <2>1. CASE m = n
    <3>1. box'[m] = new
      BY <1>6, <2>1
    <3>2. m[1] = StepOf(r) /\ m[2] = short[ScanOf(r)]
      BY <1>1, <2>1, NameIsName
    <3>. QED BY <1>2, <1>8, <3>1, <3>2 DEF BoxFacts
  <2>2. CASE m # n
    <3>1. box'[m] = box[m] /\ box[m] # None
      BY <1>6, <2>2
    <3>2. box[m].run \in Runs
      BY <1>1, <3>1 DEF TypeOK, Box
    <3>3. m[1] = "reporter" /\ box[m].st = "running" => ~ Hit(r, box[m].run)
      <4>. SUFFICES ASSUME m[1] = "reporter", Hit(r, box[m].run) PROVE FALSE
        OBVIOUS
      <4>1. n[1] = "reporter" /\ n \in Names /\ old # None /\ old.run = box[m].run
        BY <1>1, <1>3, NameIsName DEF Hit
      <4>2. n[2] = short[ScanOf(box[m].run)] /\ m[2] = short[ScanOf(box[m].run)]
        BY <1>1, <3>1, <4>1 DEF BoxInv, BoxFacts
      <4>3. m = <<m[1], m[2]>> /\ n = <<n[1], n[2]>>
        BY <4>1 DEF Names
      <4>4. m[1] = n[1]
        BY <4>1
      <4>. QED BY <2>2, <4>2, <4>3, <4>4
    <3>4. m[1] = "reporter" /\ box[m].st = "running" => run[box[m].run].told # "none" /\ ~ run[box[m].run].exited
      BY <1>1, <3>1 DEF BoxInv, BoxFacts
    <3>. DEFINE q == box[m].run
    <3>5. /\ UNCHANGED short /\ run'[q].scan = run[q].scan /\ run'[q].at = run[q].at
          /\ m[1] = "reporter" /\ box[m].st = "running" => run'[q].told # "none" /\ ~ run'[q].exited
          /\ run[q].exited => run'[q].exited
      BY <1>2, <1>5, <3>2, <3>3, <3>4
    <3>. QED BY <1>1, <3>1, <3>5, BoxCarries
  <2>. QED BY <2>1, <2>2
<1>13. ASSUME NEW s \in Scans, ~ Collides(s)'
       PROVE  (CloneRunning(s) /\ CloneDone(s) /\ ClonedOnce(s) /\ StepDone(s))'
  <2>1. ~ Collides(s) /\ CloneRunning(s) /\ CloneDone(s) /\ ClonedOnce(s) /\ StepDone(s)
    BY <1>1, <1>2, <1>13 DEF Collides, ScanInv
  <2>2. CloneBox(s)' = CloneBox(s) \/ CloneBox(s)' = new
    BY <1>1, <1>2, <1>6, CloneName DEF CloneBox
  <2>3. CloneRunning(s)' /\ CloneDone(s)'
    BY <1>2, <1>8, <2>1, <2>2 DEF CloneRunning, CloneDone
  <2>4. ClonedOnce(s)'
    <3>1. CloneBox(s) # None => CloneBox(s)' # None
      BY <1>4, <2>2
    <3>2. \A q \in Runs : ScanOf(q)' = ScanOf(q) /\ (Cloned(q)' <=> Cloned(q)) /\ run'[q].at = run[q].at
      BY <1>5, <1>8
    <3>. QED BY <1>2, <2>1, <3>1, <3>2 DEF ClonedOnce
  <2>5. StepDone(s)'
    <3>. SUFFICES ASSUME NEW q \in Runs, ScanOf(q) = s, run'[q].pc = "wait", Mine(q)',
                         box'[Name(q)].st = "ok", StepOf(q) # "reporter"
                  PROVE  art[s][Produces(StepOf(q))] = q
      BY <1>2, <1>8 DEF StepDone
    <3>1. q # r /\ run[q].pc = "wait"
      BY <1>5
    <3>2. Mine(q) /\ box[Name(q)].st = "ok"
      BY <1>8, <1>10, <3>1
    <3>. QED BY <2>1, <3>1, <3>2 DEF StepDone
  <2>. QED BY <2>3, <2>4, <2>5
<1>14. SecretsInv'
  BY <1>1, <1>2 DEF SecretsInv
<1>. QED BY <1>7, <1>11, <1>12, <1>13, <1>14 DEF DockerInv, ScanInv

LEMMA StartView ==
  ASSUME TypeOK, NEW r \in Runs, StartBox(r)
  PROVE  /\ \A q \in Runs :
              /\ run'[q].scan = run[q].scan /\ run'[q].at = run[q].at
              /\ run'[q].failed = run[q].failed /\ run'[q].exited = run[q].exited
              /\ run'[q].raising = run[q].raising
              /\ run'[q].pc = IF q = r THEN "wait" ELSE run[q].pc
              /\ run'[q].told = IF q = r THEN Told(r) ELSE run[q].told
         /\ run' \in [Runs -> Run]
<1>1. run \in [Runs -> Run] /\ run[r] \in Run /\ Told(r) \in {"none", "ingesting", "reporting"}
  BY DEF TypeOK, Told
<1>2. run' = [run EXCEPT ![r] = [run[r] EXCEPT !.pc = "wait", !.told = Told(r)]]
  BY <1>1 DEF StartBox
<1>3. [run[r] EXCEPT !.pc = "wait", !.told = Told(r)] \in Run
  BY <1>1 DEF Run, Active
<1>4. run' \in [Runs -> Run]
  BY <1>1, <1>2, <1>3
<1>5. ASSUME NEW q \in Runs, q # r PROVE run'[q] = run[q]
  BY <1>1, <1>2, <1>5
<1>6. run'[r] = [run[r] EXCEPT !.pc = "wait", !.told = Told(r)]
  BY <1>1, <1>2
<1>7. /\ run'[r].scan = run[r].scan /\ run'[r].at = run[r].at
      /\ run'[r].failed = run[r].failed /\ run'[r].exited = run[r].exited
      /\ run'[r].raising = run[r].raising
      /\ run'[r].pc = "wait" /\ run'[r].told = Told(r)
  BY <1>1, <1>6 DEF Run
<1>. QED BY <1>4, <1>5, <1>7

(* A clone starts on an empty workspace or is bound to fail, so no run of  *)
(* its scan is past its own.                                               *)
LEMMA StartKeeps ==
  ASSUME DockerInv, NEW r \in Runs, StartBox(r) PROVE DockerInv'
<1>. DEFINE n     == Name(r)
            clean == StepOf(r) = "clone" /\ work[Volume(r)] = "empty"
            new   == [box[n] EXCEPT !.st = "running", !.clean = clean]
<1>1. TypeOK /\ RunInv /\ BoxInv /\ ScanInv /\ SecretsInv
  BY DEF DockerInv
<1>2. /\ run[r].pc = "created" /\ Mine(r) /\ UNCHANGED <<short, vols, art>>
      /\ box' = [box EXCEPT ![n].st = "running", ![n].clean = clean]
      /\ work' = IF clean THEN [work EXCEPT ![Volume(r)] = "partial"] ELSE work
  BY DEF StartBox
<1>3. /\ \A q \in Runs : run[q] \in Run /\ Name(q) \in Names
      /\ ScanOf(r) \in Scans /\ n[1] = StepOf(r) /\ n[2] = short[ScanOf(r)]
      /\ StepOf(r) = "reporter" <=> run[r].at = Len(Chain)
  BY <1>1, NameIsName DEF TypeOK
<1>4. box[n] \in Box /\ box[n] # None /\ box[n].run = r
  BY <1>1, <1>2, <1>3 DEF TypeOK, Mine
<1>5. new \in Box /\ new.run = r /\ new.st = "running" /\ new.clean = clean
  BY <1>4 DEF Box
<1>6. new # None
  BY <1>5, NoneAssumption
<1>7. (\A m \in Names : box'[m] = IF m = n THEN new ELSE box[m]) /\ box' \in [Names -> Box \cup {None}]
  BY <1>1, <1>2, <1>3, <1>5 DEF TypeOK
<1>8. /\ \A q \in Runs :
           /\ run'[q].scan = run[q].scan /\ run'[q].at = run[q].at
           /\ run'[q].failed = run[q].failed /\ run'[q].exited = run[q].exited
           /\ run'[q].raising = run[q].raising
           /\ run'[q].pc = IF q = r THEN "wait" ELSE run[q].pc
           /\ run'[q].told = IF q = r THEN Told(r) ELSE run[q].told
       /\ run' \in [Runs -> Run]
  BY <1>1, StartView
<1>9. Volume(r) = ScanOf(r) /\ work' \in [Scans -> {"empty", "partial", "repo"}]
       /\ \A s \in Scans : work'[s] = IF clean /\ s = ScanOf(r) THEN "partial" ELSE work[s]
  BY <1>1, <1>2, <1>3 DEF TypeOK, Volume
<1>10. clean => StepOf(r) = "clone" /\ work[ScanOf(r)] = "empty"
  BY <1>9
<1>11. TypeOK'
  BY <1>1, <1>2, <1>7, <1>8, <1>9 DEF TypeOK
<1>12. \A q \in Runs : /\ ScanOf(q)' = ScanOf(q) /\ StepOf(q)' = StepOf(q) /\ Name(q)' = Name(q)
                       /\ (Cloned(q)' <=> Cloned(q))
  BY <1>2, <1>8 DEF ScanOf, StepOf, Name, Cloned
<1>13. run[r].told = "none" /\ ~ run[r].exited
  BY <1>1, <1>2 DEF RunInv, RunFacts, Early
<1>14. Told(r) # "none" => StepOf(r) = "reporter" /\ run[r].at = Len(Chain)
                          /\ (Told(r) = "ingesting" <=> ~ run[r].failed)
  BY <1>3 DEF Told
<1>15. StepOf(r) = "reporter" => Told(r) # "none"
  BY DEF Told
<1>. HIDE DEF clean, new
<1>16. \A q \in Runs : q # r /\ Mine(q)' => Mine(q) /\ box'[Name(q)] = box[Name(q)]
  BY <1>3, <1>5, <1>7, <1>12 DEF Mine
<1>17. RunInv'
  <2>. SUFFICES ASSUME NEW q \in Runs
       PROVE RunFacts(q)'
    BY DEF RunInv
  <2>1. CASE q = r
    <3>1. ~ Reported(q)'
      BY <1>8, <2>1 DEF Reported
    <3>2. run[q].failed => run[q].at = Len(Chain)
      BY <1>1 DEF RunInv, RunFacts
    <3>. QED BY <1>8, <1>13, <1>14, <2>1, <3>1, <3>2 DEF RunFacts, Early
  <2>2. CASE q # r
    <3>1. Reported(q)' => Reported(q)
      BY <1>8, <2>2 DEF Reported
    <3>2. Reported(q) => run[q].exited /\ (Mine(q) => box[Name(q)].st \in {"ok", "bad"})
      BY <1>1 DEF RunInv, RunFacts
    <3>3. Reported(q)' => run'[q].exited /\ (Mine(q)' => box'[Name(q)'].st \in {"ok", "bad"})
      BY <1>8, <1>12, <1>16, <2>2, <3>1, <3>2
    <3>. QED BY <1>1, <1>8, <2>2, <3>3 DEF RunInv, RunFacts
  <2>. QED BY <2>1, <2>2
<1>18. BoxInv'
  <2>. SUFFICES ASSUME NEW m \in Names, box'[m] # None
       PROVE BoxFacts(m)'
    BY DEF BoxInv
  <2>1. CASE m = n
    <3>1. box'[m] = new
      BY <1>7, <2>1
    <3>2. m[1] = StepOf(r)' /\ m[2] = short'[ScanOf(r)'] /\ box'[m].run = r
      BY <1>2, <1>3, <1>5, <1>12, <2>1, <3>1
    <3>3. box'[m].clean => m[1] = "clone"
      BY <1>3, <1>5, <1>10, <2>1, <3>1
    <3>4. m[1] = "reporter" => run'[r].told # "none" /\ ~ run'[r].exited
      BY <1>3, <1>8, <1>13, <1>15, <2>1
    <3>5. box'[m].st = "running"
      BY <1>5, <3>1
    <3>. QED BY <3>2, <3>3, <3>4, <3>5 DEF BoxFacts
  <2>2. CASE m # n
    <3>1. box'[m] = box[m] /\ box[m] # None
      BY <1>7, <2>2
    <3>2. box[m].run \in Runs
      BY <1>1, <3>1 DEF TypeOK, Box
    <3>3. m[1] = "reporter" /\ box[m].st = "running" =>
            run[box[m].run].told # "none" /\ ~ run[box[m].run].exited /\ box[m].run # r
      BY <1>1, <1>13, <3>1 DEF BoxInv, BoxFacts
    <3>. DEFINE q == box[m].run
    <3>4. /\ UNCHANGED short /\ run'[q].scan = run[q].scan /\ run'[q].at = run[q].at
          /\ m[1] = "reporter" /\ box[m].st = "running" => run'[q].told # "none" /\ ~ run'[q].exited
          /\ run[q].exited => run'[q].exited
      BY <1>2, <1>8, <3>2, <3>3
    <3>. QED BY <1>1, <3>1, <3>4, BoxCarries
  <2>. QED BY <2>1, <2>2
<1>19. ASSUME NEW s \in Scans, ~ Collides(s)'
       PROVE  (CloneRunning(s) /\ CloneDone(s) /\ ClonedOnce(s) /\ StepDone(s))'
  <2>1. ~ Collides(s) /\ CloneRunning(s) /\ CloneDone(s) /\ ClonedOnce(s) /\ StepDone(s)
    BY <1>1, <1>2, <1>19 DEF Collides, ScanInv
  <2>2. CloneBox(s)' = IF <<"clone", short[s]>> = n THEN new ELSE CloneBox(s)
    BY <1>1, <1>2, <1>7, CloneName DEF CloneBox
  <2>3. <<"clone", short[s]>> = n => s = ScanOf(r) /\ StepOf(r) = "clone" /\ CloneBox(s) # None
    <3>. SUFFICES ASSUME <<"clone", short[s]>> = n
                  PROVE  s = ScanOf(r) /\ StepOf(r) = "clone" /\ CloneBox(s) # None
      OBVIOUS
    <3>1. n[1] = "clone" /\ n[2] = short[s]
      OBVIOUS
    <3>2. short[s] = short[ScanOf(r)]
      BY <1>3, <3>1
    <3>. QED BY <1>3, <1>4, <2>1, <3>1, <3>2 DEF Collides, CloneBox
  <2>4. clean /\ s = ScanOf(r) => <<"clone", short[s]>> = n /\ \A q \in Runs : ScanOf(q) = s => ~ Cloned(q)
    BY <1>10, <2>1 DEF Name, ClonedOnce
  <2>5. ASSUME clean /\ s = ScanOf(r) PROVE (CloneRunning(s) /\ CloneDone(s) /\ ClonedOnce(s))'
    <3>1. CloneBox(s)' = new /\ work'[s] = "partial" /\ \A q \in Runs : ScanOf(q)' = s => ~ Cloned(q)'
      BY <1>9, <1>12, <2>2, <2>4, <2>5
    <3>2. CloneRunning(s)' /\ CloneDone(s)' /\ ClonedOnce(s)'
      BY <1>5, <3>1 DEF CloneRunning, CloneDone, ClonedOnce
    <3>. QED BY <3>2
  <2>6. StepDone(s)'
    <3>1. \A q \in Runs : Mine(q)' /\ box'[Name(q)'].st = "ok" => q # r
      BY <1>3, <1>5, <1>7, <1>12
    <3>2. ASSUME NEW q \in Runs, ScanOf(q)' = s, run'[q].pc = "wait", Mine(q)', box'[Name(q)'].st = "ok",
                 StepOf(q)' # "reporter"
          PROVE  art'[s][Produces(StepOf(q)')] = q
      <4>1. q # r
        BY <3>1, <3>2
      <4>2. ScanOf(q) = s /\ run[q].pc = "wait" /\ Mine(q) /\ box[Name(q)].st = "ok" /\ StepOf(q) # "reporter"
        BY <1>8, <1>12, <1>16, <3>2, <4>1
      <4>. QED BY <1>2, <1>12, <2>1, <4>2 DEF StepDone
    <3>. QED BY <3>2 DEF StepDone
  <2>7. ASSUME ~ (clean /\ s = ScanOf(r)) PROVE (CloneRunning(s) /\ CloneDone(s) /\ ClonedOnce(s))'
    <3>1. work'[s] = work[s]
      BY <1>9, <2>7
    <3>2. CloneBox(s)' # CloneBox(s) => CloneBox(s)' = new /\ ~ clean /\ CloneBox(s) # None
      BY <2>2, <2>3, <2>7
    <3>3. CloneRunning(s)' /\ CloneDone(s)'
      BY <1>5, <1>12, <2>1, <3>1, <3>2 DEF CloneRunning, CloneDone
    <3>4. CloneBox(s) # None => CloneBox(s)' # None
      BY <1>6, <3>2
    <3>5. ClonedOnce(s)'
      BY <1>2, <1>8, <1>12, <2>1, <3>1, <3>4 DEF ClonedOnce
    <3>. QED BY <3>3, <3>5
  <2>. QED BY <2>5, <2>6, <2>7
<1>20. SecretsInv'
  BY <1>1, <1>2 DEF SecretsInv
<1>. QED BY <1>11, <1>17, <1>18, <1>19, <1>20 DEF DockerInv, ScanInv

(* A run leaves a step only with the exit code of its own container, so    *)
(* nothing of the steps behind it is still working.                        *)
LEMMA ReturnKeeps ==
  ASSUME DockerInv, NEW r \in Runs, WaitReturns(r) PROVE DockerInv'
<1>. DEFINE n == Name(r)
            x == run[r]
            new == IF StepOf(r) = "reporter" THEN [x EXCEPT !.pc = "drop_workspace"]
                   ELSE IF box[n].st = "ok" THEN [x EXCEPT !.at = x.at + 1, !.pc = "step"]
                   ELSE [x EXCEPT !.failed = TRUE, !.at = Len(Chain), !.pc = "step"]
<1>1. TypeOK /\ RunInv /\ BoxInv /\ ScanInv /\ SecretsInv
  BY DEF DockerInv
<1>2. /\ x.pc = "wait" /\ Mine(r) /\ box[n].st \in {"ok", "bad"}
      /\ UNCHANGED <<short, box, vols, work, art>>
      /\ run' = [run EXCEPT ![r] = new]
  <2>1. run \in [Runs -> Run] /\ x \in Run
    BY <1>1 DEF TypeOK
  <2>2. /\ x.pc = "wait" /\ Mine(r) /\ box[n].st \in {"ok", "bad"}
        /\ UNCHANGED <<short, box, vols, work, art>>
    BY DEF WaitReturns
  <2>3. CASE StepOf(r) # "reporter" /\ box[n].st = "ok"
    <3>1. NextStep(r)
      BY <2>3 DEF WaitReturns
    <3>. QED BY <2>1, <2>2, <2>3, <3>1 DEF NextStep
  <2>4. CASE StepOf(r) # "reporter" /\ box[n].st # "ok"
    <3>1. GiveUp(r)
      BY <2>4 DEF WaitReturns
    <3>. QED BY <2>1, <2>2, <2>4, <3>1 DEF GiveUp
  <2>5. CASE StepOf(r) = "reporter"
    <3>1. Goto(r, "drop_workspace")
      BY <2>5 DEF WaitReturns
    <3>. QED BY <2>1, <2>2, <2>5, <3>1 DEF Goto
  <2>. QED BY <2>2, <2>3, <2>4, <2>5
<1>3. /\ x \in Run /\ n \in Names /\ ScanOf(r) \in Scans /\ n[1] = StepOf(r) /\ n[2] = short[ScanOf(r)]
      /\ StepOf(r) = "reporter" <=> x.at = Len(Chain)
      /\ StepOf(r) = "clone" <=> x.at = 1
  BY <1>1, NameIsName DEF TypeOK
<1>4. x.at \in DOMAIN Chain /\ x.at \in Nat /\ x.at >= 1 /\ Len(Chain) \in DOMAIN Chain /\ Len(Chain) > 1
  BY <1>3, ChainShape DEF Run
<1>5. new \in Run
  <2>1. CASE StepOf(r) = "reporter"
    BY <1>3, <2>1 DEF Run, Active
  <2>2. CASE StepOf(r) # "reporter" /\ box[n].st = "ok"
    <3>1. x.at + 1 \in DOMAIN Chain
      BY <1>3, <1>4, <2>2, ChainShape
    <3>. QED BY <1>3, <2>2, <3>1 DEF Run, Active
  <2>3. CASE StepOf(r) # "reporter" /\ box[n].st # "ok"
    BY <1>3, <1>4, <2>3 DEF Run, Active
  <2>. QED BY <2>1, <2>2, <2>3
<1>6. run' \in [Runs -> Run] /\ run'[r] = new /\ \A q \in Runs : q # r => run'[q] = run[q]
  BY <1>1, <1>2, <1>5 DEF TypeOK
<1>7. /\ new.scan = x.scan /\ new.told = x.told /\ new.exited = x.exited /\ new.raising = x.raising
      /\ StepOf(r) = "reporter" => new.pc = "drop_workspace" /\ new.at = x.at /\ new.failed = x.failed
      /\ StepOf(r) # "reporter" /\ box[n].st = "ok" => new.pc = "step" /\ new.at = x.at + 1 /\ new.failed = x.failed
      /\ StepOf(r) # "reporter" /\ box[n].st # "ok" => new.pc = "step" /\ new.at = Len(Chain) /\ new.failed
  BY <1>3 DEF Run
<1>. HIDE DEF new
<1>8. TypeOK'
  BY <1>1, <1>2, <1>6 DEF TypeOK
<1>9. \A q \in Runs : /\ ScanOf(q)' = ScanOf(q)
                      /\ q # r => /\ StepOf(q)' = StepOf(q) /\ Name(q)' = Name(q)
                                  /\ (Mine(q)' <=> Mine(q)) /\ (Cloned(q)' <=> Cloned(q))
                                  /\ (Reported(q)' <=> Reported(q))
  BY <1>2, <1>6, <1>7 DEF ScanOf, StepOf, Name, Mine, Cloned, Reported
<1>10. StepOf(r) = "reporter" =>
         StepOf(r)' = StepOf(r) /\ Name(r)' = Name(r) /\ (Mine(r)' <=> Mine(r)) /\ (Cloned(r)' <=> Cloned(r))
  BY <1>2, <1>6, <1>7, <1>9 DEF StepOf, Name, Mine, Cloned
<1>11. box[n] # None /\ box[n].run = r
  BY <1>2 DEF Mine
<1>12. RunInv'
  <2>. SUFFICES ASSUME NEW q \in Runs PROVE RunFacts(q)'
    BY DEF RunInv
  <2>1. RunFacts(q)
    BY <1>1 DEF RunInv
  <2>2. CASE q # r
    BY <1>2, <1>6, <1>9, <2>1, <2>2 DEF RunFacts
  <2>3. CASE q = r /\ StepOf(r) = "reporter"
    <3>1. x.exited
      BY <1>1, <1>2, <1>3, <1>11, <2>3 DEF BoxInv, BoxFacts
    <3>2. Reported(q)' => run'[q].exited /\ (Mine(q)' => box'[Name(q)'].st \in {"ok", "bad"})
      BY <1>2, <1>6, <1>7, <1>10, <2>3, <3>1
    <3>. QED BY <1>6, <1>7, <2>1, <2>3, <3>2 DEF RunFacts, Early
  <2>4. CASE q = r /\ StepOf(r) # "reporter"
    <3>1. x.told = "none" /\ ~ x.failed /\ ~ x.exited
      BY <1>3, <2>1, <2>4 DEF RunFacts
    <3>2. ~ Reported(q)'
      BY <1>2, <1>6, <1>7, <2>4 DEF Reported
    <3>3. new.failed => new.at = Len(Chain)
      BY <1>2, <1>7, <2>4, <3>1
    <3>. QED BY <1>6, <1>7, <2>4, <3>1, <3>2, <3>3 DEF RunFacts
  <2>. QED BY <2>2, <2>3, <2>4
<1>13. BoxInv'
  <2>. SUFFICES ASSUME NEW m \in Names, box[m] # None PROVE BoxFacts(m)'
    BY <1>2 DEF BoxInv
  <2>. DEFINE q == box[m].run
  <2>1. q \in Runs /\ BoxFacts(m)
    BY <1>1 DEF TypeOK, Box, BoxInv
  <2>2. q = r => box[m].st \notin {"created", "running"}
    <3>. SUFFICES ASSUME q = r, box[m].st \in {"created", "running"} PROVE FALSE
      OBVIOUS
    <3>1. m[1] = n[1] /\ m[2] = n[2]
      BY <1>3, <2>1 DEF BoxFacts
    <3>2. m = <<m[1], m[2]>> /\ n = <<n[1], n[2]>>
      BY <1>3 DEF Names
    <3>3. m = n
      BY <3>1, <3>2
    <3>. QED BY <1>2, <3>3
  <2>3. /\ UNCHANGED short /\ box'[m] = box[m] /\ run'[q].scan = run[q].scan
        /\ run'[q].at = run[q].at \/ box[m].st \notin {"created", "running"}
        /\ run'[q].told = run[q].told /\ run'[q].exited = run[q].exited
    BY <1>2, <1>6, <1>7, <2>1, <2>2
  <2>4. m[1] = "reporter" /\ box[m].st = "running" => run[q].told # "none" /\ ~ run[q].exited
    BY <2>1 DEF BoxFacts
  <2>5. m[1] = "reporter" /\ box[m].st = "running" => run'[q].told # "none" /\ ~ run'[q].exited
    BY <2>3, <2>4
  <2>. QED BY <1>1, <2>3, <2>5, BoxCarries
<1>14. ASSUME NEW s \in Scans, ~ Collides(s)'
       PROVE  (CloneRunning(s) /\ CloneDone(s) /\ ClonedOnce(s) /\ StepDone(s))'
  <2>1. ~ Collides(s) /\ CloneRunning(s) /\ CloneDone(s) /\ ClonedOnce(s) /\ StepDone(s)
    BY <1>1, <1>2, <1>14 DEF Collides, ScanInv
  <2>2. CloneBox(s)' = CloneBox(s)
    BY <1>2 DEF CloneBox
  <2>3. CloneRunning(s)'
    BY <1>2, <2>1, <2>2 DEF CloneRunning
  <2>4. StepDone(s)'
    <3>1. \A q \in Runs : run'[q].pc = "wait" => q # r
      BY <1>6, <1>7
    <3>2. ASSUME NEW q \in Runs, ScanOf(q)' = s, run'[q].pc = "wait", Mine(q)', box'[Name(q)'].st = "ok",
                 StepOf(q)' # "reporter"
          PROVE  art'[s][Produces(StepOf(q)')] = q
      <4>1. ScanOf(q) = s /\ run[q].pc = "wait" /\ Mine(q) /\ box[Name(q)].st = "ok" /\ StepOf(q) # "reporter"
            /\ StepOf(q)' = StepOf(q)
        BY <1>2, <1>6, <1>9, <3>1, <3>2
      <4>. QED BY <1>2, <2>1, <4>1 DEF StepDone
    <3>. QED BY <3>2 DEF StepDone
  (* The run that passes its clone now, if it is this one.                 *)
  <2>5. ASSUME ScanOf(r) = s, Cloned(r)', ~ Cloned(r)
        PROVE  x.at = 1 /\ new.at = 2 /\ StepOf(r) = "clone" /\ box[n].st = "ok"
    <3>1. new.at > 1 /\ ~ new.failed /\ ~ (x.at > 1 /\ ~ x.failed)
      BY <1>6, <2>5 DEF Cloned
    <3>2. x.failed => x.at = Len(Chain)
      BY <1>1 DEF RunInv, RunFacts
    <3>. QED BY <1>2, <1>3, <1>4, <1>7, <3>1, <3>2
  <2>6. ASSUME ScanOf(r) = s, Cloned(r)', ~ Cloned(r)
        PROVE  /\ CloneBox(s) # None /\ CloneBox(s).run = r /\ work[s] = "repo"
               /\ \A q \in Runs : ScanOf(q) = s /\ Cloned(q) => q = r
               /\ art[s][Produces(Chain[1])] = r
    <3>1. CloneBox(s) = box[n]
      BY <2>5, <2>6 DEF CloneBox, Name
    <3>2. /\ work[s] = "repo" /\ \A q \in Runs : ScanOf(q) = s /\ Cloned(q) => q = CloneBox(s).run
      BY <1>11, <2>1, <2>5, <2>6, <3>1 DEF CloneDone
    <3>3. art[s][Produces(StepOf(r))] = r
      BY <1>2, <2>1, <2>5, <2>6 DEF StepDone
    <3>. QED BY <1>11, <2>5, <2>6, <3>1, <3>2, <3>3 DEF StepOf
  <2>7. CloneDone(s)'
    <3>. SUFFICES ASSUME CloneBox(s) # None, CloneBox(s).st = "ok"
                  PROVE  work[s] = "repo" /\ \A q \in Runs : ScanOf(q) = s /\ Cloned(q)' => q = CloneBox(s).run
      BY <1>2, <1>9, <2>2 DEF CloneDone
    <3>1. ASSUME NEW q \in Runs, ScanOf(q) = s, Cloned(q)' PROVE q = CloneBox(s).run
      BY <1>9, <2>1, <2>6, <3>1 DEF CloneDone
    <3>. QED BY <2>1, <3>1 DEF CloneDone
  <2>8. ClonedOnce(s)'
    <3>. SUFFICES ASSUME NEW p \in Runs, ScanOf(p) = s, Cloned(p)'
                  PROVE  /\ CloneBox(s) # None /\ work[s] = "repo"
                         /\ \A q \in Runs : ScanOf(q) = s /\ Cloned(q)' => q = p
                         /\ \A i \in DOMAIN Chain : i < run'[p].at => art[s][Produces(Chain[i])] = p
      BY <1>2, <1>9, <2>2 DEF ClonedOnce
    <3>1. CASE ScanOf(r) = s /\ Cloned(r)' /\ ~ Cloned(r)
      <4>1. \A q \in Runs : ScanOf(q) = s /\ Cloned(q)' => q = r
        BY <1>9, <2>6, <3>1
      <4>2. p = r
        BY <4>1
      <4>3. \A i \in DOMAIN Chain : i < run'[r].at => i = 1
        BY <1>6, <2>5, <3>1, ChainShape
      <4>. QED BY <2>6, <3>1, <4>1, <4>2, <4>3
    <3>2. CASE ~ (ScanOf(r) = s /\ Cloned(r)' /\ ~ Cloned(r))
      <4>1. \A q \in Runs : ScanOf(q) = s /\ Cloned(q)' => Cloned(q)
        BY <1>9, <3>2
      <4>2. /\ CloneBox(s) # None /\ work[s] = "repo"
            /\ \A q \in Runs : ScanOf(q) = s /\ Cloned(q) => q = p
            /\ \A i \in DOMAIN Chain : i < run[p].at => art[s][Produces(Chain[i])] = p
        BY <2>1, <4>1 DEF ClonedOnce
      <4>3. ASSUME NEW i \in DOMAIN Chain, i < run'[p].at, ~ (i < run[p].at)
            PROVE  art[s][Produces(Chain[i])] = p
        <5>1. p = r
          BY <1>6, <4>3
        <5>2. ~ new.failed
          BY <1>6, <5>1 DEF Cloned
        <5>3. StepOf(r) # "reporter" /\ box[n].st = "ok" /\ i = x.at
          BY <1>2, <1>4, <1>6, <1>7, <4>3, <5>1, <5>2, ChainShape
        <5>4. art[s][Produces(StepOf(r))] = r
          BY <1>2, <2>1, <5>1, <5>3 DEF StepDone
        <5>. QED BY <5>1, <5>3, <5>4 DEF StepOf
      <4>. QED BY <4>1, <4>2, <4>3
    <3>. QED BY <3>1, <3>2
  <2>. QED BY <2>3, <2>4, <2>7, <2>8
<1>15. SecretsInv'
  BY <1>1, <1>2 DEF SecretsInv
<1>. QED BY <1>8, <1>12, <1>13, <1>14, <1>15 DEF DockerInv, ScanInv

LEMMA ExitView ==
  ASSUME TypeOK, NEW n \in Names, BoxExits(n), NEW r \in Runs, r = box[n].run
  PROVE  /\ \A q \in Runs :
              /\ run'[q].scan = run[q].scan /\ run'[q].at = run[q].at
              /\ run'[q].failed = run[q].failed /\ run'[q].told = run[q].told
              /\ run'[q].raising = run[q].raising /\ run'[q].pc = run[q].pc
              /\ run'[q].exited = IF q = r /\ n[1] = "reporter" THEN TRUE ELSE run[q].exited
         /\ run' \in [Runs -> Run]
<1>1. run \in [Runs -> Run] /\ run[r] \in Run
  BY DEF TypeOK
<1>2. run' = IF n[1] = "reporter" THEN [run EXCEPT ![r].exited = TRUE] ELSE run
  BY DEF BoxExits
<1>3. CASE n[1] = "reporter"
  <2>1. run' = [run EXCEPT ![r] = [run[r] EXCEPT !.exited = TRUE]]
    BY <1>1, <1>2, <1>3
  <2>2. [run[r] EXCEPT !.exited = TRUE] \in Run
    BY <1>1 DEF Run
  <2>3. run'[r] = [run[r] EXCEPT !.exited = TRUE] /\ (\A q \in Runs : q # r => run'[q] = run[q])
        /\ run' \in [Runs -> Run]
    BY <1>1, <2>1, <2>2
  <2>4. /\ run'[r].scan = run[r].scan /\ run'[r].at = run[r].at
        /\ run'[r].failed = run[r].failed /\ run'[r].told = run[r].told
        /\ run'[r].raising = run[r].raising /\ run'[r].pc = run[r].pc /\ run'[r].exited
    BY <1>1, <2>3 DEF Run
  <2>. QED BY <1>3, <2>3, <2>4
<1>4. CASE n[1] # "reporter"
  BY <1>1, <1>2, <1>4
<1>. QED BY <1>3, <1>4

(* A container exits.  It writes an artifact only if it is the clone that  *)
(* found the workspace empty, or belongs to the run behind that clone.     *)
LEMMA ExitKeeps ==
  ASSUME DockerInv, NEW n \in Names, BoxExits(n) PROVE DockerInv'
<1>. DEFINE b == box[n]
<1>1. TypeOK /\ RunInv /\ BoxInv /\ ScanInv /\ SecretsInv
  BY DEF DockerInv
<1>2. b \in Box /\ b.run \in Runs
  BY <1>1 DEF TypeOK, Box, BoxExits
<1>. PICK r \in Runs : r = b.run
  BY <1>2
<1>. DEFINE home == ScanOf(r)
<1>3. /\ b # None /\ b.st = "running" /\ UNCHANGED <<short, vols>>
      /\ BoxSucceeds(n) \/ BoxFails(n)
  BY DEF BoxExits
<1>4. /\ run[r] \in Run /\ home \in Scans /\ StepOf(r) \in Steps /\ n = Name(r) /\ n[1] = StepOf(r)
      /\ n[2] = short[home] /\ Volume(r) = home
      /\ b.clean => n[1] = "clone"
      /\ n[1] = "reporter" => run[r].told # "none" /\ ~ run[r].exited
  <2>1. /\ run[r] \in Run /\ home \in Scans /\ StepOf(r) \in Steps
        /\ Name(r)[1] = StepOf(r) /\ Name(r)[2] = short[home] /\ Name(r) \in Names
    BY <1>1, <1>2, NameIsName
  <2>2. n[2] = short[home] /\ n[1] = StepOf(r)
    BY <1>1, <1>3 DEF BoxInv, BoxFacts
  <2>3. n = <<n[1], n[2]>> /\ Name(r) = <<Name(r)[1], Name(r)[2]>>
    BY <2>1 DEF Names
  <2>4. n = Name(r)
    <3>1. n[1] = Name(r)[1] /\ n[2] = Name(r)[2]
      BY <2>1, <2>2
    <3>. QED BY <2>3, <3>1
  <2>5. n[1] = "reporter" => run[r].told # "none" /\ ~ run[r].exited
    BY <1>1, <1>3 DEF BoxInv, BoxFacts
  <2>6. b.clean => n[1] = "clone"
    BY <1>1, <1>3 DEF BoxInv, BoxFacts
  <2>. QED BY <2>1, <2>2, <2>4, <2>5, <2>6 DEF Volume
<1>5. /\ \A q \in Runs :
           /\ run'[q].scan = run[q].scan /\ run'[q].at = run[q].at
           /\ run'[q].failed = run[q].failed /\ run'[q].told = run[q].told
           /\ run'[q].raising = run[q].raising /\ run'[q].pc = run[q].pc
           /\ run'[q].exited = IF q = r /\ n[1] = "reporter" THEN TRUE ELSE run[q].exited
      /\ run' \in [Runs -> Run]
  <2>1. TypeOK /\ r = box[n].run
    BY <1>1
  <2>. QED BY <2>1, ExitView
<1>6. PICK st \in {"ok", "bad"} :
        /\ box' = [box EXCEPT ![n] = [b EXCEPT !.st = st]]
        /\ st = "ok" => BoxSucceeds(n)
        /\ st = "bad" => BoxFails(n)
  <2>1. BoxSucceeds(n) => box' = [box EXCEPT ![n] = [b EXCEPT !.st = "ok"]]
    BY <1>1, <1>3 DEF BoxSucceeds, TypeOK
  <2>2. BoxFails(n) => box' = [box EXCEPT ![n] = [b EXCEPT !.st = "bad"]]
    BY <1>1, <1>3 DEF BoxFails, TypeOK
  <2>. QED BY <1>3, <2>1, <2>2
<1>. DEFINE new == [b EXCEPT !.st = st]
<1>7. new \in Box /\ new.st = st /\ new.run = r /\ new.clean = b.clean
  BY <1>2 DEF Box
<1>8. new # None
  BY <1>7, NoneAssumption
<1>. HIDE DEF new
<1>9. box' \in [Names -> Box \cup {None}] /\ \A m \in Names : box'[m] = IF m = n THEN new ELSE box[m]
  BY <1>1, <1>6, <1>7 DEF TypeOK, new
<1>10. \A q \in Runs : /\ ScanOf(q)' = ScanOf(q) /\ StepOf(q)' = StepOf(q) /\ Name(q)' = Name(q)
                       /\ Name(q) \in Names
                       /\ (Mine(q)' <=> Mine(q)) /\ (Cloned(q)' <=> Cloned(q))
                       /\ (Reported(q)' <=> Reported(q))
  <2>1. ASSUME NEW q \in Runs
        PROVE  /\ ScanOf(q)' = ScanOf(q) /\ StepOf(q)' = StepOf(q) /\ Name(q)' = Name(q)
               /\ Name(q) \in Names
               /\ (Cloned(q)' <=> Cloned(q)) /\ (Reported(q)' <=> Reported(q))
    BY <1>1, <1>3, <1>5, NameIsName DEF ScanOf, StepOf, Name, Cloned, Reported
  <2>2. ASSUME NEW q \in Runs PROVE Mine(q)' <=> Mine(q)
    BY <1>3, <1>7, <1>8, <1>9, <2>1 DEF Mine
  <2>. QED BY <2>1, <2>2
(* What happens to the stores.                                             *)
<1>11. /\ work' \in [Scans -> {"empty", "partial", "repo"}]
       /\ \A s \in Scans : work'[s] # work[s] =>
            s = home /\ b.clean /\ work'[s] = IF st = "ok" THEN "repo" ELSE "empty"
       /\ st = "ok" /\ n[1] = "clone" => b.clean /\ work'[home] = "repo"
  <2>1. CASE st = "ok"
    <3>1. work' = (IF n[1] = "clone" THEN [work EXCEPT ![home] = "repo"] ELSE work) /\ CanSucceed(n)
      BY <1>4, <1>6, <2>1 DEF BoxSucceeds
    <3>2. n[1] = "clone" => b.clean
      BY <3>1 DEF CanSucceed
    <3>. QED BY <1>1, <1>4, <2>1, <3>1, <3>2 DEF TypeOK
  <2>2. CASE st = "bad"
    <3>1. work' = work \/ (b.clean /\ work' = [work EXCEPT ![home] = "empty"])
      BY <1>4, <1>6, <2>2 DEF BoxFails
    <3>2. CASE work' = work
      BY <1>1, <2>2, <3>2 DEF TypeOK
    <3>3. CASE b.clean /\ work' = [work EXCEPT ![home] = "empty"]
      BY <1>1, <1>4, <2>2, <3>3 DEF TypeOK
    <3>. QED BY <3>1, <3>2, <3>3
  <2>. QED BY <2>1, <2>2
<1>12. /\ art' \in [Scans -> [Files -> Runs \cup {None}]]
       /\ st = "bad" \/ n[1] = "reporter" => art' = art
       /\ st = "ok" /\ n[1] # "reporter" =>
            \A s \in Scans, f \in Files :
              art'[s][f] = IF s = home /\ f = Produces(n[1]) THEN r ELSE art[s][f]
  <2>1. CASE st = "bad"
    <3>1. art' = art
      BY <1>6, <2>1 DEF BoxFails
    <3>. QED BY <1>1, <2>1, <3>1 DEF TypeOK
  <2>2. CASE st = "ok" /\ n[1] = "reporter"
    <3>1. art' = art
      BY <1>6, <2>2 DEF BoxSucceeds
    <3>. QED BY <1>1, <2>2, <3>1 DEF TypeOK
  <2>3. CASE st = "ok" /\ n[1] # "reporter"
    <3>1. art' = [art EXCEPT ![home][Produces(n[1])] = r]
      BY <1>4, <1>6, <2>3 DEF BoxSucceeds
    <3>2. Produces(n[1]) \in Files
      <4>1. \A a \in Steps \ {"reporter"} : a \in {"clone", "syft", "grype", "secret-scan"}
        BY ChainShape DEF Steps
      <4>. QED BY <1>4, <2>3, <4>1, ProducesApart
    <3>3. art \in [Scans -> [Files -> Runs \cup {None}]] /\ home \in Scans
      BY <1>1, <1>4 DEF TypeOK
    <3>4. art' \in [Scans -> [Files -> Runs \cup {None}]]
      BY <3>1, <3>2, <3>3
    <3>5. \A s \in Scans, f \in Files :
            art'[s][f] = IF s = home /\ f = Produces(n[1]) THEN r ELSE art[s][f]
      BY <3>1, <3>2, <3>3
    <3>. QED BY <2>3, <3>4, <3>5
  <2>. QED BY <2>1, <2>2, <2>3
<1>13. TypeOK'
  BY <1>1, <1>3, <1>5, <1>9, <1>11, <1>12 DEF TypeOK
<1>14. RunInv'
  <2>. SUFFICES ASSUME NEW q \in Runs PROVE RunFacts(q)'
    BY DEF RunInv
  <2>1. RunFacts(q)
    BY <1>1 DEF RunInv
  <2>2. run'[q].exited => run'[q].told # "none"
    <3>1. n[1] = "reporter" => run[r].told # "none"
      BY <1>4
    <3>2. run[q].exited => run[q].told # "none"
      BY <2>1 DEF RunFacts
    <3>3. run'[q].told = run[q].told /\ run'[q].exited = IF q = r /\ n[1] = "reporter" THEN TRUE ELSE run[q].exited
      BY <1>5
    <3>. QED BY <3>1, <3>2, <3>3
  <2>3. Mine(q)' /\ box[Name(q)].st \in {"ok", "bad"} => box'[Name(q)'].st \in {"ok", "bad"}
    BY <1>6, <1>7, <1>9, <1>10
  <2>4. Reported(q)' => run'[q].exited /\ (Mine(q)' => box'[Name(q)'].st \in {"ok", "bad"})
    BY <1>5, <1>10, <2>1, <2>3 DEF RunFacts
  <2>. QED BY <1>5, <2>1, <2>2, <2>4 DEF RunFacts
<1>15. BoxInv'
  <2>. SUFFICES ASSUME NEW m \in Names, box'[m] # None PROVE BoxFacts(m)'
    BY DEF BoxInv
  <2>1. CASE m = n
    <3>1. box'[m] = new /\ box'[m].run = r /\ box'[m].st \notin {"created", "running"}
      BY <1>6, <1>7, <1>9, <2>1
    <3>2. m[2] = short'[ScanOf(r)'] /\ (box'[m].clean => m[1] = "clone")
      BY <1>3, <1>2, <1>4, <1>7, <1>10, <2>1, <3>1
    <3>3. m[1] = "reporter" => run'[r].exited
      BY <1>2, <1>5, <2>1
    <3>. QED BY <3>1, <3>2, <3>3 DEF BoxFacts
  <2>2. CASE m # n
    <3>. DEFINE q == box[m].run
    <3>1. box'[m] = box[m] /\ box[m] # None
      BY <1>9, <2>2
    <3>2. q \in Runs /\ BoxFacts(m)
      BY <1>1, <3>1 DEF TypeOK, Box, BoxInv
    <3>3. m[1] = "reporter" /\ n[1] = "reporter" => q # r
      <4>1. m = <<m[1], m[2]>> /\ n = <<n[1], n[2]>>
        BY DEF Names
      <4>. QED BY <1>4, <2>2, <3>2, <4>1 DEF BoxFacts
    <3>4. m[1] = "reporter" /\ box[m].st = "running" => run[q].told # "none" /\ ~ run[q].exited
      BY <3>2 DEF BoxFacts
    <3>5. /\ UNCHANGED short /\ run'[q].scan = run[q].scan /\ run'[q].at = run[q].at
          /\ m[1] = "reporter" /\ box[m].st = "running" => run'[q].told # "none" /\ ~ run'[q].exited
          /\ run[q].exited => run'[q].exited
      BY <1>3, <1>5, <3>2, <3>3, <3>4
    <3>. QED BY <1>1, <3>1, <3>5, BoxCarries
  <2>. QED BY <2>1, <2>2
<1>16. SecretsInv'
  <2>. SUFFICES ASSUME ~ SecretScan, NEW s \in Scans PROVE art'[s]["secrets"] = None
    BY DEF SecretsInv
  <2>1. art[s]["secrets"] = None /\ "secrets" \in Files
    BY <1>1 DEF SecretsInv, Files
  <2>2. n[1] # "reporter" => Produces(n[1]) # "secrets"
    <3>1. n[1] \in {"clone", "syft", "grype", "reporter"}
      BY <1>4, ChainShape DEF Steps
    <3>. QED BY <3>1 DEF Produces
  <2>. QED BY <1>6, <1>12, <2>1, <2>2
<1>17. ASSUME NEW s \in Scans, ~ Collides(s)'
       PROVE  (CloneRunning(s) /\ CloneDone(s) /\ ClonedOnce(s) /\ StepDone(s))'
  <2>1. ~ Collides(s) /\ CloneRunning(s) /\ CloneDone(s) /\ ClonedOnce(s) /\ StepDone(s)
    BY <1>1, <1>3, <1>17 DEF Collides, ScanInv
  <2>2. s # home => n[2] # short[s]
    BY <1>4, <2>1 DEF Collides
  <2>3. CloneBox(s)' = IF <<"clone", short[s]>> = n THEN new ELSE CloneBox(s)
    BY <1>1, <1>3, <1>9, CloneName DEF CloneBox
  <2>4. <<"clone", short[s]>> = n => s = home /\ n[1] = "clone" /\ CloneBox(s) = b
    BY <2>2 DEF CloneBox
  <2>5. s = home /\ n[1] = "clone" => <<"clone", short[s]>> = n
    <3>1. n = <<n[1], n[2]>>
      BY DEF Names
    <3>. QED BY <1>4, <3>1
  <2>6. CloneBox(s) # None => CloneBox(s)' # None
    BY <1>8, <2>3
  (* A clone that found the workspace empty: nobody is past its own.       *)
  <2>7. s = home /\ b.clean =>
          /\ CloneBox(s) = b /\ CloneBox(s)' = new
          /\ \A q \in Runs : ScanOf(q) = s => ~ Cloned(q)
    <3>. SUFFICES ASSUME s = home, b.clean
                  PROVE  /\ CloneBox(s) = b /\ CloneBox(s)' = new
                         /\ \A q \in Runs : ScanOf(q) = s => ~ Cloned(q)
      OBVIOUS
    <3>1. CloneBox(s) = b /\ CloneBox(s)' = new
      BY <1>4, <2>3, <2>4, <2>5
    <3>2. work[s] = "partial"
      BY <1>3, <2>1, <3>1 DEF CloneRunning
    <3>. QED BY <2>1, <3>1, <3>2 DEF ClonedOnce
  (* Any other step that writes belongs to the run past its clone.         *)
  <2>8. s = home /\ n[1] # "clone" /\ n[1] # "reporter" => Cloned(r)
    <3>. SUFFICES ASSUME n[1] # "clone", n[1] # "reporter" PROVE run[r].at > 1 /\ ~ run[r].failed
      BY DEF Cloned
    <3>1. run[r].at # 1 /\ run[r].at # Len(Chain)
      BY <1>1, <1>4, NameIsName
    <3>2. run[r].at \in 1 .. Len(Chain)
      BY <1>4, ChainShape DEF Run
    <3>3. ~ run[r].failed
      BY <1>1, <3>1 DEF RunInv, RunFacts
    <3>. QED BY <3>1, <3>2, <3>3, ChainShape
  <2>9. CloneRunning(s)' /\ CloneDone(s)'
    <3>1. CASE s = home /\ b.clean
      <4>1. CloneBox(s)' = new /\ \A q \in Runs : ScanOf(q)' = s => ~ Cloned(q)'
        BY <1>10, <2>7, <3>1
      <4>2. st = "ok" => work'[s] = "repo"
        BY <1>4, <1>11, <3>1
      <4>. QED BY <1>6, <1>7, <4>1, <4>2 DEF CloneRunning, CloneDone
    <3>2. CASE ~ (s = home /\ b.clean)
      <4>1. work'[s] = work[s]
        BY <1>11, <3>2
      <4>2. CloneBox(s)' = CloneBox(s) \/ (CloneBox(s)' = new /\ st = "bad")
        BY <1>6, <1>11, <2>3, <2>4, <3>2
      <4>. QED BY <1>7, <1>10, <2>1, <4>1, <4>2 DEF CloneRunning, CloneDone
    <3>. QED BY <3>1, <3>2
  <2>10. ClonedOnce(s)'
    <3>. SUFFICES ASSUME NEW p \in Runs, ScanOf(p) = s, Cloned(p)
                  PROVE  /\ CloneBox(s)' # None /\ work'[s] = "repo"
                         /\ \A q \in Runs : ScanOf(q) = s /\ Cloned(q) => q = p
                         /\ \A i \in DOMAIN Chain : i < run[p].at => art'[s][Produces(Chain[i])] = p
      <4>1. \A q \in Runs : ScanOf(q)' = ScanOf(q) /\ (Cloned(q)' <=> Cloned(q)) /\ run'[q].at = run[q].at
        BY <1>5, <1>10
      <4>. QED BY <4>1 DEF ClonedOnce
    <3>1. /\ CloneBox(s) # None /\ work[s] = "repo"
          /\ \A q \in Runs : ScanOf(q) = s /\ Cloned(q) => q = p
          /\ \A i \in DOMAIN Chain : i < run[p].at => art[s][Produces(Chain[i])] = p
      BY <2>1 DEF ClonedOnce
    <3>2. ~ (s = home /\ b.clean)
      BY <2>7
    <3>3. work'[s] = work[s]
      BY <1>11, <3>2
    <3>4. ASSUME NEW f \in Files, art[s][f] = p PROVE art'[s][f] = p
      <4>1. CASE st = "bad" \/ n[1] = "reporter" \/ s # home
        BY <1>6, <1>12, <3>4, <4>1
      <4>2. CASE st = "ok" /\ n[1] # "reporter" /\ s = home
        <5>1. n[1] # "clone"
          BY <1>11, <3>2, <4>2
        <5>2. r = p
          BY <2>8, <3>1, <4>2, <5>1
        <5>. QED BY <1>12, <3>4, <4>2, <5>2
      <4>. QED BY <1>6, <4>1, <4>2
    <3>5. ASSUME NEW i \in DOMAIN Chain, i < run[p].at PROVE Produces(Chain[i]) \in Files
      <4>1. run[p].at \in 1 .. Len(Chain)
        BY <1>1, ChainShape, NameIsName DEF Run
      <4>2. i # Len(Chain) /\ Len(Chain) \in DOMAIN Chain
        BY <3>5, <4>1, ChainShape
      <4>3. Chain[i] # "reporter"
        BY <4>2, ChainShape
      <4>. QED BY <4>3, ChainShape, ProducesApart
    <3>. QED BY <2>6, <3>1, <3>3, <3>4, <3>5
  <2>11. StepDone(s)'
    <3>. SUFFICES ASSUME NEW q \in Runs, ScanOf(q) = s, run[q].pc = "wait", Mine(q),
                         box'[Name(q)].st = "ok", StepOf(q) # "reporter"
                  PROVE  art'[s][Produces(StepOf(q))] = q
      <4>1. \A q \in Runs : /\ ScanOf(q)' = ScanOf(q) /\ StepOf(q)' = StepOf(q) /\ Name(q)' = Name(q)
                            /\ (Mine(q)' <=> Mine(q)) /\ run'[q].pc = run[q].pc
        BY <1>5, <1>10
      <4>. QED BY <4>1 DEF StepDone
    <3>1. /\ Name(q)[1] = StepOf(q) /\ Name(q)[2] = short[s] /\ StepOf(q) \in Steps
          /\ StepOf(q) = "clone" <=> run[q].at = 1
          /\ StepOf(q) = "reporter" <=> run[q].at = Len(Chain)
          /\ run[q] \in Run
      BY <1>1, NameIsName
    <3>2. Produces(StepOf(q)) \in Files
      BY <3>1, ChainShape, ProducesApart DEF Steps
    <3>3. CASE Name(q) = n
      <4>1. q = r /\ s = home /\ st = "ok" /\ n[1] = StepOf(q)
        BY <1>7, <1>9, <2>2, <3>1, <3>3 DEF Mine
      <4>. QED BY <1>12, <3>2, <4>1
    <3>4. CASE Name(q) # n
      <4>1. box[Name(q)].st = "ok"
        BY <1>9, <1>10, <3>4
      <4>2. art[s][Produces(StepOf(q))] = q
        BY <2>1, <4>1 DEF StepDone
      <4>3. CASE st = "bad" \/ n[1] = "reporter" \/ s # home
        BY <1>6, <1>12, <3>2, <4>2, <4>3
      <4>4. CASE st = "ok" /\ n[1] # "reporter" /\ s = home
        <5>1. n[1] # StepOf(q)
          <6>1. n = <<n[1], n[2]>> /\ Name(q) = <<Name(q)[1], Name(q)[2]>>
            BY <1>10 DEF Names
          <6>. QED BY <1>4, <3>1, <3>4, <4>4, <6>1
        <5>2. Produces(n[1]) # Produces(StepOf(q))
          <6>1. n[1] \in Steps /\ StepOf(q) \in Steps
            BY <1>4, <3>1
          <6>2. \A a \in Steps \ {"reporter"} : a \in {"clone", "syft", "grype", "secret-scan"}
            BY ChainShape DEF Steps
          <6>. QED BY <4>4, <5>1, <6>1, <6>2, ProducesApart
        <5>. QED BY <1>12, <3>2, <4>2, <4>4, <5>2
      <4>. QED BY <1>6, <4>3, <4>4
    <3>. QED BY <3>3, <3>4
  <2>. QED BY <2>9, <2>10, <2>11
<1>. QED BY <1>13, <1>14, <1>15, <1>16, <1>17 DEF DockerInv, ScanInv

--------------------------------------------------------------------------------
(* The invariant, and what it is for.                                      *)

LEMMA DockerStep ==
  ASSUME DockerInv, [Next]_vars PROVE DockerInv'
<1>1. CASE UNCHANGED vars
  <2>1. \A q \in Runs : /\ ScanOf(q)' = ScanOf(q) /\ StepOf(q)' = StepOf(q) /\ Name(q)' = Name(q)
                        /\ (Mine(q)' <=> Mine(q)) /\ (Cloned(q)' <=> Cloned(q))
                        /\ (Reported(q)' <=> Reported(q))
    BY <1>1 DEF vars, ScanOf, StepOf, Name, Mine, Cloned, Reported
  <2>2. TypeOK' /\ SecretsInv'
    BY <1>1 DEF DockerInv, vars, TypeOK, SecretsInv
  <2>3. RunInv'
    BY <1>1, <2>1 DEF DockerInv, vars, RunInv, RunFacts
  <2>4. BoxInv'
    BY <1>1 DEF DockerInv, vars, BoxInv, BoxFacts, ScanOf, StepOf
  <2>5. ScanInv'
    BY <1>1, <2>1 DEF DockerInv, vars, ScanInv, Collides, CloneBox, CloneRunning, CloneDone, ClonedOnce, StepDone
  <2>. QED BY <2>2, <2>3, <2>4, <2>5 DEF DockerInv
<1>2. ASSUME NEW r \in Runs, SubmitStep(r) \/ WorkerDies(r) PROVE DockerInv'
  <2>1. CASE Moves(r)
    BY <2>1, MoveKeeps
  <2>2. CASE CreateBox(r)
    BY <2>2, CreateKeeps
  <2>3. CASE StartBox(r)
    BY <2>3, StartKeeps
  <2>4. CASE WaitReturns(r)
    BY <2>4, ReturnKeeps
  <2>. QED BY <1>2, <2>1, <2>2, <2>3, <2>4 DEF SubmitStep, Moves
<1>3. ASSUME NEW n \in Names, BoxExits(n) PROVE DockerInv'
  BY <1>3, ExitKeeps
<1>. QED BY <1>1, <1>2, <1>3 DEF Next

LEMMA DockerInvariant == Spec => []DockerInv
  BY DockerInitial, DockerStep, PTL DEF Spec

(* Runs, containers, volumes and artifacts have their types: no run goes   *)
(* past the reporter, no container carries a name of no step.              *)
THEOREM DockerTypeCorrect == Spec => []TypeOK
<1>1. DockerInv => TypeOK
  BY DEF DockerInv
<1>. QED BY <1>1, DockerInvariant, PTL

(* Who has told its reporter to ingest is past its clone, in every scan    *)
(* whose digits are its own.                                               *)
LEMMA IngestingCloned ==
  ASSUME DockerInv, NEW r \in Runs, run[r].told = "ingesting", ~ Collides(ScanOf(r))
  PROVE  ScanOf(r) \in Scans /\ Cloned(r) /\ run[r].at = Len(Chain) /\ ClonedOnce(ScanOf(r))
<1>1. run[r].at = Len(Chain) /\ ~ run[r].failed
  BY DEF DockerInv, RunInv, RunFacts
<1>2. ScanOf(r) \in Scans
  BY NameIsName DEF DockerInv
<1>. QED BY <1>1, <1>2, ChainShape DEF Cloned, DockerInv, ScanInv

(* However often the task of a scan is delivered, one docker run ingests.  *)
THEOREM DockerIngestsOnce == Spec => []OneIngestPerScan
<1>1. DockerInv => OneIngestPerScan
  <2>. SUFFICES ASSUME DockerInv, NEW q \in Runs, NEW r \in Runs,
                       q # r, ScanOf(q) = ScanOf(r), ~ Collides(ScanOf(r)),
                       run[q].told = "ingesting", run[r].told = "ingesting"
                PROVE  FALSE
    BY DEF OneIngestPerScan
  <2>1. Cloned(q) /\ Cloned(r) /\ ClonedOnce(ScanOf(r))
    BY IngestingCloned
  <2>. QED BY <2>1 DEF ClonedOnce
<1>. QED BY <1>1, DockerInvariant, PTL

(* What a reporter ingests was made by the steps of its own run.           *)
THEOREM OwnArtifacts == Spec => []ReporterReadsOwnArtifacts
<1>1. DockerInv => ReporterReadsOwnArtifacts
  <2>. SUFFICES ASSUME DockerInv, NEW r \in Runs, run[r].told = "ingesting", ~ Collides(ScanOf(r)),
                       NEW f \in Files
                PROVE  art[ScanOf(r)][f] = IF f = "secrets" /\ ~ SecretScan THEN None ELSE r
    BY DEF ReporterReadsOwnArtifacts
  <2>1. /\ ScanOf(r) \in Scans
        /\ \A i \in DOMAIN Chain : i < Len(Chain) => art[ScanOf(r)][Produces(Chain[i])] = r
    BY IngestingCloned DEF ClonedOnce
  <2>2. CASE f = "secrets" /\ ~ SecretScan
    BY <2>1, <2>2 DEF DockerInv, SecretsInv
  <2>3. CASE ~ (f = "secrets" /\ ~ SecretScan)
    <3>1. PICK i \in DOMAIN Chain : i < Len(Chain) /\ Produces(Chain[i]) = f
      BY <2>3, ChainShape
    <3>. QED BY <2>1, <2>3, <3>1
  <2>. QED BY <2>2, <2>3
<1>. QED BY <1>1, DockerInvariant, PTL

(* A submit that returned has waited for every container it started.       *)
THEOREM ReturnedIsQuiet == Spec => []ReturnedLeavesNothingRunning
<1>1. DockerInv => ReturnedLeavesNothingRunning
  <2>. SUFFICES ASSUME DockerInv, NEW n \in Names, box[n] # None, box[n].st = "running",
                       run[box[n].run].pc = "returned"
                PROVE  FALSE
    BY DEF ReturnedLeavesNothingRunning
  <2>. DEFINE r == box[n].run
  <2>1. r \in Runs
    BY DEF DockerInv, TypeOK, Box
  <2>2. n[1] = StepOf(r) /\ n[2] = short[ScanOf(r)]
    BY DEF DockerInv, BoxInv, BoxFacts
  <2>3. n = <<n[1], n[2]>>
    BY DEF Names
  <2>4. n = Name(r)
    BY <2>2, <2>3 DEF Name
  <2>5. Mine(r) => box[Name(r)].st \in {"ok", "bad"}
    BY <2>1 DEF DockerInv, RunInv, RunFacts, Reported
  <2>. QED BY <2>4, <2>5 DEF Mine
<1>. QED BY <1>1, DockerInvariant, PTL

--------------------------------------------------------------------------------
(* The contract with the scan model.                                       *)

SubmitOf   == [r \in Runs |-> IF run[r].pc \in Over THEN run[r].pc ELSE "working"]
ReporterOf == [r \in Runs |-> IF run[r].exited THEN "exited" ELSE run[r].told]

(* An exited reporter is one that was running.                             *)
LEMMA ReporterStops ==
  ASSUME DockerInv, NEW q \in Runs, run[q].told # "none", ~ run[q].exited,
         \A p \in Runs : /\ run'[p].told = run[p].told
                        /\ run'[p].exited = IF p = q THEN TRUE ELSE run[p].exited,
         SubmitOf' = SubmitOf
  PROVE  Contract!ContractNext
<1>1. run[q].told \in {"ingesting", "reporting"}
  BY DEF DockerInv, TypeOK, Run
<1>2. ReporterOf[q] \in Contract!Started
  BY <1>1 DEF ReporterOf, Contract!Started
<1>3. ReporterOf' = [ReporterOf EXCEPT ![q] = "exited"]
  BY DEF ReporterOf
<1>. QED BY <1>2, <1>3 DEF SubmitOf, ReporterOf, Contract!ReporterExits, Contract!ContractNext

(* A move of the control is the end of the call or nothing at all, and the *)
(* call returns only after its reporter has exited.                        *)
LEMMA MoveContract ==
  ASSUME DockerInv, NEW r \in Runs, Moves(r)
  PROVE  Contract!ContractNext \/ UNCHANGED <<SubmitOf, ReporterOf>>
<1>1. TypeOK /\ RunFacts(r) /\ \A q \in Runs : run[q] \in Run
  BY DEF DockerInv, RunInv, TypeOK
<1>2. /\ \A q \in Runs : q # r => run'[q] = run[q]
      /\ run' \in [Runs -> Run]
      /\ Reported(r)' => Reported(r)
  BY <1>1, MoveView
<1>3. \A q \in Runs : run'[q].told = run[q].told /\ run'[q].exited = run[q].exited
  <2>1. \A q \in Runs : run'[q] = [run[q] EXCEPT !.pc = run'[q].pc, !.raising = run'[q].raising]
    BY <1>1, MoveView
  <2>. QED BY <1>1, <2>1 DEF Run
<1>4. run[r].pc \in Active /\ run[r].pc \notin Over
  BY DEF Moves, EnsureImages, CreateWorkspace, CreateArtifacts, PrepareFails, StepFails,
         WaitTimesOut, WaitFindsNothing, DropWorkspace, DropArtifacts, WorkerDies, Active, Over
<1>5. ReporterOf' = ReporterOf
  BY <1>3 DEF ReporterOf
<1>6. SubmitOf[r] = "working"
  BY <1>4 DEF SubmitOf
<1>7. CASE run'[r].pc \notin Over
  <2>1. SubmitOf' = SubmitOf
    BY <1>2, <1>4, <1>7 DEF SubmitOf
  <2>. QED BY <1>5, <2>1
<1>8. CASE run'[r].pc \in Over
  <2>1. SubmitOf' = [SubmitOf EXCEPT ![r] = run'[r].pc]
    BY <1>2, <1>8 DEF SubmitOf
  <2>2. run'[r].pc = "returned" => ReporterOf[r] = "exited"
    BY <1>1, <1>2 DEF Reported, RunFacts, ReporterOf
  <2>3. run'[r].pc \in {"returned", "raised", "lost"}
    BY <1>8 DEF Over
  <2>. QED BY <1>5, <1>6, <2>1, <2>2, <2>3
           DEF SubmitOf, ReporterOf, Contract!SubmitReturns, Contract!SubmitRaises, Contract!WorkerDies,
               Contract!ContractNext
<1>. QED BY <1>7, <1>8

LEMMA ContractStep ==
  ASSUME DockerInv, [Next]_vars
  PROVE  Contract!ContractNext \/ UNCHANGED <<SubmitOf, ReporterOf>>
<1>1. TypeOK /\ \A q \in Runs : run[q] \in Run
  BY DEF DockerInv, TypeOK
<1>2. CASE UNCHANGED vars
  BY <1>2 DEF vars, SubmitOf, ReporterOf
<1>3. ASSUME NEW r \in Runs, CreateBox(r)
      PROVE  Contract!ContractNext \/ UNCHANGED <<SubmitOf, ReporterOf>>
  <2>1. \A q \in Runs : /\ run'[q].told = run[q].told
                        /\ run'[q].pc = IF q = r THEN "created" ELSE run[q].pc
                        /\ run'[q].exited = IF Hit(r, q) THEN TRUE ELSE run[q].exited
    BY <1>1, <1>3, CreateView
  <2>2. SubmitOf' = SubmitOf
    BY <1>3, <2>1 DEF SubmitOf, CreateBox, Over
  <2>3. CASE \E q \in Runs : Hit(r, q)
    <3>1. PICK q \in Runs : Hit(r, q)
      BY <2>3
    <3>2. \A p \in Runs : Hit(r, p) <=> p = q
      BY <3>1 DEF Hit
    <3>3. Name(r) \in Names /\ Name(r)[1] = StepOf(r)
      BY <1>1, NameIsName
    <3>4. run[q].told # "none" /\ ~ run[q].exited
      BY <3>1, <3>3 DEF Hit, DockerInv, BoxInv, BoxFacts
    <3>. QED BY <2>1, <2>2, <3>2, <3>4, ReporterStops
  <2>4. CASE ~ \E q \in Runs : Hit(r, q)
    BY <2>1, <2>2, <2>4 DEF ReporterOf
  <2>. QED BY <2>3, <2>4
<1>4. ASSUME NEW r \in Runs, StartBox(r)
      PROVE  Contract!ContractNext \/ UNCHANGED <<SubmitOf, ReporterOf>>
  <2>1. \A q \in Runs : /\ run'[q].exited = run[q].exited
                        /\ run'[q].pc = IF q = r THEN "wait" ELSE run[q].pc
                        /\ run'[q].told = IF q = r THEN Told(r) ELSE run[q].told
    BY <1>1, <1>4, StartView
  <2>2. SubmitOf' = SubmitOf /\ SubmitOf[r] = "working"
    <3>1. run[r].pc = "created"
      BY <1>4 DEF StartBox
    <3>. QED BY <2>1, <3>1 DEF SubmitOf, Over
  <2>3. run[r].told = "none" /\ ~ run[r].exited
    BY <1>4 DEF StartBox, DockerInv, RunInv, RunFacts, Early
  <2>4. ReporterOf[r] = "none" /\ ReporterOf' = [ReporterOf EXCEPT ![r] = Told(r)]
    BY <2>1, <2>3 DEF ReporterOf
  <2>5. Told(r) = "none" => ReporterOf' = ReporterOf
    BY <2>4 DEF ReporterOf
  <2>6. Told(r) # "none" => Told(r) \in Contract!Started
    BY DEF Told, Contract!Started
  <2>. QED BY <2>2, <2>4, <2>5, <2>6 DEF SubmitOf, ReporterOf, Contract!StartReporter, Contract!ContractNext
<1>5. ASSUME NEW r \in Runs, WaitReturns(r) PROVE UNCHANGED <<SubmitOf, ReporterOf>>
  <2>1. PICK pc \in {"step", "drop_workspace"}, new \in Run :
          /\ run' = [run EXCEPT ![r] = new] /\ new.pc = pc
          /\ new.told = run[r].told /\ new.exited = run[r].exited
    <3>1. run \in [Runs -> Run] /\ run[r] \in Run /\ run[r].at \in DOMAIN Chain
      BY <1>1 DEF TypeOK, Run
    <3>2. CASE NextStep(r) /\ StepOf(r) # "reporter"
      <4>. DEFINE new == [run[r] EXCEPT !.at = run[r].at + 1, !.pc = "step"]
      <4>1. run[r].at + 1 \in DOMAIN Chain
        BY <1>1, <3>1, <3>2, NameIsName, ChainShape
      <4>2. run' = [run EXCEPT ![r] = new]
        BY <3>1, <3>2 DEF NextStep
      <4>3. new \in Run /\ new.pc = "step" /\ new.told = run[r].told /\ new.exited = run[r].exited
        BY <3>1, <4>1 DEF Run, Active
      <4>. QED BY <4>2, <4>3
    <3>3. CASE GiveUp(r)
      <4>. DEFINE new == [run[r] EXCEPT !.failed = TRUE, !.at = Len(Chain), !.pc = "step"]
      <4>1. Len(Chain) \in DOMAIN Chain
        BY ChainShape
      <4>2. run' = [run EXCEPT ![r] = new]
        BY <3>1, <3>3 DEF GiveUp
      <4>3. new \in Run /\ new.pc = "step" /\ new.told = run[r].told /\ new.exited = run[r].exited
        BY <3>1, <4>1 DEF Run, Active
      <4>. QED BY <4>2, <4>3
    <3>4. CASE Goto(r, "drop_workspace")
      <4>. DEFINE new == [run[r] EXCEPT !.pc = "drop_workspace"]
      <4>1. run' = [run EXCEPT ![r] = new]
        BY <3>1, <3>4 DEF Goto
      <4>2. new \in Run /\ new.pc = "drop_workspace" /\ new.told = run[r].told /\ new.exited = run[r].exited
        BY <3>1 DEF Run, Active
      <4>. QED BY <4>1, <4>2
    <3>. QED BY <1>5, <3>2, <3>3, <3>4 DEF WaitReturns
  <2>2. run'[r] = new /\ \A q \in Runs : q # r => run'[q] = run[q]
    BY <1>1, <2>1 DEF TypeOK
  <2>3. run[r].pc = "wait"
    BY <1>5 DEF WaitReturns
  <2>. QED BY <2>1, <2>2, <2>3 DEF SubmitOf, ReporterOf, Over
<1>6. ASSUME NEW n \in Names, BoxExits(n)
      PROVE  Contract!ContractNext \/ UNCHANGED <<SubmitOf, ReporterOf>>
  <2>1. box[n] # None /\ box[n].st = "running" /\ box[n].run \in Runs
    BY <1>1, <1>6 DEF BoxExits, TypeOK, Box
  <2>2. PICK r \in Runs : r = box[n].run
    BY <2>1
  <2>3. /\ \A q \in Runs :
             /\ run'[q].scan = run[q].scan /\ run'[q].at = run[q].at
             /\ run'[q].failed = run[q].failed /\ run'[q].told = run[q].told
             /\ run'[q].raising = run[q].raising /\ run'[q].pc = run[q].pc
             /\ run'[q].exited = IF q = r /\ n[1] = "reporter" THEN TRUE ELSE run[q].exited
        /\ run' \in [Runs -> Run]
    <3>1. TypeOK
      BY <1>1
    <3>. QED BY <1>6, <2>2, <3>1, ExitView, ZenonT(30)
  <2>4. SubmitOf' = SubmitOf
    BY <2>3 DEF SubmitOf
  <2>5. CASE n[1] = "reporter"
    <3>1. run[r].told # "none" /\ ~ run[r].exited
      BY <2>1, <2>2, <2>5 DEF DockerInv, BoxInv, BoxFacts
    <3>. QED BY <2>3, <2>4, <2>5, <3>1, ReporterStops
  <2>6. CASE n[1] # "reporter"
    BY <2>3, <2>4, <2>6 DEF ReporterOf
  <2>. QED BY <2>5, <2>6
<1>. QED BY <1>2, <1>3, <1>4, <1>5, <1>6, MoveContract DEF Next, SubmitStep, Moves

(* The reporter is the last thing a run starts, it knows whether a step    *)
(* failed, and submit returns only after it has exited.                    *)
THEOREM RunnerKeepsContract == Spec => ImplementsContract
<1>1. Init => Contract!ContractInit
  <2>. SUFFICES ASSUME Init PROVE Contract!ContractInit
    OBVIOUS
  <2>1. \A r \in Runs : run[r].pc = "images" /\ run[r].told = "none" /\ ~ run[r].exited
    BY DEF Init
  <2>. QED BY <2>1 DEF Contract!ContractInit, Over
<1>2. DockerInv /\ [Next]_vars => [Contract!ContractNext]_(Contract!contractVars)
  BY ContractStep DEF Contract!contractVars, SubmitOf, ReporterOf
<1>. QED BY <1>1, <1>2, DockerInvariant, PTL DEF Spec, ImplementsContract, Contract!ContractSpec
================================================================================
