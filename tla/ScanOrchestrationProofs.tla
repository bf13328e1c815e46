------------------------ MODULE ScanOrchestrationProofs ------------------------
(***************************************************************************)
(* Theorems about ScanOrchestration, for every set of scans, every bound   *)
(* on deliveries and pods, every set of backends and faults.               *)
(***************************************************************************)
EXTENDS ScanOrchestration, TLAPS

(* What the writers of a row hand to Flush, and what Flush makes of it,    *)
(* are rows again.                                                         *)
LEMMA RowsAreClosed ==
  /\ Absent \in Row
  /\ \A b \in AllBackends : QueuedRow(b) \in Row
  /\ \A old \in Row : Started(old) \in Row /\ RunnerFailed(old) \in Row
  /\ \A old \in Row, o \in Outcome : Reported(old, o) \in Row
  /\ \A stored, old, new \in Row : Flush(stored, old, new) \in Row
<1>. USE DEF Row, Unfinished, Terminal, Outcome, Author, AllBackends
<1>1. Absent \in Row
  BY DEF Absent
<1>2. \A b \in AllBackends : QueuedRow(b) \in Row
  BY DEF Absent, QueuedRow
<1>3. \A old \in Row : Started(old) \in Row /\ RunnerFailed(old) \in Row
  BY DEF Started, RunnerFailed
<1>4. \A old \in Row, o \in Outcome : Reported(old, o) \in Row
  BY DEF Reported
<1>5. \A stored, old, new \in Row : Flush(stored, old, new) \in Row
  BY DEF Flush
<1>. QED BY <1>1, <1>2, <1>3, <1>4, <1>5

(* What each kind of step leaves alone, and which of its actions write the *)
(* row or open a request.                                                  *)
LEMMA ApiFrame ==
  ASSUME NEW s \in Scans, ApiStep(s)
  PROVE  /\ UNCHANGED <<unacked, delivered, exec, seen, job, secret, evicted, rep, outcome, cb, cbSeen,
                        blobs, ingested, enriched, notified>>
         /\ CommitScan(s) \/ row' = row
         /\ PublishRunScan(s) \/ queue' = queue
  BY DEF ApiStep, PublishRunScan, CommitScan, CreateFails, brokerVars, jobVars, workerVars,
         reporterVars, handlerVars

LEMMA BrokerFrame ==
  ASSUME NEW s \in Scans, BrokerStep(s)
  PROVE  /\ UNCHANGED <<row, api, seen, job, secret, evicted, rep, outcome, cb, cbSeen,
                        blobs, ingested, enriched, notified>>
         /\ Deliver(s) \/ (delivered' = delivered /\ exec' = exec)
  BY DEF BrokerStep, Deliver, Redeliver, jobVars, workerVars, reporterVars, handlerVars

LEMMA WorkerFrame ==
  ASSUME NEW s \in Scans, NEW d \in Deliveries, WorkerStep(s, d)
  PROVE  /\ UNCHANGED <<api, queue, delivered, rep, outcome, cb, cbSeen,
                        blobs, ingested, enriched, notified>>
         /\ CommitRunning(s, d) \/ BackstopCommit(s, d) \/ row' = row
         /\ \/ CreateJob(s, d) \/ CreateJobUnanswered(s, d)
            \/ CreateSecret(s, d) \/ CreateSecretFails(s, d)
            \/ SecretUnanswered(s, d)
            \/ UNCHANGED <<job, secret, evicted>>
<1>. USE DEF Goto, EndExec, Ack, CloseSession, brokerVars, jobVars, reporterVars, handlerVars
<1>1. CASE LoadScan(s, d)
  BY <1>1 DEF LoadScan
<1>2. CASE CommitRunning(s, d) \/ PrepareFails(s, d)
  BY <1>2 DEF CommitRunning, PrepareFails
<1>3. CASE CreateJob(s, d) \/ CreateJobUnanswered(s, d) \/ JobNameTaken(s, d)
  BY <1>3 DEF CreateJob, CreateJobUnanswered, JobNameTaken
<1>4. CASE CreateSecret(s, d) \/ CreateSecretFails(s, d) \/ SecretUnanswered(s, d)
  BY <1>4 DEF CreateSecret, CreateSecretFails, SecretUnanswered
<1>5. CASE SubmitReturns(s, d) \/ SubmitRaises(s, d)
  BY <1>5 DEF SubmitReturns, SubmitRaises
<1>6. CASE BackstopLoad(s, d)
  BY <1>6 DEF BackstopLoad
<1>7. CASE BackstopCommit(s, d) \/ BackstopFails(s, d) \/ WorkerDies(s, d) \/ ChildKilled(s, d)
  BY <1>7 DEF BackstopCommit, BackstopFails, WorkerDies, ChildKilled
<1>. QED
  BY <1>1, <1>2, <1>3, <1>4, <1>5, <1>6, <1>7 DEF WorkerStep

LEMMA ClusterFrame ==
  ASSUME NEW s \in Scans, ClusterStep(s)
  PROVE  /\ UNCHANGED <<row, api, queue, unacked, delivered, exec, seen, rep, outcome, cb, cbSeen,
                        blobs, ingested, enriched, notified>>
         /\ JobExpires(s) \/ \E r \in Reporters : EvictPod(s, r)
  BY DEF ClusterStep, JobExpires, EvictPod, brokerVars, workerVars, reporterVars, handlerVars

LEMMA ReporterFrame ==
  ASSUME NEW s \in Scans, NEW r \in Reporters, ReporterStep(s, r)
  PROVE  /\ UNCHANGED <<row, api, queue, unacked, delivered, exec, seen, job, secret, evicted,
                        cbSeen, enriched, notified>>
         /\ PostCallback(s, r) \/ cb' = cb
  BY DEF ReporterStep, StartReporter, StartFailedReporter, PodFails, UploadSbom, InsertRows,
         IngestFails, PostCallback, ReadResponse, ReporterDies,
         brokerVars, jobVars, workerVars, sentVars, handlerVars

LEMMA HandlerFrame ==
  ASSUME NEW s \in Scans, NEW r \in Reporters, HandlerStep(s, r)
  PROVE  /\ UNCHANGED <<api, queue, unacked, delivered, exec, seen, job, secret, evicted, rep, outcome,
                        blobs, ingested>>
         /\ CommitCallback(s, r) \/ row' = row
  BY DEF HandlerStep, HandleLoad, AnswerFailure, SendEnrich, SendNotify, CommitCallback,
         HandlerFails, CommitCallbackFails, brokerVars, jobVars, workerVars, reporterVars

(* What a write leaves of the row it meets, whatever its session loaded.   *)
LEMMA WrittenRows ==
  ASSUME NEW stored \in Row, NEW loaded \in Row
  PROVE  /\ LET new == Flush(stored, loaded, Started(loaded)) IN
              /\ new.backend = stored.backend /\ new.sbom = stored.sbom
              /\ IF loaded.status = "running" THEN new = stored ELSE new.status = "running"
         /\ LET new == Flush(stored, loaded, RunnerFailed(loaded)) IN
              /\ new.backend = stored.backend /\ new.sbom = stored.sbom
              /\ new.status = IF loaded.status = "failed" THEN stored.status ELSE "failed"
         /\ \A o \in Outcome : LET new == Flush(stored, loaded, Reported(loaded, o)) IN
              /\ new.backend = stored.backend
              /\ new.status = IF loaded.status = o THEN stored.status ELSE o
              /\ new.sbom = "set" => stored.sbom = "set" \/ o = "succeeded"
<1>. USE DEF Row, Outcome, Author, Flush
<1>1. LET new == Flush(stored, loaded, Started(loaded)) IN
        /\ new.backend = stored.backend /\ new.sbom = stored.sbom
        /\ IF loaded.status = "running" THEN new = stored ELSE new.status = "running"
  BY DEF Started
<1>2. LET new == Flush(stored, loaded, RunnerFailed(loaded)) IN
        /\ new.backend = stored.backend /\ new.sbom = stored.sbom
        /\ new.status = IF loaded.status = "failed" THEN stored.status ELSE "failed"
  BY DEF RunnerFailed
<1>3. \A o \in Outcome : LET new == Flush(stored, loaded, Reported(loaded, o)) IN
        /\ new.backend = stored.backend
        /\ new.status = IF loaded.status = o THEN stored.status ELSE o
        /\ new.sbom = "set" => stored.sbom = "set" \/ o = "succeeded"
  BY DEF Reported
<1>. QED BY <1>1, <1>2, <1>3

(* The broker's bookkeeping: a waiting message can still be delivered, a   *)
(* scan not yet published has none, and only delivered runs have started.  *)
BrokerInv == \A s \in Scans :
  /\ s \in queue => delivered[s] < MaxDeliveries
  /\ api[s] = "new" => delivered[s] = 0 /\ s \notin queue \cup unacked
  /\ \A d \in Deliveries : d > delivered[s] => exec[s][d] = "idle"

TypeInv == TypeOK /\ BrokerInv

(* Updates of a nested function stay in its type; cited where the prover   *)
(* has too much in view to find it.                                        *)
LEMMA Update ==
  ASSUME NEW S, NEW T, NEW V, NEW f \in [S -> [T -> V]], NEW s \in S, NEW t \in T, NEW v \in V
  PROVE  [f EXCEPT ![s][t] = v] \in [S -> [T -> V]]
  OBVIOUS

LEMMA TypeInit == Init => TypeInv
<1>. SUFFICES ASSUME Init PROVE TypeInv
  OBVIOUS
<1>1. TypeOK
  BY RowsAreClosed, DeliveriesAssumption
  DEF Init, TypeOK, Deliveries, Reporters, Pods, ExecState, RepState, CbState, Outcome
<1>2. BrokerInv
  BY DeliveriesAssumption DEF Init, BrokerInv, Deliveries
<1>. QED BY <1>1, <1>2 DEF TypeInv

LEMMA TypeApi ==
  ASSUME TypeInv, NEW s \in Scans, ApiStep(s) PROVE TypeInv'
<1>. USE DEF TypeInv, TypeOK, BrokerInv, brokerVars, jobVars, workerVars, reporterVars, sentVars, handlerVars
<1>1. CASE PublishRunScan(s)
  BY <1>1, DeliveriesAssumption DEF PublishRunScan
<1>2. CASE CommitScan(s)
  BY <1>2, RowsAreClosed, BackendsAssumption DEF CommitScan
<1>3. CASE CreateFails(s)
  BY <1>3 DEF CreateFails
<1>. QED
  BY <1>1, <1>2, <1>3 DEF ApiStep

LEMMA TypeBroker ==
  ASSUME TypeInv, NEW s \in Scans, BrokerStep(s) PROVE TypeInv'
<1>. USE DEF TypeInv, TypeOK, BrokerInv, brokerVars, jobVars, workerVars, reporterVars, sentVars, handlerVars
<1>1. CASE Deliver(s)
  <2>1. delivered[s] \in Nat /\ delivered[s] < MaxDeliveries
    BY <1>1, DeliveriesAssumption DEF Deliver
  <2>2. delivered[s] + 1 \in Deliveries
    BY <2>1, DeliveriesAssumption DEF Deliveries
  <2>3. delivered' \in [Scans -> 0 .. MaxDeliveries]
    BY <1>1, <2>1, DeliveriesAssumption DEF Deliver
  <2>4. exec' \in [Scans -> [Deliveries -> ExecState]]
    BY <1>1, <2>2 DEF Deliver, ExecState, ExecActive
  <2>5. TypeOK'
    BY <1>1, <2>3, <2>4 DEF Deliver
  <2>. HIDE DEF TypeInv, TypeOK, BrokerInv
  <2>6. BrokerInv'
    <3>1. \A t \in Scans : delivered'[t] = IF t = s THEN delivered[s] + 1 ELSE delivered[t]
      BY <1>1 DEF Deliver, TypeInv, TypeOK
    <3>2. queue' = queue \ {s} /\ unacked' = unacked \cup {s} /\ api' = api /\ s \in queue
      BY <1>1 DEF Deliver
    <3>3. \A t \in Scans, d \in Deliveries :
            exec'[t][d] = IF t = s /\ d = delivered[s] + 1 THEN "start" ELSE exec[t][d]
      BY <1>1 DEF Deliver, TypeInv, TypeOK
    <3>4. \A t \in Scans : t \in queue' => delivered'[t] < MaxDeliveries
      BY <3>1, <3>2 DEF TypeInv, BrokerInv
    <3>5. \A t \in Scans : api'[t] = "new" => delivered'[t] = 0 /\ t \notin queue' \cup unacked'
      BY <3>1, <3>2 DEF TypeInv, BrokerInv
    <3>6. ASSUME NEW t \in Scans, NEW d \in Deliveries, d > delivered'[t]
          PROVE  exec'[t][d] = "idle"
      <4>1. d > delivered[t] /\ ~ (t = s /\ d = delivered[s] + 1)
        BY <2>1, <3>1, <3>6 DEF Deliveries
      <4>. QED BY <3>3, <4>1 DEF TypeInv, BrokerInv
    <3>. QED BY <3>4, <3>5, <3>6 DEF BrokerInv
  <2>. QED BY <2>5, <2>6 DEF TypeInv
<1>2. CASE Redeliver(s)
  BY <1>2, DeliveriesAssumption DEF Redeliver
<1>. QED
  BY <1>1, <1>2 DEF BrokerStep

LEMMA TypeWorker ==
  ASSUME TypeInv, NEW s \in Scans, NEW d \in Deliveries, WorkerStep(s, d) PROVE TypeInv'
<1>. USE DEF TypeInv, TypeOK, BrokerInv, brokerVars, jobVars, workerVars, reporterVars, sentVars, handlerVars,
             Goto, EndExec, Ack, CloseSession, ExecState, ExecActive, ExecEnded
<1>1. CASE LoadScan(s, d)
  <2>. HIDE DEF TypeInv, TypeOK, BrokerInv, ExecState, ExecActive, ExecEnded
  <2>1. \/ seen' = seen
        \/ seen' = [seen EXCEPT ![s][d] = row[s]]
    BY <1>1 DEF LoadScan
  <2>2. PICK pc \in ExecState : exec' = [exec EXCEPT ![s][d] = pc]
    BY <1>1 DEF LoadScan, ExecState, ExecActive, ExecEnded
  <2>3. exec[s][d] = "start" /\ unacked' \in {unacked, unacked \ {s}}
    BY <1>1 DEF LoadScan
  <2>4. UNCHANGED <<row, api, queue, delivered, job, secret, evicted, rep, outcome, cb, cbSeen,
                    blobs, ingested, enriched, notified>>
    BY <1>1 DEF LoadScan
  <2>5. seen' \in [Scans -> [Deliveries -> Row]] /\ exec' \in [Scans -> [Deliveries -> ExecState]]
    <3>1. /\ seen \in [Scans -> [Deliveries -> Row]] /\ row[s] \in Row
          /\ exec \in [Scans -> [Deliveries -> ExecState]]
      BY DEF TypeInv, TypeOK
    <3>2. [seen EXCEPT ![s][d] = row[s]] \in [Scans -> [Deliveries -> Row]]
      BY <3>1, Update
    <3>3. [exec EXCEPT ![s][d] = pc] \in [Scans -> [Deliveries -> ExecState]]
      BY <3>1, Update
    <3>. QED BY <2>1, <2>2, <3>1, <3>2, <3>3
  <2>6. TypeOK'
    BY <2>3, <2>4, <2>5 DEF TypeInv, TypeOK
  <2>7. BrokerInv'
    <3>1. ASSUME NEW t \in Scans, NEW e \in Deliveries, exec[t][e] = "idle"
          PROVE  exec'[t][e] = "idle"
      BY <2>2, <2>3, <3>1 DEF TypeInv, TypeOK
    <3>. QED BY <2>3, <2>4, <3>1 DEF TypeInv, BrokerInv
  <2>. QED BY <2>6, <2>7 DEF TypeInv
<1>2. CASE CommitRunning(s, d)
  BY <1>2, RowsAreClosed DEF CommitRunning
<1>3. CASE PrepareFails(s, d)
  BY <1>3, RowsAreClosed DEF PrepareFails
<1>4. CASE CreateJob(s, d)
  BY <1>4, DeliveriesAssumption DEF CreateJob, Deliveries
<1>5. CASE JobNameTaken(s, d)
  BY <1>5 DEF JobNameTaken
<1>6. CASE CreateSecret(s, d)
  BY <1>6, DeliveriesAssumption DEF CreateSecret, Deliveries
<1>7. CASE CreateSecretFails(s, d)
  BY <1>7, DeliveriesAssumption DEF CreateSecretFails, Deliveries
<1>8. CASE SubmitReturns(s, d)
  BY <1>8 DEF SubmitReturns
<1>9. CASE SubmitRaises(s, d)
  BY <1>9 DEF SubmitRaises
<1>10. CASE BackstopLoad(s, d)
  <2>. HIDE DEF TypeInv, TypeOK, BrokerInv, ExecState, ExecActive, ExecEnded
  <2>1. \/ seen' = seen
        \/ seen' = [seen EXCEPT ![s][d] = row[s]]
    BY <1>10 DEF BackstopLoad
  <2>2. PICK pc \in ExecState : exec' = [exec EXCEPT ![s][d] = pc]
    BY <1>10 DEF BackstopLoad, ExecState, ExecActive, ExecEnded
  <2>3. exec[s][d] = "raised" /\ unacked' \in {unacked, unacked \ {s}}
    BY <1>10 DEF BackstopLoad
  <2>4. UNCHANGED <<row, api, queue, delivered, job, secret, evicted, rep, outcome, cb, cbSeen,
                    blobs, ingested, enriched, notified>>
    BY <1>10 DEF BackstopLoad
  <2>5. seen' \in [Scans -> [Deliveries -> Row]] /\ exec' \in [Scans -> [Deliveries -> ExecState]]
    <3>1. /\ seen \in [Scans -> [Deliveries -> Row]] /\ row[s] \in Row
          /\ exec \in [Scans -> [Deliveries -> ExecState]]
      BY DEF TypeInv, TypeOK
    <3>2. [seen EXCEPT ![s][d] = row[s]] \in [Scans -> [Deliveries -> Row]]
      BY <3>1, Update
    <3>3. [exec EXCEPT ![s][d] = pc] \in [Scans -> [Deliveries -> ExecState]]
      BY <3>1, Update
    <3>. QED BY <2>1, <2>2, <3>1, <3>2, <3>3
  <2>6. TypeOK'
    BY <2>3, <2>4, <2>5 DEF TypeInv, TypeOK
  <2>7. BrokerInv'
    <3>1. ASSUME NEW t \in Scans, NEW e \in Deliveries, exec[t][e] = "idle"
          PROVE  exec'[t][e] = "idle"
      BY <2>2, <2>3, <3>1 DEF TypeInv, TypeOK
    <3>. QED BY <2>3, <2>4, <3>1 DEF TypeInv, BrokerInv
  <2>. QED BY <2>6, <2>7 DEF TypeInv
<1>11. CASE BackstopCommit(s, d)
  <2>1. row' \in [Scans -> Row]
    BY <1>11, RowsAreClosed DEF BackstopCommit
  <2>2. TypeOK'
    BY <1>11, <2>1, RowsAreClosed DEF BackstopCommit
  <2>3. BrokerInv'
    BY <1>11 DEF BackstopCommit
  <2>. QED BY <2>2, <2>3
<1>12. CASE BackstopFails(s, d)
  BY <1>12, RowsAreClosed DEF BackstopFails
<1>13. CASE WorkerDies(s, d)
  BY <1>13, RowsAreClosed DEF WorkerDies
<1>14. CASE ChildKilled(s, d)
  BY <1>14, RowsAreClosed DEF ChildKilled
<1>15. CASE CreateJobUnanswered(s, d)
  BY <1>15, DeliveriesAssumption DEF CreateJobUnanswered, Deliveries
<1>16. CASE SecretUnanswered(s, d)
  <2>1. exec' \in [Scans -> [Deliveries -> ExecState]]
    BY <1>16 DEF SecretUnanswered
  <2>2. job' \in [Scans -> 0 .. MaxDeliveries] /\ secret' \subseteq Scans
    <3>1. 0 \in 0 .. MaxDeliveries
      BY DeliveriesAssumption
    <3>2. CASE DeleteJob(s)
      BY <3>1, <3>2 DEF DeleteJob
    <3>. QED BY <1>16, <3>2 DEF SecretUnanswered
  <2>3. evicted' \in [Scans -> SUBSET Reporters]
    <3>1. LivePods(s) \subseteq Reporters
      BY DEF LivePods
    <3>2. CASE DeleteJob(s)
      BY <3>1, <3>2 DEF DeleteJob
    <3>. QED BY <1>16, <3>2 DEF SecretUnanswered
  <2>4. TypeOK'
    BY <1>16, <2>1, <2>2, <2>3 DEF SecretUnanswered
  <2>5. BrokerInv'
    BY <1>16 DEF SecretUnanswered
  <2>. QED BY <2>4, <2>5
<1>. QED
  BY <1>1, <1>2, <1>3, <1>4, <1>5, <1>6, <1>7, <1>8, <1>9, <1>10, <1>11, <1>12, <1>13, <1>14,
     <1>15, <1>16 DEF WorkerStep

LEMMA TypeReporter ==
  ASSUME TypeInv, NEW s \in Scans, NEW r \in Reporters, ReporterStep(s, r) PROVE TypeInv'
<1>. USE DEF TypeInv, TypeOK, BrokerInv, brokerVars, jobVars, workerVars, reporterVars, sentVars, handlerVars,
             RepState, RepActive, Exited, Outcome, CbState, CbActive
<1>1. CASE StartReporter(s, r)
  BY <1>1 DEF StartReporter
<1>2. CASE StartFailedReporter(s, r)
  BY <1>2 DEF StartFailedReporter
<1>3. CASE PodFails(s, r)
  BY <1>3 DEF PodFails
<1>4. CASE UploadSbom(s, r)
  BY <1>4 DEF UploadSbom
<1>5. CASE InsertRows(s, r)
  BY <1>5 DEF InsertRows
<1>6. CASE IngestFails(s, r)
  BY <1>6 DEF IngestFails
<1>7. CASE PostCallback(s, r)
  BY <1>7 DEF PostCallback
<1>8. CASE ReadResponse(s, r)
  BY <1>8 DEF ReadResponse
<1>9. CASE ReporterDies(s, r)
  BY <1>9 DEF ReporterDies
<1>. QED
  BY <1>1, <1>2, <1>3, <1>4, <1>5, <1>6, <1>7, <1>8, <1>9 DEF ReporterStep

LEMMA TypeHandler ==
  ASSUME TypeInv, NEW s \in Scans, NEW r \in Reporters, HandlerStep(s, r) PROVE TypeInv'
<1>. USE DEF TypeInv, TypeOK, BrokerInv, brokerVars, jobVars, workerVars, reporterVars, sentVars, handlerVars,
             CbState, CbActive, Replied
<1>1. CASE HandleLoad(s, r)
  <2>. HIDE DEF TypeInv, TypeOK, BrokerInv, CbState, CbActive, Replied
  <2>1. \/ cbSeen' = cbSeen
        \/ cbSeen' = [cbSeen EXCEPT ![s][r] = row[s]]
    BY <1>1 DEF HandleLoad
  <2>2. PICK pc \in CbState : cb' = [cb EXCEPT ![s][r] = pc]
    BY <1>1 DEF HandleLoad, CbState, CbActive, Replied
  <2>3. UNCHANGED <<row, api, queue, unacked, delivered, exec, seen, job, secret, evicted, rep, outcome,
                    blobs, ingested, enriched, notified>>
    BY <1>1 DEF HandleLoad
  <2>4. cbSeen' \in [Scans -> [Reporters -> Row]] /\ cb' \in [Scans -> [Reporters -> CbState]]
    <3>1. /\ cbSeen \in [Scans -> [Reporters -> Row]] /\ row[s] \in Row
          /\ cb \in [Scans -> [Reporters -> CbState]]
      BY DEF TypeInv, TypeOK
    <3>2. [cbSeen EXCEPT ![s][r] = row[s]] \in [Scans -> [Reporters -> Row]]
      BY <3>1, Update
    <3>3. [cb EXCEPT ![s][r] = pc] \in [Scans -> [Reporters -> CbState]]
      BY <3>1, Update
    <3>. QED BY <2>1, <2>2, <3>1, <3>2, <3>3
  <2>. QED BY <2>3, <2>4 DEF TypeInv, TypeOK, BrokerInv
<1>2. CASE AnswerFailure(s, r)
  BY <1>2 DEF AnswerFailure
<1>3. CASE SendEnrich(s, r)
  BY <1>3 DEF SendEnrich
<1>4. CASE SendNotify(s, r)
  BY <1>4 DEF SendNotify
<1>5. CASE CommitCallback(s, r)
  BY <1>5, RowsAreClosed DEF CommitCallback
<1>6. CASE HandlerFails(s, r)
  BY <1>6, RowsAreClosed DEF HandlerFails
<1>7. CASE CommitCallbackFails(s, r)
  BY <1>7, RowsAreClosed DEF CommitCallbackFails
<1>. QED
  BY <1>1, <1>2, <1>3, <1>4, <1>5, <1>6, <1>7 DEF HandlerStep

LEMMA TypeCluster ==
  ASSUME TypeInv, NEW s \in Scans, ClusterStep(s) PROVE TypeInv'
<1>. USE DEF TypeInv, TypeOK, BrokerInv
<1>1. CASE JobExpires(s)
  BY <1>1, ClusterFrame, DeliveriesAssumption DEF JobExpires
<1>2. ASSUME NEW r \in Reporters, EvictPod(s, r) PROVE TypeInv'
  BY <1>2, ClusterFrame DEF EvictPod
<1>. QED BY <1>1, <1>2, ClusterFrame

LEMMA TypeNext == TypeInv /\ [Next]_vars => TypeInv'
<1>. SUFFICES ASSUME TypeInv, [Next]_vars PROVE TypeInv'
  OBVIOUS
<1>1. CASE UNCHANGED vars
  BY <1>1 DEF vars, TypeInv, TypeOK, BrokerInv
<1>. QED
  BY <1>1, TypeApi, TypeCluster, TypeBroker, TypeWorker, TypeReporter, TypeHandler DEF Next

LEMMA TypeInvariant == Spec => []TypeInv
  BY TypeInit, TypeNext, PTL DEF Spec

(* Every variable keeps its type: no row leaves the schema, and no         *)
(* delivery is counted past the bound.                                     *)
THEOREM TypeCorrect == Spec => []TypeOK
<1>1. TypeInv => TypeOK
  BY DEF TypeInv
<1>. QED BY <1>1, TypeInvariant, PTL
--------------------------------------------------------------------------------
(* What a verdict of success promises about the stores and the follow-up   *)
(* messages.                                                               *)

(* A payload that reports success is only built after the ingest, and its  *)
(* handler has published both follow-ups before it may commit.             *)
ReportInv == \A s \in Scans, r \in Reporters :
  /\ rep[s][r] = "insert" => s \in blobs
  /\ outcome[s][r] = "succeeded" => s \in blobs /\ s \in ingested
  /\ rep[s][r] \in {"idle", "upload", "insert"} => cb[s][r] = "none"
  /\ cb[s][r] = "enriched" => s \in enriched /\ outcome[s][r] = "succeeded"
  /\ cb[s][r] = "answered" /\ outcome[s][r] = "succeeded" => s \in enriched /\ s \in notified

StoredInv == ReportInv /\ SucceededMeansStored /\ SucceededMeansAnnounced

LEMMA StoredInit == Init => StoredInv
  BY DEF Init, StoredInv, ReportInv, SucceededMeansStored, SucceededMeansAnnounced, Absent

(* A row write keeps StoredInv if it adds a success, or an object name,    *)
(* only for a scan that is stored and announced.                           *)
LEMMA StoredByRow ==
  ASSUME StoredInv, NEW s \in Scans, NEW new, row \in [Scans -> Row], row' = [row EXCEPT ![s] = new],
         new.status = "succeeded" => row[s].status = "succeeded"
                                     \/ (s \in blobs /\ s \in ingested /\ s \in enriched /\ s \in notified),
         new.sbom = "set" => row[s].sbom = "set" \/ s \in blobs,
         UNCHANGED <<blobs, ingested, enriched, notified>>
  PROVE  SucceededMeansStored' /\ SucceededMeansAnnounced'
  BY DEF StoredInv, SucceededMeansStored, SucceededMeansAnnounced

(* A request that moves on keeps ReportInv if it only claims publications  *)
(* that were made.                                                         *)
LEMMA ReportByRequest ==
  ASSUME TypeOK, ReportInv, NEW s \in Scans, NEW r \in Reporters, NEW pc,
         cb' = [cb EXCEPT ![s][r] = pc],
         UNCHANGED <<outcome, blobs, ingested>>,
         enriched \subseteq enriched', notified \subseteq notified',
         \A t \in Scans, q \in Reporters :
           rep'[t][q] = rep[t][q] \/ (t = s /\ q = r /\ rep'[t][q] = "waiting"),
         rep'[s][r] \notin {"idle", "upload", "insert"},
         pc = "enriched" => s \in enriched' /\ outcome[s][r] = "succeeded",
         pc = "answered" /\ outcome[s][r] = "succeeded" => s \in enriched' /\ s \in notified'
  PROVE  ReportInv'
<1>1. \A t \in Scans, q \in Reporters : cb'[t][q] = IF t = s /\ q = r THEN pc ELSE cb[t][q]
  BY DEF TypeOK
<1>. QED BY <1>1 DEF ReportInv

LEMMA StoredStep ==
  ASSUME TypeInv, StoredInv, [Next]_vars
  PROVE  StoredInv'
<1>. USE DEF TypeInv, TypeOK
<1>1. ASSUME NEW s \in Scans, ApiStep(s) PROVE StoredInv'
  <2>1. CASE row' = row
    BY <1>1, <2>1, ApiFrame DEF StoredInv, ReportInv, SucceededMeansStored, SucceededMeansAnnounced
  <2>2. CASE CommitScan(s)
    <3>1. PICK b : row' = [row EXCEPT ![s] = QueuedRow(b)]
      BY <2>2 DEF CommitScan
    <3>2. QueuedRow(b).status = "queued" /\ QueuedRow(b).sbom = "unset"
      BY DEF QueuedRow, Absent
    <3>3. SucceededMeansStored' /\ SucceededMeansAnnounced'
      BY <1>1, <3>1, <3>2, ApiFrame, StoredByRow
    <3>. QED BY <1>1, <3>3, ApiFrame DEF StoredInv, ReportInv
  <2>. QED BY <1>1, <2>1, <2>2, ApiFrame
<1>2. ASSUME NEW s \in Scans, BrokerStep(s) \/ ClusterStep(s) PROVE StoredInv'
  BY <1>2, BrokerFrame, ClusterFrame DEF StoredInv, ReportInv, SucceededMeansStored, SucceededMeansAnnounced
<1>3. ASSUME NEW s \in Scans, NEW d \in Deliveries, WorkerStep(s, d) PROVE StoredInv'
  <2>1. row[s] \in Row /\ seen[s][d] \in Row
    OBVIOUS
  <2>2. CASE row' = row
    BY <1>3, <2>2, WorkerFrame DEF StoredInv, ReportInv, SucceededMeansStored, SucceededMeansAnnounced
  <2>3. CASE CommitRunning(s, d)
    <3>. DEFINE new == Flush(row[s], seen[s][d], Started(seen[s][d]))
    <3>1. row' = [row EXCEPT ![s] = new]
      BY <2>3 DEF CommitRunning
    <3>2. new.sbom = row[s].sbom /\ new.status \in {row[s].status, "running"}
      <4>. HIDE DEF TypeInv, TypeOK
      <4>. QED BY <2>1, WrittenRows
    <3>3. SucceededMeansStored' /\ SucceededMeansAnnounced'
      BY <1>3, <3>1, <3>2, WorkerFrame, StoredByRow
    <3>. QED BY <1>3, <3>3, WorkerFrame DEF StoredInv, ReportInv
  <2>4. CASE BackstopCommit(s, d)
    <3>. DEFINE new == Flush(row[s], seen[s][d], RunnerFailed(seen[s][d]))
    <3>1. row' = [row EXCEPT ![s] = new]
      BY <2>4 DEF BackstopCommit
    <3>2. new.sbom = row[s].sbom /\ new.status \in {row[s].status, "failed"}
      BY <2>1, WrittenRows
    <3>3. SucceededMeansStored' /\ SucceededMeansAnnounced'
      BY <1>3, <3>1, <3>2, WorkerFrame, StoredByRow
    <3>. QED BY <1>3, <3>3, WorkerFrame DEF StoredInv, ReportInv
  <2>. QED BY <1>3, <2>2, <2>3, <2>4, WorkerFrame
<1>4. ASSUME NEW s \in Scans, NEW r \in Reporters, ReporterStep(s, r) PROVE StoredInv'
  <2>1. SucceededMeansStored' /\ SucceededMeansAnnounced'
    <3>1. blobs \subseteq blobs' /\ ingested \subseteq ingested'
      BY <1>4 DEF ReporterStep, StartReporter, StartFailedReporter, PodFails, UploadSbom, InsertRows,
                  IngestFails, PostCallback, ReadResponse, ReporterDies
    <3>. QED BY <1>4, <3>1, ReporterFrame DEF StoredInv, SucceededMeansStored, SucceededMeansAnnounced
  <2>2. ReportInv'
    <3>. USE <1>4, ReporterFrame DEF StoredInv, ReportInv
    <3>1. CASE StartReporter(s, r)
      BY <3>1 DEF StartReporter, MayStart, handlerVars
    <3>2. CASE StartFailedReporter(s, r)
      BY <3>2 DEF StartFailedReporter, MayStart, handlerVars
    <3>3. CASE PodFails(s, r)
      BY <3>3 DEF PodFails, MayStart, handlerVars
    <3>4. CASE UploadSbom(s, r)
      BY <3>4 DEF UploadSbom, handlerVars
    <3>5. CASE InsertRows(s, r)
      BY <3>5 DEF InsertRows, handlerVars
    <3>6. CASE IngestFails(s, r)
      BY <3>6 DEF IngestFails, handlerVars
    <3>7. CASE PostCallback(s, r)
      <4>. HIDE DEF ReportInv
      <4>1. /\ rep[s][r] = "post" /\ rep' = [rep EXCEPT ![s][r] = "waiting"]
            /\ cb' = [cb EXCEPT ![s][r] = "received"]
            /\ UNCHANGED <<outcome, blobs, ingested, enriched, notified>>
        BY <3>7 DEF PostCallback, sentVars
      <4>2. \A t \in Scans, q \in Reporters :
              rep'[t][q] = rep[t][q] \/ (t = s /\ q = r /\ rep'[t][q] = "waiting")
        BY <4>1
      <4>3. TypeOK /\ ReportInv /\ enriched \subseteq enriched' /\ notified \subseteq notified'
        BY <4>1 DEF ReportInv
      <4>. HIDE DEF TypeOK, ReportInv
      <4>4. rep'[s][r] = "waiting"
        BY <4>1 DEF TypeOK
      <4>5. PICK pc \in {"received"} : cb' = [cb EXCEPT ![s][r] = pc]
        BY <4>1
      <4>6. rep'[s][r] \notin {"idle", "upload", "insert"}
        BY <4>4
      <4>7. /\ pc = "enriched" => s \in enriched' /\ outcome[s][r] = "succeeded"
            /\ pc = "answered" /\ outcome[s][r] = "succeeded" => s \in enriched' /\ s \in notified'
        BY <4>5
      <4>8. UNCHANGED <<outcome, blobs, ingested>>
        BY <4>1
      <4>. QED BY <4>2, <4>3, <4>5, <4>6, <4>7, <4>8, ReportByRequest, Zenon
    <3>8. CASE ReadResponse(s, r)
      BY <3>8 DEF ReadResponse, handlerVars
    <3>9. CASE ReporterDies(s, r)
      BY <3>9 DEF ReporterDies, RepActive, handlerVars
    <3>. QED BY <3>1, <3>2, <3>3, <3>4, <3>5, <3>6, <3>7, <3>8, <3>9 DEF ReporterStep
  <2>. QED BY <2>1, <2>2 DEF StoredInv
<1>5. ASSUME NEW s \in Scans, NEW r \in Reporters, HandlerStep(s, r) PROVE StoredInv'
  <2>1. ReportInv'
    <3>. USE <1>5, HandlerFrame DEF StoredInv, ReportInv
    <3>1. CASE HandleLoad(s, r)
      <4>. HIDE DEF ReportInv
      <4>1. PICK pc \in {"loaded", "duplicate"} : cb' = [cb EXCEPT ![s][r] = pc]
        BY <3>1 DEF HandleLoad
      <4>2. cb[s][r] = "received" /\ UNCHANGED <<rep, outcome, blobs, ingested, enriched, notified>>
        BY <3>1 DEF HandleLoad, sentVars
      <4>3. rep[s][r] \notin {"idle", "upload", "insert"}
        BY <4>2 DEF ReportInv
      <4>. QED BY <4>1, <4>2, <4>3, ReportByRequest
    <3>2. CASE AnswerFailure(s, r)
      BY <3>2 DEF AnswerFailure, sentVars
    <3>3. CASE SendEnrich(s, r)
      BY <3>3 DEF SendEnrich
    <3>4. CASE SendNotify(s, r)
      BY <3>4 DEF SendNotify
    <3>5. CASE CommitCallback(s, r)
      <4>. HIDE DEF ReportInv
      <4>1. PICK pc \in {"accepted"} : cb' = [cb EXCEPT ![s][r] = pc]
        BY <3>5 DEF CommitCallback
      <4>2. cb[s][r] = "answered" /\ UNCHANGED <<rep, outcome, blobs, ingested, enriched, notified>>
        BY <3>5 DEF CommitCallback, sentVars
      <4>3. rep[s][r] \notin {"idle", "upload", "insert"}
        BY <4>2 DEF ReportInv
      <4>. QED BY <4>1, <4>2, <4>3, ReportByRequest
    <3>6. CASE HandlerFails(s, r)
      BY <3>6 DEF HandlerFails, sentVars
    <3>7. CASE CommitCallbackFails(s, r)
      BY <3>7 DEF CommitCallbackFails, sentVars
    <3>. QED BY <3>1, <3>2, <3>3, <3>4, <3>5, <3>6, <3>7 DEF HandlerStep
  <2>2. SucceededMeansStored' /\ SucceededMeansAnnounced'
    <3>1. CASE row' = row
      <4>1. enriched \subseteq enriched' /\ notified \subseteq notified'
        BY <1>5 DEF HandlerStep, HandleLoad, AnswerFailure, SendEnrich, SendNotify, CommitCallback,
                    HandlerFails, CommitCallbackFails, sentVars
      <4>. QED BY <1>5, <3>1, <4>1, HandlerFrame DEF StoredInv, SucceededMeansStored, SucceededMeansAnnounced
    <3>2. CASE CommitCallback(s, r)
      <4>. DEFINE new == Flush(row[s], cbSeen[s][r], Reported(cbSeen[s][r], outcome[s][r]))
      <4>1. row[s] \in Row /\ cbSeen[s][r] \in Row /\ outcome[s][r] \in Outcome
        OBVIOUS
      <4>2. row' = [row EXCEPT ![s] = new] /\ UNCHANGED <<enriched, notified>> /\ cb[s][r] = "answered"
        BY <3>2 DEF CommitCallback, sentVars
      <4>3. outcome[s][r] = "succeeded" =>
              s \in blobs /\ s \in ingested /\ s \in enriched /\ s \in notified
        BY <4>2 DEF StoredInv, ReportInv
      <4>4. /\ new.status = "succeeded" => row[s].status = "succeeded" \/ outcome[s][r] = "succeeded"
            /\ new.sbom = "set" => row[s].sbom = "set" \/ outcome[s][r] = "succeeded"
        BY <4>1, WrittenRows DEF Outcome
      <4>. QED BY <1>5, <4>2, <4>3, <4>4, HandlerFrame, StoredByRow
    <3>. QED BY <1>5, <3>1, <3>2, HandlerFrame
  <2>. QED BY <2>1, <2>2 DEF StoredInv
<1>6. CASE UNCHANGED vars
  BY <1>6 DEF vars, StoredInv, ReportInv, SucceededMeansStored, SucceededMeansAnnounced
<1>. QED
  BY <1>1, <1>2, <1>3, <1>4, <1>5, <1>6 DEF Next

LEMMA StoredInvariant == Spec => []StoredInv
<1>1. TypeInv /\ StoredInv /\ [Next]_vars => StoredInv'
  BY StoredStep
<1>. QED BY <1>1, StoredInit, TypeInvariant, PTL DEF Spec

(* No crash, repeat or race of any of the parties lets a row say succeeded *)
(* before its SBOM object and its ClickHouse rows exist, or name an object *)
(* that was never uploaded.                                                *)
THEOREM SuccessIsBacked == Spec => []SucceededMeansStored
<1>1. StoredInv => SucceededMeansStored
  BY DEF StoredInv
<1>. QED BY <1>1, StoredInvariant, PTL

(* A row says succeeded only after both follow-up messages were published. *)
THEOREM SuccessIsAnnounced == Spec => []SucceededMeansAnnounced
<1>1. StoredInv => SucceededMeansAnnounced
  BY DEF StoredInv
<1>. QED BY <1>1, StoredInvariant, PTL
================================================================================
