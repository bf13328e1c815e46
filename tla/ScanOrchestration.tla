--------------------------- MODULE ScanOrchestration ---------------------------
(***************************************************************************)
(* The life of a scan from the POST that creates it to the verdict in its  *)
(* scan_jobs row.  Five parties share that row and two stores:             *)
(*                                                                         *)
(*   API      create_scan inserts the row and publishes run_scan           *)
(*   broker   Valkey; late acknowledgement, so a message can come back     *)
(*   worker   run_scan marks the row running and drives a runner           *)
(*   reporter one container: ingests the artifacts, POSTs a callback       *)
(*   handler  scan_callback records the verdict and announces it           *)
(*                                                                         *)
(* A runner appears here by its contract only: when submit may return or   *)
(* raise and when a reporter may start.  Every database transaction is a   *)
(* read step and a commit step with a snapshot in between.                 *)
(***************************************************************************)
EXTENDS ScanRow, Naturals

CONSTANTS
  Scans,          \* scan ids
  Backends,       \* values of Settings.ippon_job_runner while scans are created
  MaxDeliveries,  \* bound: times the broker hands out one run_scan message
  MaxPods,        \* pods of one Kubernetes Job: backoffLimit + 1
  Faults          \* the parties that may fail in this instance

ASSUME BackendsAssumption  == Backends \subseteq AllBackends
ASSUME DeliveriesAssumption == MaxDeliveries \in Nat \ {0}
ASSUME PodsAssumption      == MaxPods \in Nat \ {0}
ASSUME FaultsAssumption    ==
  Faults \subseteq {"api", "worker", "db", "runner", "ingest", "reporter", "cluster"}

Deliveries == 1 .. MaxDeliveries
Pods       == 1 .. MaxPods
Reporters  == Deliveries \X Pods     \* the p-th reporter that delivery d leads to

VARIABLES
  row,       \* Postgres: the committed scan_jobs row of each scan
  api,       \* create_scan: progress of the request that creates the scan
  queue,     \* broker: scans whose run_scan message waits to be handed out
  unacked,   \* broker: scans whose message is handed out and not acknowledged
  delivered, \* broker: how often the message was handed out
  exec,      \* run_scan: control state of each delivery
  seen,      \* run_scan: the row its open session loaded
  job,       \* Kubernetes: the delivery that created the scan's Job, 0 if there is none
  secret,    \* Kubernetes: scans whose Job has its Secret
  evicted,   \* Kubernetes: pods that are being deleted; they may run on for a while
  rep,       \* reporter containers: control state
  outcome,   \* reporter containers: the status of the payload
  cb,        \* scan_callback: control state of the request of each reporter
  cbSeen,    \* scan_callback: the row its session loaded
  blobs,     \* object store: scans whose SBOM was uploaded
  ingested,  \* ClickHouse: scans all of whose tables were filled at least once
  enriched,  \* scans for which enrich_findings was published
  notified   \* scans for which send_scan_completed was published

brokerVars   == <<queue, unacked, delivered>>
workerVars   == <<exec, seen>>
jobVars      == <<job, secret, evicted>>
reporterVars == <<rep, outcome, blobs, ingested>>
sentVars     == <<enriched, notified>>
handlerVars  == <<cb, cbSeen, enriched, notified>>
vars == <<row, api, queue, unacked, delivered, exec, seen, job, secret, evicted,
          rep, outcome, cb, cbSeen, blobs, ingested, enriched, notified>>

(* Control states of run_scan.  "secret" and "submitted" are inside the    *)
(* Kubernetes submit: the Job exists, then the Secret too.  "killed" is a  *)
(* pool process that its parent survives, "lost" a whole worker.           *)
ExecActive == {"start", "loaded", "submit", "secret", "submitted", "raised", "backstop"}
ExecEnded  == {"not_found", "returned", "recorded", "abandoned", "killed"}
ExecState  == {"idle", "lost"} \cup ExecActive \cup ExecEnded

RepActive == {"upload", "insert", "post", "waiting"}
Exited    == {"ok", "failed"}
RepState  == {"idle"} \cup RepActive \cup Exited

CbActive == {"received", "loaded", "enriched", "answered"}
Replied  == {"answered", "accepted", "duplicate", "unsaved"}   \* a 200 has been sent
CbState  == {"none", "errored"} \cup CbActive \cup Replied

TypeOK ==
  /\ row \in [Scans -> Row]
  /\ api \in [Scans -> {"new", "published", "committed", "aborted"}]
  /\ queue \subseteq Scans
  /\ unacked \subseteq Scans
  /\ delivered \in [Scans -> 0 .. MaxDeliveries]
  /\ exec \in [Scans -> [Deliveries -> ExecState]]
  /\ seen \in [Scans -> [Deliveries -> Row]]
  /\ job \in [Scans -> 0 .. MaxDeliveries]
  /\ secret \subseteq Scans
  /\ evicted \in [Scans -> SUBSET Reporters]
  /\ rep \in [Scans -> [Reporters -> RepState]]
  /\ outcome \in [Scans -> [Reporters -> Outcome]]
  /\ cb \in [Scans -> [Reporters -> CbState]]
  /\ cbSeen \in [Scans -> [Reporters -> Row]]
  /\ blobs \subseteq Scans
  /\ ingested \subseteq Scans
  /\ enriched \subseteq Scans
  /\ notified \subseteq Scans

Init ==
  /\ row = [s \in Scans |-> Absent]
  /\ api = [s \in Scans |-> "new"]
  /\ queue = {}
  /\ unacked = {}
  /\ delivered = [s \in Scans |-> 0]
  /\ exec = [s \in Scans |-> [d \in Deliveries |-> "idle"]]
  /\ seen = [s \in Scans |-> [d \in Deliveries |-> Absent]]
  /\ job = [s \in Scans |-> 0]
  /\ secret = {}
  /\ evicted = [s \in Scans |-> {}]
  /\ rep = [s \in Scans |-> [r \in Reporters |-> "idle"]]
  /\ outcome = [s \in Scans |-> [r \in Reporters |-> "failed"]]
  /\ cb = [s \in Scans |-> [r \in Reporters |-> "none"]]
  /\ cbSeen = [s \in Scans |-> [r \in Reporters |-> Absent]]
  /\ blobs = {}
  /\ ingested = {}
  /\ enriched = {}
  /\ notified = {}

--------------------------------------------------------------------------------
(* API: create_scan.  The INSERT is flushed and the message published in   *)
(* the handler; get_db commits after the handler has returned (and, with   *)
(* the pinned FastAPI, after the 201 was sent).                            *)

PublishRunScan(s) ==
  /\ api[s] = "new"
  /\ api' = [api EXCEPT ![s] = "published"]
  /\ queue' = queue \cup {s}
  /\ UNCHANGED <<row, unacked, delivered, jobVars, workerVars, reporterVars, handlerVars>>

CommitScan(s) ==
  /\ api[s] = "published"
  /\ api' = [api EXCEPT ![s] = "committed"]
  /\ \E b \in Backends : row' = [row EXCEPT ![s] = QueuedRow(b)]
  /\ UNCHANGED <<brokerVars, jobVars, workerVars, reporterVars, handlerVars>>

(* The request dies: send_task raises, or the commit fails after it.  The  *)
(* INSERT is rolled back; a published message is not.                      *)
CreateFails(s) ==
  /\ "api" \in Faults
  /\ api[s] \in {"new", "published"}
  /\ api' = [api EXCEPT ![s] = "aborted"]
  /\ UNCHANGED <<row, brokerVars, jobVars, workerVars, reporterVars, handlerVars>>

--------------------------------------------------------------------------------
(* Broker: task_acks_late, prefetch 1, default visibility timeout.         *)

(* Mutant: acknowledge on receipt (task_acks_late off).                    *)
DeliverAcked(s) ==
  /\ s \in queue
  /\ queue' = queue \ {s}
  /\ UNCHANGED unacked
  /\ delivered' = [delivered EXCEPT ![s] = @ + 1]
  /\ exec' = [exec EXCEPT ![s][delivered[s] + 1] = "start"]
  /\ UNCHANGED <<row, api, seen, jobVars, reporterVars, handlerVars>>

Deliver(s) ==
  /\ s \in queue
  /\ queue' = queue \ {s}
  /\ unacked' = unacked \cup {s}
  /\ delivered' = [delivered EXCEPT ![s] = @ + 1]
  /\ exec' = [exec EXCEPT ![s][delivered[s] + 1] = "start"]
  /\ UNCHANGED <<row, api, seen, jobVars, reporterVars, handlerVars>>

(* The visibility timeout passes without an acknowledgement: the worker    *)
(* died, or its chain of up to five 900 s steps is simply still running.   *)
Redeliver(s) ==
  /\ s \in unacked
  /\ delivered[s] < MaxDeliveries
  /\ queue' = queue \cup {s}
  /\ unacked' = unacked \ {s}
  /\ UNCHANGED <<row, api, delivered, workerVars, jobVars, reporterVars, handlerVars>>

(* A restored message keeps its delivery tag, so any delivery's            *)
(* acknowledgement removes the unacknowledged entry.                       *)
Ack(s) == unacked' = unacked \ {s} /\ UNCHANGED <<queue, delivered>>

(* run_scan ends, by return or by exception: both acknowledge.             *)
EndExec(s, d, how) ==
  /\ exec' = [exec EXCEPT ![s][d] = how]
  /\ Ack(s)

Goto(s, d, pc) ==
  /\ exec' = [exec EXCEPT ![s][d] = pc]
  /\ UNCHANGED brokerVars

--------------------------------------------------------------------------------
(* Kubernetes: the Job of a scan and the pods it runs.                     *)

(* When the backend may start reporter r of scan s: docker as the last     *)
(* step of the delivery's chain; k8s as the main container of a pod of the *)
(* Job.  The Job has one pod at a time (parallelism 1), but the manifest   *)
(* sets no podReplacementPolicy, so the next one does not wait for a pod   *)
(* that is being deleted, and that pod's node may be slow to hear of it.   *)
MayStart(s, r) ==
  /\ rep[s][r] = "idle"
  /\ \/ row[s].backend = "docker" /\ exec[s][r[1]] = "submit" /\ r[2] = 1
     \/ /\ row[s].backend = "k8s"
        /\ \/ /\ s \in secret /\ job[s] = r[1]
              /\ \A p \in 1 .. (r[2] - 1) :
                   rep[s][<<r[1], p>>] = "failed" \/ <<r[1], p>> \in evicted[s]
           \/ r \in evicted[s]

(* Pods of the scan's Job that run their reporter or may still get to it.  *)
LivePods(s) == {r \in Reporters : MayStart(s, r) \/ rep[s][r] \in RepActive}

(* A pod is evicted, preempted or drained, or its node is lost: it is on   *)
(* its way out and no longer counts for the Job.                           *)
EvictPod(s, r) ==
  /\ "cluster" \in Faults
  /\ row[s].backend = "k8s"
  /\ r \in LivePods(s) \ evicted[s]
  /\ evicted' = [evicted EXCEPT ![s] = @ \cup {r}]
  /\ UNCHANGED <<row, api, brokerVars, job, secret, workerVars, reporterVars, handlerVars>>

(* The Job is deleted, propagationPolicy Background: its Secret and pods   *)
(* go with it.                                                             *)
DeleteJob(s) ==
  /\ job' = [job EXCEPT ![s] = 0]
  /\ secret' = secret \ {s}
  /\ evicted' = [evicted EXCEPT ![s] = @ \cup LivePods(s)]

(* The Job is over: its last pod has ended or is being deleted.  Without   *)
(* its Secret no pod gets as far as the reporter; then, or between a       *)
(* failed pod and its retry, the Job may run into activeDeadlineSeconds.   *)
JobFinished(s) ==
  /\ job[s] # 0
  /\ exec[s][job[s]] \notin {"secret", "submitted"}  \* an API call is no hour late
  /\ \/ s \notin secret
     \/ /\ \A p \in Pods : rep[s][<<job[s], p>>] \in RepActive => <<job[s], p>> \in evicted[s]
        /\ \E p \in Pods : rep[s][<<job[s], p>>] \in Exited \/ <<job[s], p>> \in evicted[s]

(* ttlSecondsAfterFinished removes it, which frees its name for a delivery *)
(* that comes late enough.                                                 *)
JobExpires(s) ==
  /\ JobFinished(s)
  /\ job' = [job EXCEPT ![s] = 0]
  /\ secret' = secret \ {s}
  /\ UNCHANGED <<evicted, row, api, brokerVars, workerVars, reporterVars, handlerVars>>

--------------------------------------------------------------------------------
(* Worker: run_scan.  A session that ends forgets the row it loaded.       *)

CloseSession(s, d) == seen' = [seen EXCEPT ![s][d] = Absent]

(* Mutant: no check that the row is there.                                 *)
LoadScanUnchecked(s, d) ==
  /\ exec[s][d] = "start"
  /\ Goto(s, d, "loaded")
  /\ seen' = [seen EXCEPT ![s][d] = row[s]]
  /\ UNCHANGED <<row, api, jobVars, reporterVars, handlerVars>>

(* A row without its repository is not met: the foreign key cascades.      *)
LoadScan(s, d) ==
  /\ exec[s][d] = "start"
  /\ IF row[s].status = "absent"
       THEN EndExec(s, d, "not_found") /\ UNCHANGED seen
       ELSE Goto(s, d, "loaded") /\ seen' = [seen EXCEPT ![s][d] = row[s]]
  /\ UNCHANGED <<row, api, jobVars, reporterVars, handlerVars>>

CommitRunning(s, d) ==
  /\ exec[s][d] = "loaded"
  /\ row' = [row EXCEPT ![s] = Flush(row[s], seen[s][d], Started(seen[s][d]))]
  /\ Goto(s, d, "submit")
  /\ CloseSession(s, d)
  /\ UNCHANGED <<api, jobVars, reporterVars, handlerVars>>

(* The first transaction raises: nothing is written.                       *)
PrepareFails(s, d) ==
  /\ "db" \in Faults
  /\ exec[s][d] \in {"start", "loaded"}
  /\ Goto(s, d, "raised")
  /\ CloseSession(s, d)
  /\ UNCHANGED <<row, api, jobVars, reporterVars, handlerVars>>

(* Mutant: a generated Job name, so a second Job is not refused.           *)
CreateAnotherJob(s, d) ==
  /\ row[s].backend = "k8s"
  /\ exec[s][d] = "submit"
  /\ job' = [job EXCEPT ![s] = d]
  /\ UNCHANGED <<secret, evicted>>
  /\ Goto(s, d, "secret")
  /\ UNCHANGED <<row, api, seen, reporterVars, handlerVars>>

(* K8sJobRunner.submit: the Job, whose name is fixed by the scan, then the *)
(* Secret its reporter needs.                                              *)
CreateJob(s, d) ==
  /\ row[s].backend = "k8s"
  /\ exec[s][d] = "submit"
  /\ job[s] = 0
  /\ job' = [job EXCEPT ![s] = d]
  /\ UNCHANGED <<secret, evicted>>
  /\ Goto(s, d, "secret")
  /\ UNCHANGED <<row, api, seen, reporterVars, handlerVars>>

(* The Job is created and the answer is lost.  The call is outside the     *)
(* try, so nothing is cleaned up.                                          *)
CreateJobUnanswered(s, d) ==
  /\ "runner" \in Faults
  /\ row[s].backend = "k8s"
  /\ exec[s][d] = "submit"
  /\ job[s] = 0
  /\ job' = [job EXCEPT ![s] = d]
  /\ UNCHANGED <<secret, evicted>>
  /\ Goto(s, d, "raised")
  /\ UNCHANGED <<row, api, seen, reporterVars, handlerVars>>

JobNameTaken(s, d) ==
  /\ row[s].backend = "k8s"
  /\ exec[s][d] = "submit"
  /\ job[s] # 0
  /\ Goto(s, d, "raised")
  /\ UNCHANGED <<row, api, jobVars, seen, reporterVars, handlerVars>>

CreateSecret(s, d) ==
  /\ exec[s][d] = "secret"
  /\ secret' = secret \cup {s}
  /\ UNCHANGED <<job, evicted>>
  /\ Goto(s, d, "submitted")
  /\ UNCHANGED <<row, api, seen, reporterVars, handlerVars>>

(* The Secret is refused: the Job is deleted, best effort.                 *)
CreateSecretFails(s, d) ==
  /\ "runner" \in Faults
  /\ exec[s][d] = "secret"
  /\ \E left \in {0, job[s]} : job' = [job EXCEPT ![s] = left]
  /\ UNCHANGED <<secret, evicted>>
  /\ Goto(s, d, "raised")
  /\ UNCHANGED <<row, api, seen, reporterVars, handlerVars>>

(* The Secret is created and the answer is lost.  Only an ApiException     *)
(* leads to the deletion of the Job, and that call can fail too: the Job   *)
(* then runs its pods while the except clause of run_scan fails the scan.  *)
SecretUnanswered(s, d) ==
  /\ "runner" \in Faults
  /\ row[s].backend = "k8s"
  /\ exec[s][d] = "submitted"
  /\ DeleteJob(s) \/ UNCHANGED jobVars
  /\ Goto(s, d, "raised")
  /\ UNCHANGED <<row, api, seen, reporterVars, handlerVars>>

(* submit returns: on docker when the reporter container has exited, with  *)
(* whatever code; on k8s when Job and Secret exist; inline after grype.    *)
SubmitReturns(s, d) ==
  /\ \/ row[s].backend = "docker" /\ exec[s][d] = "submit" /\ rep[s][<<d, 1>>] \in Exited
     \/ row[s].backend = "k8s"    /\ exec[s][d] = "submitted"
     \/ row[s].backend = "inline" /\ exec[s][d] = "submit"
  /\ EndExec(s, d, "returned")
  /\ UNCHANGED <<row, api, jobVars, seen, reporterVars, handlerVars>>

(* submit raises: an image, volume, container or API call fails, or a step *)
(* outlives its deadline - the docker reporter may then still be running.  *)
SubmitRaises(s, d) ==
  /\ "runner" \in Faults
  /\ exec[s][d] = "submit"
  /\ Goto(s, d, "raised")
  /\ UNCHANGED <<row, api, jobVars, seen, reporterVars, handlerVars>>

(* Mutant: the backstop only rescues scans that are still queued.          *)
BackstopLoadQueued(s, d) ==
  /\ exec[s][d] = "raised"
  /\ IF row[s].status = "queued"
       THEN Goto(s, d, "backstop") /\ seen' = [seen EXCEPT ![s][d] = row[s]]
       ELSE EndExec(s, d, "recorded") /\ UNCHANGED seen
  /\ UNCHANGED <<row, api, jobVars, reporterVars, handlerVars>>

(* The except clause: a session of its own reads the row ...               *)
BackstopLoad(s, d) ==
  /\ exec[s][d] = "raised"
  /\ \/ /\ row[s].status \in Unfinished
        /\ Goto(s, d, "backstop")
        /\ seen' = [seen EXCEPT ![s][d] = row[s]]
     \/ /\ row[s].status \in Terminal
        /\ EndExec(s, d, "recorded")
        /\ UNCHANGED seen
     \/ /\ row[s].status = "absent"
        /\ EndExec(s, d, "not_found")
        /\ UNCHANGED seen
  /\ UNCHANGED <<row, api, jobVars, reporterVars, handlerVars>>

(* Mutant: the task is retried in place after the failure is recorded.     *)
BackstopCommitRetries(s, d) ==
  /\ exec[s][d] = "backstop"
  /\ row' = [row EXCEPT ![s] = Flush(row[s], seen[s][d], RunnerFailed(seen[s][d]))]
  /\ Goto(s, d, "start")
  /\ CloseSession(s, d)
  /\ UNCHANGED <<api, jobVars, reporterVars, handlerVars>>

(* ... and commits the failure, over whatever was committed in between.    *)
BackstopCommit(s, d) ==
  /\ exec[s][d] = "backstop"
  /\ row' = [row EXCEPT ![s] = Flush(row[s], seen[s][d], RunnerFailed(seen[s][d]))]
  /\ EndExec(s, d, "recorded")
  /\ CloseSession(s, d)
  /\ UNCHANGED <<api, jobVars, reporterVars, handlerVars>>

BackstopFails(s, d) ==
  /\ "db" \in Faults
  /\ exec[s][d] \in {"raised", "backstop"}
  /\ EndExec(s, d, "abandoned")
  /\ CloseSession(s, d)
  /\ UNCHANGED <<row, api, jobVars, reporterVars, handlerVars>>

(* The worker disappears, parent and pool: no acknowledgement, open        *)
(* sessions roll back, containers and Jobs it started keep running.        *)
WorkerDies(s, d) ==
  /\ "worker" \in Faults
  /\ exec[s][d] \in ExecActive
  /\ Goto(s, d, "lost")
  /\ CloseSession(s, d)
  /\ UNCHANGED <<row, api, jobVars, reporterVars, handlerVars>>

(* One process of the prefork pool is killed (memory, a signal).  Its      *)
(* parent sees WorkerLostError and, without task_reject_on_worker_lost,    *)
(* acknowledges; the except clause of run_scan never runs.                 *)
ChildKilled(s, d) ==
  /\ "worker" \in Faults
  /\ exec[s][d] \in ExecActive
  /\ EndExec(s, d, "killed")
  /\ CloseSession(s, d)
  /\ UNCHANGED <<row, api, jobVars, reporterVars, handlerVars>>

--------------------------------------------------------------------------------
(* Reporter containers and the pods they run in.                           *)

StartReporter(s, r) ==
  /\ MayStart(s, r)
  /\ rep' = [rep EXCEPT ![s][r] = "upload"]
  /\ UNCHANGED <<row, api, brokerVars, jobVars, outcome, blobs, ingested, workerVars, handlerVars>>

(* docker: an earlier step exited non-zero, the reporter runs with         *)
(* IPPON_FAILED=1 and skips the ingest.                                    *)
StartFailedReporter(s, r) ==
  /\ row[s].backend = "docker"
  /\ MayStart(s, r)
  /\ rep' = [rep EXCEPT ![s][r] = "post"]
  /\ outcome' = [outcome EXCEPT ![s][r] = "failed"]
  /\ UNCHANGED <<row, api, brokerVars, jobVars, blobs, ingested, workerVars, handlerVars>>

(* k8s: an init container fails, the pod fails without its reporter.       *)
PodFails(s, r) ==
  /\ row[s].backend = "k8s"
  /\ MayStart(s, r)
  /\ rep' = [rep EXCEPT ![s][r] = "failed"]
  /\ UNCHANGED <<row, api, brokerVars, jobVars, outcome, blobs, ingested, workerVars, handlerVars>>

UploadSbom(s, r) ==
  /\ rep[s][r] = "upload"
  /\ rep' = [rep EXCEPT ![s][r] = "insert"]
  /\ blobs' = blobs \cup {s}
  /\ UNCHANGED <<row, api, brokerVars, jobVars, outcome, ingested, workerVars, handlerVars>>

InsertRows(s, r) ==
  /\ rep[s][r] = "insert"
  /\ rep' = [rep EXCEPT ![s][r] = "post"]
  /\ outcome' = [outcome EXCEPT ![s][r] = "succeeded"]
  /\ ingested' = ingested \cup {s}
  /\ UNCHANGED <<row, api, brokerVars, jobVars, blobs, workerVars, handlerVars>>

(* Mutant: the except clause of the reporter forgets callback_status.      *)
IngestFailsQuietly(s, r) ==
  /\ "ingest" \in Faults
  /\ rep[s][r] \in {"upload", "insert"}
  /\ rep' = [rep EXCEPT ![s][r] = "post"]
  /\ outcome' = [outcome EXCEPT ![s][r] = "succeeded"]
  /\ UNCHANGED <<row, api, brokerVars, jobVars, blobs, ingested, workerVars, handlerVars>>

(* ingest raises and the reporter reports the failure.  The rows inserted  *)
(* so far stay, but scan_metrics, inserted last, is missing.               *)
IngestFails(s, r) ==
  /\ "ingest" \in Faults
  /\ rep[s][r] \in {"upload", "insert"}
  /\ rep' = [rep EXCEPT ![s][r] = "post"]
  /\ outcome' = [outcome EXCEPT ![s][r] = "failed"]
  /\ UNCHANGED <<row, api, brokerVars, jobVars, blobs, ingested, workerVars, handlerVars>>

PostCallback(s, r) ==
  /\ rep[s][r] = "post"
  /\ rep' = [rep EXCEPT ![s][r] = "waiting"]
  /\ cb' = [cb EXCEPT ![s][r] = "received"]
  /\ UNCHANGED <<row, api, brokerVars, jobVars, outcome, blobs, ingested, cbSeen, sentVars, workerVars>>

(* The response arrives: only a success the API did not refuse exits 0.    *)
ReadResponse(s, r) ==
  /\ rep[s][r] = "waiting"
  /\ cb[s][r] \in Replied \cup {"errored"}
  /\ rep' = [rep EXCEPT ![s][r] =
               IF outcome[s][r] = "succeeded" /\ cb[s][r] \in Replied THEN "ok" ELSE "failed"]
  /\ UNCHANGED <<row, api, brokerVars, jobVars, outcome, blobs, ingested, workerVars, handlerVars>>

(* The container ends early: it is killed, the POST cannot connect, or the *)
(* 10 s client timeout passes while the request is still being handled.    *)
ReporterDies(s, r) ==
  /\ "reporter" \in Faults
  /\ rep[s][r] \in RepActive
  /\ rep' = [rep EXCEPT ![s][r] = "failed"]
  /\ UNCHANGED <<row, api, brokerVars, jobVars, outcome, blobs, ingested, workerVars, handlerVars>>

--------------------------------------------------------------------------------
(* API: scan_callback.  The row exists and the signature and scan id match *)
(* for every request a reporter sends, so the 401, 404 and 400 exits are   *)
(* not taken here.                                                         *)

(* Mutant: no idempotency check.                                           *)
HandleLoadAlways(s, r) ==
  /\ cb[s][r] = "received"
  /\ cb' = [cb EXCEPT ![s][r] = "loaded"]
  /\ cbSeen' = [cbSeen EXCEPT ![s][r] = row[s]]
  /\ UNCHANGED <<row, api, brokerVars, jobVars, sentVars, workerVars, reporterVars>>

HandleLoad(s, r) ==
  /\ cb[s][r] = "received"
  /\ IF row[s].status \in Terminal
       THEN cb' = [cb EXCEPT ![s][r] = "duplicate"] /\ UNCHANGED cbSeen
       ELSE /\ cb' = [cb EXCEPT ![s][r] = "loaded"]
            /\ cbSeen' = [cbSeen EXCEPT ![s][r] = row[s]]
  /\ UNCHANGED <<row, api, brokerVars, jobVars, sentVars, workerVars, reporterVars>>

AnswerFailure(s, r) ==
  /\ cb[s][r] = "loaded"
  /\ outcome[s][r] = "failed"
  /\ cb' = [cb EXCEPT ![s][r] = "answered"]
  /\ UNCHANGED <<row, api, brokerVars, jobVars, cbSeen, sentVars, workerVars, reporterVars>>

(* Mutant: the second publish is forgotten.                                *)
SendEnrichOnly(s, r) ==
  /\ cb[s][r] = "loaded"
  /\ outcome[s][r] = "succeeded"
  /\ cb' = [cb EXCEPT ![s][r] = "answered"]
  /\ enriched' = enriched \cup {s}
  /\ UNCHANGED notified
  /\ UNCHANGED <<row, api, brokerVars, jobVars, cbSeen, workerVars, reporterVars>>

SendEnrich(s, r) ==
  /\ cb[s][r] = "loaded"
  /\ outcome[s][r] = "succeeded"
  /\ cb' = [cb EXCEPT ![s][r] = "enriched"]
  /\ enriched' = enriched \cup {s}
  /\ UNCHANGED notified
  /\ UNCHANGED <<row, api, brokerVars, jobVars, cbSeen, workerVars, reporterVars>>

SendNotify(s, r) ==
  /\ cb[s][r] = "enriched"
  /\ cb' = [cb EXCEPT ![s][r] = "answered"]
  /\ notified' = notified \cup {s}
  /\ UNCHANGED enriched
  /\ UNCHANGED <<row, api, brokerVars, jobVars, cbSeen, workerVars, reporterVars>>

CommitCallback(s, r) ==
  /\ cb[s][r] = "answered"
  /\ row' = [row EXCEPT ![s] =
               Flush(row[s], cbSeen[s][r], Reported(cbSeen[s][r], outcome[s][r]))]
  /\ cb' = [cb EXCEPT ![s][r] = "accepted"]
  /\ cbSeen' = [cbSeen EXCEPT ![s][r] = Absent]
  /\ UNCHANGED <<api, brokerVars, jobVars, sentVars, workerVars, reporterVars>>

(* The load or a publish raises: rollback and a 500.                       *)
HandlerFails(s, r) ==
  /\ "api" \in Faults
  /\ cb[s][r] \in {"received", "loaded", "enriched"}
  /\ cb' = [cb EXCEPT ![s][r] = "errored"]
  /\ cbSeen' = [cbSeen EXCEPT ![s][r] = Absent]
  /\ UNCHANGED <<row, api, brokerVars, jobVars, sentVars, workerVars, reporterVars>>

(* The commit fails after the 200 went out.                                *)
CommitCallbackFails(s, r) ==
  /\ "api" \in Faults
  /\ cb[s][r] = "answered"
  /\ cb' = [cb EXCEPT ![s][r] = "unsaved"]
  /\ cbSeen' = [cbSeen EXCEPT ![s][r] = Absent]
  /\ UNCHANGED <<row, api, brokerVars, jobVars, sentVars, workerVars, reporterVars>>

--------------------------------------------------------------------------------
ApiStep(s) == PublishRunScan(s) \/ CommitScan(s) \/ CreateFails(s)

BrokerStep(s) == Deliver(s) \/ Redeliver(s)

WorkerStep(s, d) ==
  \/ LoadScan(s, d)
  \/ CommitRunning(s, d)
  \/ PrepareFails(s, d)
  \/ CreateJob(s, d)
  \/ CreateJobUnanswered(s, d)
  \/ JobNameTaken(s, d)
  \/ CreateSecret(s, d)
  \/ CreateSecretFails(s, d)
  \/ SecretUnanswered(s, d)
  \/ SubmitReturns(s, d)
  \/ SubmitRaises(s, d)
  \/ BackstopLoad(s, d)
  \/ BackstopCommit(s, d)
  \/ BackstopFails(s, d)
  \/ WorkerDies(s, d)
  \/ ChildKilled(s, d)

ClusterStep(s) == JobExpires(s) \/ \E r \in Reporters : EvictPod(s, r)

ReporterStep(s, r) ==
  \/ StartReporter(s, r)
  \/ StartFailedReporter(s, r)
  \/ PodFails(s, r)
  \/ UploadSbom(s, r)
  \/ InsertRows(s, r)
  \/ IngestFails(s, r)
  \/ PostCallback(s, r)
  \/ ReadResponse(s, r)
  \/ ReporterDies(s, r)

HandlerStep(s, r) ==
  \/ HandleLoad(s, r)
  \/ AnswerFailure(s, r)
  \/ SendEnrich(s, r)
  \/ SendNotify(s, r)
  \/ CommitCallback(s, r)
  \/ HandlerFails(s, r)
  \/ CommitCallbackFails(s, r)

Next == \E s \in Scans :
  \/ ApiStep(s)
  \/ BrokerStep(s)
  \/ ClusterStep(s)
  \/ \E d \in Deliveries : WorkerStep(s, d)
  \/ \E r \in Reporters : ReporterStep(s, r) \/ HandlerStep(s, r)

Spec == Init /\ [][Next]_vars

(* Every party that is able to act acts: processes are scheduled, every    *)
(* container and HTTP call has a deadline, and the broker hands a message  *)
(* out again when the visibility timeout has passed.                       *)
Fairness == \A s \in Scans :
  /\ WF_vars(ApiStep(s))
  /\ WF_vars(BrokerStep(s))
  /\ \A d \in Deliveries : WF_vars(WorkerStep(s, d))
  /\ \A r \in Reporters : WF_vars(ReporterStep(s, r)) /\ WF_vars(HandlerStep(s, r))

FairSpec == Spec /\ Fairness

--------------------------------------------------------------------------------
(* Properties that hold.                                                   *)

(* A scan whose row says succeeded has its SBOM object and a complete set  *)
(* of ClickHouse rows, and a row that names an SBOM object names one that  *)
(* was uploaded, whatever was delivered twice, cut short or overwritten.   *)
SucceededMeansStored == \A s \in Scans :
  /\ row[s].status = "succeeded" => s \in blobs /\ s \in ingested
  /\ row[s].sbom = "set" => s \in blobs

(* A scan whose row says succeeded had both follow-up tasks published: the *)
(* handler publishes before its session commits.                           *)
SucceededMeansAnnounced == \A s \in Scans :
  row[s].status = "succeeded" => s \in enriched /\ s \in notified

(* Something is at work on the scan: a run, a reporter or a pod that may   *)
(* become one, a callback.                                                 *)
Busy(s) ==
  \/ \E d \in Deliveries : exec[s][d] \in ExecActive
  \/ \E r \in Reporters : MayStart(s, r) \/ rep[s][r] \in RepActive \/ cb[s][r] \in CbActive

(* Something is, or will be: the broker still has its message.             *)
InFlight(s) == s \in queue \cup unacked \/ Busy(s)

Unreported(s, d) == \A p \in Pods : cb[s][<<d, p>>] \notin {"accepted", "duplicate"}

(* The five ways a scan is left behind: its message was consumed before    *)
(* the row was committed; the backstop itself failed; the process that ran *)
(* it was killed and its parent acknowledged; submit returned but no       *)
(* callback was recorded; a redelivered run died after the other run had   *)
(* acknowledged the message they share.                                    *)
LeftBehind(s) == \E d \in Deliveries :
  \/ exec[s][d] \in {"not_found", "abandoned", "killed"}
  \/ exec[s][d] = "returned" /\ Unreported(s, d)
  \/ exec[s][d] = "lost" /\ delivered[s] > 1

Stranded(s) == ~ InFlight(s) /\ LeftBehind(s)

(* A committed scan that is not finished is still being worked on, or was  *)
(* stranded in one of those five ways; there is no sixth.  This is what    *)
(* the except clause of run_scan and late acknowledgement achieve together.*)
UnfinishedIsAccountedFor == \A s \in Scans :
  row[s].status \in Unfinished => InFlight(s) \/ Stranded(s)

(* A verdict is taken back (terminal, then running again) only when the    *)
(* broker handed the message out more than once.                           *)
OnlyRedeliveryRevives ==
  [][\A s \in Scans :
       row[s].status \in Terminal /\ row'[s].status \notin Terminal
         => delivered[s] > 1]_vars

(* One verdict replaces another only when its writer had read the row      *)
(* before there was a verdict: a callback or a backstop that reads the row *)
(* after that never changes it (the idempotency check and its twin in the  *)
(* except clause).                                                         *)
LateWritersAreIgnored ==
  [][\A s \in Scans :
       row[s].status \in Terminal /\ row'[s].status \in Terminal /\ row'[s] # row[s]
         => \/ \E d \in Deliveries :
                 exec[s][d] = "backstop" /\ exec'[s][d] = "recorded" /\ seen[s][d].status \in Unfinished
            \/ \E r \in Reporters :
                 cb[s][r] = "answered" /\ cb'[s][r] = "accepted" /\ cbSeen[s][r].status \in Unfinished]_vars

(* Kubernetes: however often the message is delivered and whatever submit  *)
(* leaves behind, two pods work on one scan at a time only while one of    *)
(* them is being deleted - the Job's name is the lock.                     *)
OnlyEvictedPodsOverlap == \A s \in Scans, q, r \in Reporters :
  row[s].backend = "k8s" /\ q # r /\ {rep[s][q], rep[s][r]} \subseteq RepActive
    => q \in evicted[s] \/ r \in evicted[s]

(* The bound cuts the scan off: its last delivery died with its worker and *)
(* the model has no further one.                                           *)
Exhausted(s) == s \in unacked /\ delivered[s] = MaxDeliveries /\ ~ Busy(s)

(* Every committed scan gets a verdict or is stranded, with nobody left    *)
(* who could still give it one: nobody waits for ever, given fairness.     *)
EveryScanSettles == \A s \in Scans :
  row[s].status \in Unfinished ~> (row[s].status \in Terminal \/ Stranded(s) \/ Exhausted(s))

(* The promise about status, relaxed only where deliveries or writers can  *)
(* overlap.                                                                *)
Lifecycle == INSTANCE ScanLifecycle WITH
  status    <- [s \in Scans |-> row[s].status],
  Revivable <- MaxDeliveries > 1,
  Contested <- \/ MaxDeliveries > 1
               \/ {"docker", "k8s"} \cap Backends # {} /\ "runner" \in Faults
               \/ "k8s" \in Backends /\ MaxPods > 1

ImplementsLifecycle == Lifecycle!LifecycleSpec

--------------------------------------------------------------------------------
(* What the code's comments and docs say, and the runs refute.             *)

(* "once we've recorded a terminal state, ignore re-deliveries".           *)
VerdictIsFinal ==
  [][\A s \in Scans : row[s].status \in Terminal => row'[s].status = row[s].status]_vars

(* "The row is created the moment a scan is enqueued": a worker that picks *)
(* the message up finds the row.                                           *)
PickupFindsRow == \A s \in Scans, d \in Deliveries : exec[s][d] # "not_found"

(* "so the API always gets a callback": when submit has returned, some     *)
(* request of the reporter has reached the handler.                        *)
ApiGetsCallback == \A s \in Scans, d \in Deliveries :
  exec[s][d] = "returned" => \E p \in Pods : cb[s][<<d, p>>] # "none"
================================================================================
