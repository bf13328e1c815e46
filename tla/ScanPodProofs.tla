----------------------------- MODULE ScanPodProofs -----------------------------
(***************************************************************************)
(* Kubernetes: the Job's name and its sequence of pods keep two reporters  *)
(* of one scan apart, unless one of them is being deleted, for any number  *)
(* of deliveries, pods and evictions and whatever submit leaves behind.    *)
(* And every backend: what a reader sees of a scan's status is             *)
(* ScanLifecycle.                                                          *)
(***************************************************************************)
EXTENDS ScanVerdictProofs

(* A pod that has run its reporter, or is on its way out.                  *)
Begun(s, r) == rep[s][r] # "idle" \/ r \in evicted[s]

(* A pod that leaves its place to the next one.                            *)
Gone(s, r) == rep[s][r] = "failed" \/ r \in evicted[s]

(* The lock is the Job: a Secret belongs to a Job, the delivery between    *)
(* the two calls owns it, a working pod that is not being deleted belongs  *)
(* to it, and a pod has begun only after every earlier pod of its Job has  *)
(* failed or was evicted.                                                  *)
PodInv == \A s \in Scans :
  /\ s \in secret => job[s] # 0
  /\ \A d \in Deliveries : exec[s][d] = "secret" => job[s] = d /\ s \notin secret
  /\ \A d \in Deliveries : exec[s][d] = "submitted" => job[s] = d /\ s \in secret
  /\ row[s].backend = "k8s" =>
       /\ \A r \in Reporters :
            rep[s][r] \in RepActive /\ r \notin evicted[s] => job[s] = r[1] /\ s \in secret
       /\ \A q, r \in Reporters : q[1] = r[1] /\ q[2] < r[2] /\ Begun(s, r) => Gone(s, q)

LEMMA PodInit == Init => PodInv
  BY DEF Init, PodInv, Absent

(* Which backend a scan runs on is settled before its first reporter       *)
(* starts and before its first pod is evicted.                             *)
LEMMA BackendFixed ==
  ASSUME TypeInv, VerdictInv, [Next]_vars, NEW s \in Scans
  PROVE  row'[s].backend = row[s].backend \/ (\A r \in Reporters : ~ Begun(s, r) /\ ~ Begun(s, r)')
<1>1. View
  BY StepView
<1>2. CASE api[s] = "published"
  <2>1. row[s].status = "absent" /\ row[s].backend = "none"
    BY <1>2 DEF VerdictInv, RowInv
  <2>2. ASSUME NEW r \in Reporters PROVE ~ Begun(s, r) /\ ~ Begun(s, r)'
    <3>1. rep[s][r] = "idle" /\ r \notin evicted[s]
      BY <2>1 DEF VerdictInv, RowInv
    <3>. QED BY <1>1, <2>1, <3>1 DEF View, RepView, PodView, Begun
  <2>. QED BY <2>2
<1>3. CASE api[s] # "published"
  BY <1>1, <1>3 DEF View, RowView
<1>. QED BY <1>2, <1>3

(* The way into "secret" is the creation of a Job, the way into            *)
(* "submitted" that of its Secret.                                         *)
LEMMA SubmitMovesJob ==
  ASSUME View, UNCHANGED <<job, secret>>, NEW s \in Scans, NEW d \in Deliveries,
         exec[s][d] = "secret" => s \notin secret,
         exec'[s][d] \in {"secret", "submitted"}
  PROVE  exec[s][d] = exec'[s][d]
<1>1. ExecView(s, d) /\ d # 0 /\ job'[s] = job[s]
  BY DeliveriesAssumption DEF View, Deliveries
<1>. QED BY <1>1 DEF ExecView

(* What is live on Kubernetes comes after pods that are gone.              *)
LEMMA LivePodFollows ==
  ASSUME PodInv, NEW s \in Scans, row[s].backend = "k8s", NEW r \in LivePods(s),
         NEW q \in Reporters, q[1] = r[1], q[2] < r[2]
  PROVE  Gone(s, q)
<1>1. r \in Reporters /\ (MayStart(s, r) \/ rep[s][r] # "idle")
  BY DEF LivePods, RepActive
<1>2. CASE Begun(s, r)
  BY <1>1, <1>2 DEF PodInv
<1>3. CASE ~ Begun(s, r)
  <2>1. \A p \in 1 .. (r[2] - 1) : rep[s][<<r[1], p>>] = "failed" \/ <<r[1], p>> \in evicted[s]
    BY <1>1, <1>3 DEF MayStart, Begun
  <2>2. q = <<q[1], q[2]>> /\ q[2] \in Nat /\ 1 <= q[2] /\ r[2] \in Nat
    BY <1>1, PodsAssumption DEF Reporters, Pods
  <2>3. q[2] \in 1 .. (r[2] - 1)
    BY <2>2
  <2>. QED BY <2>1, <2>2, <2>3 DEF Gone
<1>. QED BY <1>2, <1>3

LEMMA PodStep ==
  ASSUME TypeInv, VerdictInv, PodInv, [Next]_vars PROVE PodInv'
<1>. USE DEF TypeInv, TypeOK
<1>. DEFINE LockInv == \A s \in Scans :
              /\ s \in secret => job[s] # 0
              /\ \A d \in Deliveries : exec[s][d] = "secret" => job[s] = d /\ s \notin secret
              /\ \A d \in Deliveries : exec[s][d] = "submitted" => job[s] = d /\ s \in secret
            OwnedInv == \A s \in Scans : row[s].backend = "k8s" =>
              \A r \in Reporters :
                rep[s][r] \in RepActive /\ r \notin evicted[s] => job[s] = r[1] /\ s \in secret
            QueueInv == \A s \in Scans : row[s].backend = "k8s" =>
              \A q, r \in Reporters : q[1] = r[1] /\ q[2] < r[2] /\ Begun(s, r) => Gone(s, q)
<1>0. LockInv /\ OwnedInv /\ QueueInv
  BY DEF PodInv
<1>1. SUFFICES LockInv' /\ OwnedInv' /\ QueueInv'
  BY DEF PodInv
<1>. HIDE DEF LockInv, OwnedInv, QueueInv
<1>2. ASSUME UNCHANGED <<exec, job, secret>> PROVE LockInv'
  BY <1>0, <1>2 DEF LockInv
(* Before the backend is settled nothing has begun.                        *)
<1>3. ASSUME NEW s \in Scans, row'[s].backend = "k8s"
      PROVE  row[s].backend = "k8s" \/ \A r \in Reporters : rep'[s][r] = "idle" /\ r \notin evicted'[s]
  BY <1>3, BackendFixed DEF Begun
<1>4. ASSUME UNCHANGED <<rep, job, secret, evicted>> PROVE OwnedInv' /\ QueueInv'
  <2>1. OwnedInv'
    BY <1>0, <1>3, <1>4 DEF OwnedInv, RepActive
  <2>2. QueueInv'
    BY <1>0, <1>3, <1>4 DEF QueueInv, Begun, Gone
  <2>. QED BY <2>1, <2>2
(* Evicting live pods keeps the order of the pods.                         *)
<1>5. ASSUME NEW s \in Scans, rep' = rep, \A t \in Scans : row'[t].backend = row[t].backend,
             evicted[s] \subseteq evicted'[s], evicted'[s] \subseteq evicted[s] \cup LivePods(s),
             \A t \in Scans \ {s} : evicted'[t] = evicted[t]
      PROVE  QueueInv'
  <2>. SUFFICES ASSUME NEW t \in Scans, row'[t].backend = "k8s", NEW q \in Reporters, NEW r \in Reporters,
                       q[1] = r[1], q[2] < r[2], Begun(t, r)'
                PROVE  Gone(t, q)'
    BY DEF QueueInv
  <2>1. row[t].backend = "k8s" /\ evicted[t] \subseteq evicted'[t]
    BY <1>5
  <2>2. Begun(t, r) \/ (t = s /\ r \in LivePods(t))
    BY <1>5 DEF Begun
  <2>3. Gone(t, q)
    <3>1. CASE Begun(t, r)
      BY <1>0, <2>1, <3>1 DEF QueueInv
    <3>2. CASE r \in LivePods(t)
      BY <2>1, <3>2, LivePodFollows
    <3>. QED BY <2>2, <3>1, <3>2
  <2>. QED BY <1>5, <2>1, <2>3 DEF Gone
<1>6. View
  BY StepView
<1>7. ASSUME NEW s \in Scans, ApiStep(s) PROVE LockInv' /\ OwnedInv' /\ QueueInv'
  BY <1>2, <1>4, <1>7, ApiFrame
<1>8. ASSUME NEW s \in Scans, BrokerStep(s) PROVE LockInv' /\ OwnedInv' /\ QueueInv'
  <2>1. UNCHANGED <<rep, job, secret, evicted>>
    BY <1>8, BrokerFrame
  <2>2. ASSUME NEW t \in Scans, NEW d \in Deliveries, exec'[t][d] \in {"secret", "submitted"}
        PROVE  exec[t][d] = exec'[t][d]
    BY <1>0, <1>6, <2>1, <2>2, SubmitMovesJob DEF LockInv
  <2>. QED BY <1>0, <1>4, <2>1, <2>2 DEF LockInv
<1>9. ASSUME NEW s \in Scans, JobExpires(s) PROVE LockInv' /\ OwnedInv' /\ QueueInv'
  <2>1. /\ job' = [job EXCEPT ![s] = 0] /\ secret' = secret \ {s}
        /\ UNCHANGED <<row, exec, rep, evicted>> /\ JobFinished(s)
    BY <1>9 DEF JobExpires, workerVars, reporterVars
  <2>2. ASSUME NEW d \in Deliveries PROVE exec[s][d] \notin {"secret", "submitted"}
    BY <1>0, <2>1 DEF JobFinished, LockInv
  <2>3. ASSUME NEW r \in Reporters, row[s].backend = "k8s", rep[s][r] \in RepActive PROVE r \in evicted[s]
    <3>. SUFFICES ASSUME r \notin evicted[s] PROVE FALSE
      OBVIOUS
    <3>1. job[s] = r[1] /\ s \in secret
      BY <1>0, <2>3 DEF OwnedInv
    <3>2. r = <<r[1], r[2]>> /\ r[2] \in Pods
      BY DEF Reporters
    <3>. QED BY <2>1, <2>3, <3>1, <3>2 DEF JobFinished
  <2>4. LockInv'
    BY <1>0, <2>1, <2>2 DEF LockInv
  <2>5. OwnedInv'
    BY <1>0, <2>1, <2>3 DEF OwnedInv
  <2>6. QueueInv'
    BY <1>5, <2>1
  <2>. QED BY <2>4, <2>5, <2>6
<1>10. ASSUME NEW s \in Scans, NEW r \in Reporters, EvictPod(s, r)
       PROVE  LockInv' /\ OwnedInv' /\ QueueInv'
  <2>1. /\ evicted' = [evicted EXCEPT ![s] = @ \cup {r}] /\ r \in LivePods(s)
        /\ UNCHANGED <<row, exec, rep, job, secret>>
    BY <1>10 DEF EvictPod, workerVars, reporterVars
  <2>2. /\ evicted'[s] = evicted[s] \cup {r}
        /\ \A t \in Scans \ {s} : evicted'[t] = evicted[t]
    BY <2>1
  <2>3. \A t \in Scans : evicted[t] \subseteq evicted'[t]
    BY <2>2
  <2>4. OwnedInv'
    BY <1>0, <2>1, <2>3 DEF OwnedInv
  <2>5. QueueInv'
    BY <1>5, <2>1, <2>2
  <2>. QED BY <1>2, <2>1, <2>4, <2>5
<1>11. ASSUME NEW s \in Scans, ClusterStep(s) PROVE LockInv' /\ OwnedInv' /\ QueueInv'
  BY <1>9, <1>10, <1>11, ClusterFrame
<1>12. ASSUME NEW s \in Scans, NEW d \in Deliveries, WorkerStep(s, d)
       PROVE  LockInv' /\ OwnedInv' /\ QueueInv'
  <2>1. rep' = rep
    BY <1>12, WorkerFrame
  <2>2. CASE CreateJob(s, d) \/ CreateJobUnanswered(s, d)
    <3>1. /\ job[s] = 0 /\ job' = [job EXCEPT ![s] = d] /\ UNCHANGED <<row, secret, evicted>>
          /\ \E pc \in {"secret", "raised"} : exec' = [exec EXCEPT ![s][d] = pc]
      BY <2>2 DEF CreateJob, CreateJobUnanswered, Goto
    <3>2. d # 0 /\ s \notin secret /\ \A e \in Deliveries : exec[s][e] \notin {"secret", "submitted"}
      BY <1>0, <3>1, DeliveriesAssumption DEF LockInv, Deliveries
    <3>3. ASSUME NEW r \in Reporters, row[s].backend = "k8s", rep[s][r] \in RepActive PROVE r \in evicted[s]
      BY <1>0, <3>2, <3>3 DEF OwnedInv
    <3>4. LockInv'
      BY <1>0, <3>1, <3>2 DEF LockInv
    <3>5. OwnedInv'
      BY <1>0, <2>1, <3>1, <3>3 DEF OwnedInv
    <3>6. QueueInv'
      BY <1>5, <2>1, <3>1
    <3>. QED BY <3>4, <3>5, <3>6
  <2>3. CASE CreateSecret(s, d)
    <3>1. /\ exec[s][d] = "secret" /\ secret' = secret \cup {s} /\ UNCHANGED <<row, job, evicted>>
          /\ exec' = [exec EXCEPT ![s][d] = "submitted"]
      BY <2>3 DEF CreateSecret, Goto
    <3>2. job[s] = d /\ d # 0 /\ \A e \in Deliveries : exec[s][e] \in {"secret", "submitted"} => e = d
      BY <1>0, <3>1, DeliveriesAssumption DEF LockInv, Deliveries
    <3>3. LockInv'
      BY <1>0, <3>1, <3>2 DEF LockInv
    <3>4. OwnedInv'
      BY <1>0, <2>1, <3>1 DEF OwnedInv
    <3>5. QueueInv'
      BY <1>5, <2>1, <3>1
    <3>. QED BY <3>3, <3>4, <3>5
  <2>4. CASE CreateSecretFails(s, d)
    <3>1. /\ exec[s][d] = "secret" /\ UNCHANGED <<row, secret, evicted>>
          /\ exec' = [exec EXCEPT ![s][d] = "raised"]
          /\ \A t \in Scans : t # s => job'[t] = job[t]
      BY <2>4 DEF CreateSecretFails, Goto
    <3>2. s \notin secret /\ \A e \in Deliveries : exec[s][e] \in {"secret", "submitted"} => e = d
      BY <1>0, <3>1 DEF LockInv
    <3>3. LockInv'
      BY <1>0, <3>1, <3>2 DEF LockInv
    <3>4. OwnedInv'
      BY <1>0, <2>1, <3>1, <3>2 DEF OwnedInv
    <3>5. QueueInv'
      BY <1>5, <2>1, <3>1
    <3>. QED BY <3>3, <3>4, <3>5
  <2>5. CASE SecretUnanswered(s, d) /\ DeleteJob(s)
    <3>1. /\ exec' = [exec EXCEPT ![s][d] = "raised"] /\ row' = row
          /\ job' = [job EXCEPT ![s] = 0] /\ secret' = secret \ {s}
          /\ evicted' = [evicted EXCEPT ![s] = @ \cup LivePods(s)]
      BY <2>5 DEF SecretUnanswered, DeleteJob, Goto
    <3>2. /\ evicted'[s] = evicted[s] \cup LivePods(s)
          /\ \A t \in Scans \ {s} : evicted'[t] = evicted[t]
      BY <3>1
    <3>3. \A r \in Reporters : rep[s][r] \in RepActive => r \in evicted'[s]
      BY <3>2 DEF LivePods
    <3>4. \A e \in Deliveries : exec[s][e] \in {"secret", "submitted"} => e = d
      BY <1>0, <2>5 DEF SecretUnanswered, LockInv
    <3>5. LockInv'
      BY <1>0, <3>1, <3>4 DEF LockInv
    <3>6. OwnedInv'
      BY <1>0, <2>1, <3>1, <3>2, <3>3 DEF OwnedInv
    <3>7. QueueInv'
      BY <1>5, <2>1, <3>1, <3>2
    <3>. QED BY <3>5, <3>6, <3>7
  <2>6. CASE UNCHANGED <<job, secret, evicted>>
    <3>1. ASSUME NEW t \in Scans, NEW e \in Deliveries, exec'[t][e] \in {"secret", "submitted"}
          PROVE  exec[t][e] = exec'[t][e]
      BY <1>0, <1>6, <2>6, <3>1, SubmitMovesJob DEF LockInv
    <3>. QED BY <1>0, <1>4, <2>1, <2>6, <3>1 DEF LockInv
  <2>7. SecretUnanswered(s, d) => DeleteJob(s) \/ UNCHANGED <<job, secret, evicted>>
    BY DEF SecretUnanswered, jobVars
  <2>. QED BY <1>12, <2>2, <2>3, <2>4, <2>5, <2>6, <2>7, WorkerFrame
<1>13. ASSUME NEW s \in Scans, NEW r \in Reporters, ReporterStep(s, r)
       PROVE  LockInv' /\ OwnedInv' /\ QueueInv'
  <2>1. UNCHANGED <<row, exec, job, secret, evicted>>
    BY <1>13, ReporterFrame
  <2>2. PICK pc : rep' = [rep EXCEPT ![s][r] = pc]
    BY <1>13 DEF ReporterStep, StartReporter, StartFailedReporter, PodFails, UploadSbom, InsertRows,
                 IngestFails, PostCallback, ReadResponse, ReporterDies
  <2>3. /\ \A t \in Scans, q \in Reporters : rep'[t][q] = IF t = s /\ q = r THEN pc ELSE rep[t][q]
        /\ pc = rep'[s][r]
    BY <2>2
  <2>4. MayStart(s, r) \/ rep[s][r] \in RepActive
    BY <1>13 DEF ReporterStep, StartReporter, StartFailedReporter, PodFails, UploadSbom, InsertRows,
                 IngestFails, PostCallback, ReadResponse, ReporterDies, RepActive
  <2>5. ASSUME row[s].backend = "k8s" PROVE r \in evicted[s] \/ (job[s] = r[1] /\ s \in secret)
    BY <1>0, <2>4, <2>5 DEF OwnedInv, MayStart
  (* The reporter that moves is not one that has already failed.           *)
  <2>6. rep[s][r] # "failed"
    BY <2>4 DEF MayStart, RepActive
  <2>7. OwnedInv'
    <3>. SUFFICES ASSUME NEW t \in Scans, row'[t].backend = "k8s", NEW q \in Reporters,
                         rep'[t][q] \in RepActive, q \notin evicted'[t]
                  PROVE  job'[t] = q[1] /\ t \in secret'
      BY DEF OwnedInv
    <3>1. CASE t = s /\ q = r
      BY <2>1, <2>5, <3>1
    <3>2. CASE ~ (t = s /\ q = r)
      BY <1>0, <2>1, <2>3, <3>2 DEF OwnedInv
    <3>. QED BY <3>1, <3>2
  <2>8. QueueInv'
    <3>. SUFFICES ASSUME NEW t \in Scans, row'[t].backend = "k8s", NEW o \in Reporters, NEW q \in Reporters,
                         o[1] = q[1], o[2] < q[2], Begun(t, q)'
                  PROVE  Gone(t, o)'
      BY DEF QueueInv
    <3>1. Gone(t, o)
      <4>1. CASE t = s /\ q = r
        <5>1. row[s].backend = "k8s" /\ r \in LivePods(s)
          BY <2>1, <2>4, <4>1 DEF LivePods
        <5>. QED BY <4>1, <5>1, LivePodFollows
      <4>2. CASE ~ (t = s /\ q = r)
        <5>1. Begun(t, q) /\ row[t].backend = "k8s"
          BY <2>1, <2>3, <4>2 DEF Begun
        <5>. QED BY <1>0, <5>1 DEF QueueInv
      <4>. QED BY <4>1, <4>2
    <3>. QED BY <2>1, <2>3, <2>6, <3>1 DEF Gone
  <2>. QED BY <1>2, <2>1, <2>7, <2>8
<1>14. ASSUME NEW s \in Scans, NEW r \in Reporters, HandlerStep(s, r) PROVE LockInv' /\ OwnedInv' /\ QueueInv'
  BY <1>2, <1>4, <1>14, HandlerFrame
<1>15. CASE UNCHANGED vars
  BY <1>2, <1>4, <1>15 DEF vars
<1>. QED
  BY <1>7, <1>8, <1>11, <1>12, <1>13, <1>14, <1>15 DEF Next

(* On Kubernetes two pods work on one scan at the same time only while one *)
(* of them is being deleted, however often the message is delivered, pods  *)
(* are retried and submit raises after it has created a Job.               *)
THEOREM PodsExclude == Spec => []OnlyEvictedPodsOverlap
<1>1. TypeInv /\ VerdictInv /\ PodInv /\ [Next]_vars => PodInv'
  BY PodStep
<1>2. PodInv => OnlyEvictedPodsOverlap
  <2>. SUFFICES ASSUME PodInv, NEW s \in Scans, NEW q \in Reporters, NEW r \in Reporters,
                       row[s].backend = "k8s", q # r, rep[s][q] \in RepActive, rep[s][r] \in RepActive,
                       q \notin evicted[s], r \notin evicted[s]
                PROVE  FALSE
    BY DEF OnlyEvictedPodsOverlap
  <2>1. q[1] = r[1]
    BY DEF PodInv
  <2>2. q[2] # r[2] /\ q[2] \in Nat /\ r[2] \in Nat
    BY <2>1, PodsAssumption DEF Reporters, Pods
  <2>3. ~ Gone(s, q) /\ ~ Gone(s, r) /\ Begun(s, q) /\ Begun(s, r)
    BY DEF Gone, Begun, RepActive
  <2>4. CASE q[2] < r[2]
    BY <2>1, <2>3, <2>4 DEF PodInv
  <2>5. CASE r[2] < q[2]
    BY <2>1, <2>3, <2>5 DEF PodInv
  <2>. QED BY <2>2, <2>4, <2>5
<1>. QED BY <1>1, <1>2, PodInit, TypeInvariant, VerdictInvariant, PTL DEF Spec

--------------------------------------------------------------------------------
(* The status column implements ScanLifecycle.                             *)

(* A step moves the row of one scan.                                       *)
LEMMA OneRowMoves ==
  ASSUME TypeInv, [Next]_vars, NEW u \in Scans
  PROVE  \E s \in Scans : \A t \in Scans \ {s} : row'[t] = row[t]
<1>0. row \in [Scans -> Row]
  BY DEF TypeInv, TypeOK
<1>1. ASSUME NEW s \in Scans, ApiStep(s) PROVE \A t \in Scans \ {s} : row'[t] = row[t]
  <2>1. CASE CommitScan(s)
    <3>1. PICK new : row' = [row EXCEPT ![s] = new]
      BY <2>1 DEF CommitScan
    <3>. QED BY <1>0, <3>1
  <2>. QED BY <1>1, <2>1, ApiFrame
<1>2. ASSUME NEW s \in Scans, BrokerStep(s) \/ ClusterStep(s) PROVE row' = row
  BY <1>2, BrokerFrame, ClusterFrame
<1>3. ASSUME NEW s \in Scans, NEW d \in Deliveries, WorkerStep(s, d)
      PROVE  \A t \in Scans \ {s} : row'[t] = row[t]
  BY <1>3, WorkerLocal
<1>4. ASSUME NEW s \in Scans, NEW r \in Reporters, ReporterStep(s, r) \/ HandlerStep(s, r)
      PROVE  \A t \in Scans \ {s} : row'[t] = row[t]
  <2>1. CASE CommitCallback(s, r)
    <3>1. PICK new : row' = [row EXCEPT ![s] = new]
      BY <2>1 DEF CommitCallback
    <3>. QED BY <1>0, <3>1
  <2>. QED BY <1>4, <2>1, ReporterFrame, HandlerFrame
<1>5. CASE UNCHANGED vars
  BY <1>5 DEF vars
<1>. QED BY <1>1, <1>2, <1>3, <1>4, <1>5 DEF Next

(* Nobody writes cancelled.                                                *)
NotCancelled == \A s \in Scans : row[s].status # "cancelled"

LEMMA NotCancelledStep ==
  ASSUME TypeInv, VerdictInv, NotCancelled, [Next]_vars PROVE NotCancelled'
  BY StepView DEF View, RowView, NotCancelled, Outcome

(* The instances in which ScanLifecycle allows no verdict to be replaced:  *)
(* one delivery, no deadline or lost answer that leaves a reporter behind  *)
(* a submit that raised, no second pod.                                    *)
Solo ==
  /\ MaxDeliveries = 1
  /\ {"docker", "k8s"} \cap Backends # {} => "runner" \notin Faults
  /\ "k8s" \in Backends => MaxPods = 1

Only == <<1, 1>>
Quiet(s) == \A r \in Reporters : rep[s][r] = "idle"

(* Kubernetes may start a reporter.                                        *)
Armed(s) == s \in secret \/ evicted[s] # {}

(* The delivery has not got past its Secret, or never will.                *)
Unarmed == {"idle", "start", "loaded", "submit", "secret"}
GaveUp  == {"raised", "backstop", "recorded", "abandoned", "not_found"}

(* One delivery leads to one reporter and one request, and the except      *)
(* clause is reached only where no reporter was or will be started.  So a  *)
(* verdict has one author.                                                 *)
SoloInv == \A s \in Scans :
  /\ row[s].backend \in Backends \cup {"none"}
  /\ exec[s][1] \in Unarmed \cup GaveUp => ~ Armed(s)
  /\ exec[s][1] \in GaveUp \cup {"secret"} => Quiet(s)
  /\ exec[s][1] = "submit" /\ row[s].backend # "docker" => Quiet(s)
  /\ \A r \in Reporters : rep[s][r] # "idle" => r = Only
  /\ \A r \in Reporters : cb[s][r] # "none" => rep[s][r] \in {"waiting"} \cup Exited
  /\ row[s].status \in Terminal => exec[s][1] = "recorded" \/ cb[s][Only] = "accepted"

LEMMA SoloInit == Init => SoloInv
  BY DEF Init, SoloInv, Absent, Quiet, Armed, GaveUp, Terminal, Deliveries

(* What the views leave out, at the one delivery and at a reporter.        *)
SoloView(t) ==
  /\ row'[t].backend = row[t].backend \/ row'[t].backend \in Backends
  /\ Armed(t)' =>
       \/ Armed(t)
       \/ exec[t][1] = "secret" /\ exec'[t][1] = "submitted"
       \/ exec[t][1] = "submitted" /\ exec'[t][1] = "raised"
       \/ ~ Quiet(t) /\ row[t].backend = "k8s" /\ UNCHANGED <<row, exec>>
  /\ exec[t][1] = "submitted" /\ exec'[t][1] = "raised" => row[t].backend = "k8s" /\ "runner" \in Faults
  /\ exec[t][1] = "submit" /\ exec'[t][1] = "raised" => row[t].backend = "k8s" \/ "runner" \in Faults
  /\ exec[t][1] = "submit" /\ exec'[t][1] = "secret" => row[t].backend = "k8s"
  /\ \A r \in Reporters :
       /\ rep[t][r] = "idle" /\ rep'[t][r] # "idle" =>
            /\ UNCHANGED <<row, exec, secret, evicted, cb>>
            /\ \/ row[t].backend = "docker" /\ exec[t][r[1]] = "submit" /\ r[2] = 1
               \/ row[t].backend = "k8s" /\ Armed(t)
       /\ rep[t][r] \in {"waiting"} \cup Exited => rep'[t][r] \in {"waiting"} \cup Exited
       /\ cb[t][r] = "none" /\ cb'[t][r] # "none" => rep[t][r] = "post" /\ rep'[t][r] = "waiting"
       /\ cb[t][r] = "accepted" /\ rep[t][r] # "post" => cb'[t][r] = "accepted"

LEMMA SoloViewStep ==
  ASSUME TypeInv, [Next]_vars, Deliveries = {1}, NEW t \in Scans
  PROVE  SoloView(t)
<1>. USE DEF TypeInv, TypeOK
<1>0. exec \in [Scans -> [Deliveries -> ExecState]]
  OBVIOUS
<1>1. ASSUME NEW s \in Scans, ApiStep(s) PROVE SoloView(t)
  <2>1. row'[t].backend = row[t].backend \/ row'[t].backend \in Backends
    <3>1. CASE CommitScan(s)
      BY <3>1, BackendsAssumption DEF CommitScan, QueuedRow, Absent
    <3>. QED BY <1>1, <3>1, ApiFrame
  <2>. QED BY <1>1, <2>1, ApiFrame DEF SoloView, Armed
<1>2. ASSUME NEW s \in Scans, BrokerStep(s) PROVE SoloView(t)
  <2>1. exec'[t][1] \in {exec[t][1], "start"}
    <3>1. CASE Deliver(s)
      <4>1. PICK n : exec' = [exec EXCEPT ![s][n] = "start"]
        BY <3>1 DEF Deliver
      <4>2. exec'[t] = IF t = s THEN [exec[s] EXCEPT ![n] = "start"] ELSE exec[t]
        BY <4>1
      <4>3. DOMAIN exec[s] = Deliveries
        OBVIOUS
      <4>. QED BY <4>2, <4>3
    <3>. QED BY <1>2, <3>1, BrokerFrame
  <2>. QED BY <1>2, <2>1, BrokerFrame DEF SoloView, Armed
<1>3. ASSUME NEW s \in Scans, ClusterStep(s) PROVE SoloView(t)
  <2>1. UNCHANGED <<row, exec, rep, cb>>
    BY <1>3, ClusterFrame
  <2>2. CASE JobExpires(s)
    BY <2>1, <2>2 DEF JobExpires, SoloView, Armed
  (* A live pod runs its reporter, or has a Secret or an eviction to run on. *)
  <2>3. ASSUME NEW r \in Reporters, EvictPod(s, r) PROVE SoloView(t)
    <3>1. /\ row[s].backend = "k8s" /\ r \in LivePods(s) /\ UNCHANGED secret
          /\ evicted' = [evicted EXCEPT ![s] = @ \cup {r}]
      BY <2>3 DEF EvictPod
    <3>2. Armed(s) \/ ~ Quiet(s)
      BY <3>1 DEF LivePods, MayStart, Armed, Quiet, RepActive
    <3>3. Armed(t)' => Armed(t) \/ t = s
      BY <3>1 DEF Armed
    <3>. QED BY <2>1, <3>1, <3>2, <3>3 DEF SoloView
  <2>. QED BY <1>3, <2>2, <2>3, ClusterFrame
<1>4. ASSUME NEW s \in Scans, NEW d \in Deliveries, WorkerStep(s, d) PROVE SoloView(t)
  <2>1. UNCHANGED <<rep, cb>>
    BY <1>4, WorkerFrame
  <2>2. row'[t].backend = row[t].backend
    <3>1. CASE CommitRunning(s, d)
      BY <3>1, WrittenRows DEF CommitRunning
    <3>2. CASE BackstopCommit(s, d)
      BY <3>2, WrittenRows DEF BackstopCommit
    <3>. QED BY <1>4, <3>1, <3>2, WorkerFrame
  <2>3. Armed(t)' => \/ Armed(t)
                     \/ exec[t][1] = "secret" /\ exec'[t][1] = "submitted"
                     \/ exec[t][1] = "submitted" /\ exec'[t][1] = "raised"
    <3>1. CASE CreateSecret(s, d)
      <4>1. /\ secret' = secret \cup {s} /\ exec[s][d] = "secret" /\ UNCHANGED evicted
            /\ exec' = [exec EXCEPT ![s][d] = "submitted"]
        BY <3>1 DEF CreateSecret, Goto
      <4>. QED BY <1>0, <4>1 DEF Armed
    <3>2. CASE CreateJob(s, d) \/ CreateJobUnanswered(s, d) \/ CreateSecretFails(s, d)
      BY <3>2 DEF CreateJob, CreateJobUnanswered, CreateSecretFails, Armed
    <3>3. CASE SecretUnanswered(s, d)
      <4>1. exec[s][d] = "submitted" /\ exec' = [exec EXCEPT ![s][d] = "raised"]
        BY <3>3 DEF SecretUnanswered, Goto
      <4>2. secret' \subseteq secret /\ (t # s => evicted'[t] = evicted[t])
        BY <3>3 DEF SecretUnanswered, DeleteJob, jobVars
      <4>. QED BY <1>0, <4>1, <4>2 DEF Armed
    <3>. QED BY <1>4, <3>1, <3>2, <3>3, WorkerFrame DEF Armed
  <2>4. ASSUME exec'[t][1] # exec[t][1] PROVE t = s /\ d = 1
    BY <1>4, <2>4, WorkerLocal
  <2>5. /\ exec[s][d] = "submit" /\ exec'[s][d] = "raised" => row[s].backend = "k8s" \/ "runner" \in Faults
        /\ exec[s][d] = "submit" /\ exec'[s][d] = "secret" => row[s].backend = "k8s"
    <3>1. CASE CreateJob(s, d) \/ CreateJobUnanswered(s, d) \/ JobNameTaken(s, d)
      BY <3>1 DEF CreateJob, CreateJobUnanswered, JobNameTaken
    <3>2. CASE SubmitRaises(s, d)
      <4>1. "runner" \in Faults /\ exec' = [exec EXCEPT ![s][d] = "raised"]
        BY <3>2 DEF SubmitRaises, Goto
      <4>. QED BY <1>0, <4>1
    <3>3. CASE SubmitReturns(s, d) \/ WorkerDies(s, d) \/ ChildKilled(s, d)
      <4>1. PICK pc \in {"returned", "lost", "killed"} : exec' = [exec EXCEPT ![s][d] = pc]
        BY <3>3 DEF SubmitReturns, WorkerDies, ChildKilled, Goto, EndExec
      <4>. QED BY <1>0, <4>1
    <3>4. CASE exec[s][d] # "submit"
      BY <3>4
    <3>. QED
      BY <1>4, <3>1, <3>2, <3>3, <3>4 DEF WorkerStep, LoadScan, CommitRunning, PrepareFails, CreateSecret,
         CreateSecretFails, SecretUnanswered, BackstopLoad, BackstopCommit, BackstopFails
  <2>6. exec[s][d] = "submitted" /\ exec'[s][d] = "raised" => row[s].backend = "k8s" /\ "runner" \in Faults
    <3>1. CASE SecretUnanswered(s, d)
      BY <3>1 DEF SecretUnanswered
    <3>2. CASE SubmitReturns(s, d) \/ WorkerDies(s, d) \/ ChildKilled(s, d)
      <4>1. PICK pc \in {"returned", "lost", "killed"} : exec' = [exec EXCEPT ![s][d] = pc]
        BY <3>2 DEF SubmitReturns, WorkerDies, ChildKilled, Goto, EndExec
      <4>. QED BY <1>0, <4>1
    <3>3. CASE exec[s][d] # "submitted"
      BY <3>3
    <3>. QED
      BY <1>4, <3>1, <3>2, <3>3 DEF WorkerStep, LoadScan, CommitRunning, PrepareFails, CreateJob,
         CreateJobUnanswered, JobNameTaken, CreateSecret, CreateSecretFails, SubmitRaises,
         BackstopLoad, BackstopCommit, BackstopFails
  <2>7. row'[t].backend = row[t].backend
    BY <2>2
  <2>. QED BY <2>1, <2>3, <2>4, <2>5, <2>6, <2>7 DEF SoloView
<1>5. ASSUME NEW s \in Scans, NEW r \in Reporters, ReporterStep(s, r) PROVE SoloView(t)
  <2>1. UNCHANGED <<row, exec, secret, evicted>>
    BY <1>5, ReporterFrame
  <2>2. PICK pc : rep' = [rep EXCEPT ![s][r] = pc]
    BY <1>5 DEF ReporterStep, StartReporter, StartFailedReporter, PodFails, UploadSbom, InsertRows,
                IngestFails, PostCallback, ReadResponse, ReporterDies
  <2>3. \A q \in Reporters : rep'[t][q] = IF t = s /\ q = r THEN rep'[s][r] ELSE rep[t][q]
    BY <2>2
  <2>4. /\ rep[s][r] = "idle" => MayStart(s, r) /\ cb' = cb
        /\ rep[s][r] = "waiting" => rep'[s][r] \in Exited
        /\ rep[s][r] \notin Exited
    <3>1. CASE StartReporter(s, r) \/ StartFailedReporter(s, r) \/ PodFails(s, r)
      BY <3>1 DEF StartReporter, StartFailedReporter, PodFails, MayStart, Exited, handlerVars
    <3>2. CASE UploadSbom(s, r) \/ InsertRows(s, r) \/ IngestFails(s, r) \/ PostCallback(s, r)
      BY <3>2 DEF UploadSbom, InsertRows, IngestFails, PostCallback, Exited
    <3>3. CASE ReadResponse(s, r) \/ ReporterDies(s, r)
      BY <3>3 DEF ReadResponse, ReporterDies, RepActive, Exited
    <3>. QED BY <1>5, <3>1, <3>2, <3>3 DEF ReporterStep
  <2>5. ASSUME NEW q \in Reporters, cb'[t][q] # cb[t][q]
        PROVE  rep[t][q] = "post" /\ rep'[t][q] = "waiting"
    <3>1. /\ rep[s][r] = "post" /\ rep' = [rep EXCEPT ![s][r] = "waiting"]
          /\ cb' = [cb EXCEPT ![s][r] = "received"]
      BY <1>5, <2>5, ReporterFrame DEF PostCallback
    <3>. QED BY <2>5, <3>1
  <2>6. ASSUME NEW q \in Reporters, rep[t][q] = "idle", rep'[t][q] # "idle"
        PROVE  /\ UNCHANGED <<row, exec, secret, evicted, cb>>
               /\ \/ row[t].backend = "docker" /\ exec[t][q[1]] = "submit" /\ q[2] = 1
                  \/ row[t].backend = "k8s" /\ Armed(t)
    BY <2>1, <2>3, <2>4, <2>6 DEF MayStart, Armed
  <2>7. ASSUME NEW q \in Reporters, rep[t][q] \in {"waiting"} \cup Exited
        PROVE  rep'[t][q] \in {"waiting"} \cup Exited
    BY <2>3, <2>4, <2>7
  <2>. QED BY <2>1, <2>5, <2>6, <2>7 DEF SoloView, Armed
<1>6. ASSUME NEW s \in Scans, NEW r \in Reporters, HandlerStep(s, r) PROVE SoloView(t)
  <2>1. UNCHANGED <<exec, secret, evicted, rep>>
    BY <1>6, HandlerFrame
  <2>2. row'[t].backend = row[t].backend
    <3>1. CASE CommitCallback(s, r)
      BY <3>1, WrittenRows DEF CommitCallback
    <3>. QED BY <1>6, <3>1, HandlerFrame
  <2>3. ASSUME NEW q \in Reporters, cb'[t][q] # cb[t][q] PROVE cb[t][q] \in CbActive
    <3>1. PICK pc : cb' = [cb EXCEPT ![s][r] = pc]
      BY <1>6 DEF HandlerStep, HandleLoad, AnswerFailure, SendEnrich, SendNotify, CommitCallback,
                  HandlerFails, CommitCallbackFails
    <3>2. cb[s][r] \in CbActive
      BY <1>6 DEF HandlerStep, HandleLoad, AnswerFailure, SendEnrich, SendNotify, CommitCallback,
                  HandlerFails, CommitCallbackFails, CbActive
    <3>. QED BY <2>3, <3>1, <3>2
  <2>. QED BY <2>1, <2>2, <2>3 DEF SoloView, Armed, CbActive
<1>7. CASE UNCHANGED vars
  BY <1>7 DEF vars, SoloView, Armed
<1>. QED BY <1>1, <1>2, <1>3, <1>4, <1>5, <1>6, <1>7 DEF Next

LEMMA SoloStep ==
  ASSUME Solo, TypeInv, VerdictInv, SoloInv, [Next]_vars PROVE SoloInv'
<1>. SUFFICES ASSUME NEW s \in Scans
              PROVE  /\ row'[s].backend \in Backends \cup {"none"}
                     /\ exec'[s][1] \in Unarmed \cup GaveUp => ~ Armed(s)'
                     /\ exec'[s][1] \in GaveUp \cup {"secret"} => Quiet(s)'
                     /\ exec'[s][1] = "submit" /\ row'[s].backend # "docker" => Quiet(s)'
                     /\ \A r \in Reporters : rep'[s][r] # "idle" => r = Only
                     /\ \A r \in Reporters : cb'[s][r] # "none" => rep'[s][r] \in {"waiting"} \cup Exited
                     /\ row'[s].status \in Terminal => exec'[s][1] = "recorded" \/ cb'[s][Only] = "accepted"
  BY DEF SoloInv
<1>1. /\ 1 \in Deliveries /\ Deliveries = {1} /\ Only \in Reporters
      /\ \A r \in Reporters : r = <<1, r[2]>> /\ r[1] = 1
  BY PodsAssumption DEF Solo, Deliveries, Reporters, Pods, Only
<1>2. /\ RowView(s) /\ ExecView(s, 1) /\ SoloView(s)
      /\ \A r \in Reporters : RepView(s, r) /\ RequestView(s, r)
  BY <1>1, StepView, SoloViewStep DEF View
<1>3. /\ row[s].backend \in Backends \cup {"none"}
      /\ exec[s][1] \in Unarmed \cup GaveUp => ~ Armed(s)
      /\ exec[s][1] \in GaveUp \cup {"secret"} => Quiet(s)
      /\ exec[s][1] = "submit" /\ row[s].backend # "docker" => Quiet(s)
      /\ \A r \in Reporters : rep[s][r] # "idle" => r = Only
      /\ \A r \in Reporters : cb[s][r] # "none" => rep[s][r] \in {"waiting"} \cup Exited
      /\ row[s].status \in Terminal => exec[s][1] = "recorded" \/ cb[s][Only] = "accepted"
  BY DEF SoloInv
<1>4. row'[s].backend \in Backends \cup {"none"}
  BY <1>2, <1>3 DEF SoloView
(* No answer of the API server is lost.                                    *)
<1>5. ~ (exec[s][1] = "submitted" /\ exec'[s][1] = "raised")
  BY <1>2, <1>3 DEF SoloView, Solo
<1>6. exec[s][1] \in Early => Quiet(s)
  BY <1>1 DEF VerdictInv, OrderInv, Quiet, Early
<1>7. exec'[s][1] \in Unarmed \cup GaveUp => ~ Armed(s)'
  <2>. SUFFICES ASSUME exec'[s][1] \in Unarmed \cup GaveUp, Armed(s)' PROVE FALSE
    OBVIOUS
  <2>1. exec[s][1] \in Unarmed \cup GaveUp
    BY <1>2, <1>5 DEF ExecView, Unarmed, GaveUp, ExecActive
  <2>2. ~ Quiet(s) /\ row[s].backend = "k8s"
    BY <1>2, <1>3, <1>5, <2>1 DEF SoloView, Unarmed, GaveUp
  <2>. QED BY <1>3, <1>6, <2>1, <2>2 DEF Unarmed, GaveUp, Early
(* A reporter is started where the backend allows it.                      *)
<1>8. ASSUME NEW r \in Reporters, rep[s][r] = "idle", rep'[s][r] # "idle"
      PROVE  /\ UNCHANGED <<row, exec, secret, evicted, cb>>
             /\ exec[s][1] \notin GaveUp \cup {"secret"}
             /\ exec[s][1] = "submit" => row[s].backend = "docker"
             /\ r = Only
  <2>1. /\ UNCHANGED <<row, exec, secret, evicted, cb>>
        /\ \/ row[s].backend = "docker" /\ exec[s][r[1]] = "submit" /\ r[2] = 1
           \/ row[s].backend = "k8s" /\ Armed(s)
    BY <1>2, <1>8 DEF SoloView
  <2>2. CASE row[s].backend = "docker" /\ exec[s][r[1]] = "submit" /\ r[2] = 1
    BY <1>1, <2>1, <2>2 DEF GaveUp, Only
  <2>3. CASE row[s].backend = "k8s" /\ Armed(s)
    <3>1. r[2] = 1
      BY <1>3, <2>3 DEF Solo, Reporters, Pods
    <3>. QED BY <1>1, <1>3, <2>1, <2>3, <3>1 DEF Unarmed, GaveUp, Only
  <2>. QED BY <2>1, <2>2, <2>3
<1>9. ASSUME Quiet(s), ~ Quiet(s)'
      PROVE  /\ UNCHANGED <<row, exec, secret, evicted, cb>>
             /\ exec[s][1] \notin GaveUp \cup {"secret"}
             /\ exec[s][1] = "submit" => row[s].backend = "docker"
  BY <1>8, <1>9 DEF Quiet
<1>10. row'[s].backend = row[s].backend \/ (Quiet(s) /\ Quiet(s)')
  BY BackendFixed DEF Quiet, Begun
<1>11. exec'[s][1] \in GaveUp \cup {"secret"} => Quiet(s)'
  <2>1. CASE exec[s][1] \in GaveUp \cup {"secret"}
    BY <1>3, <1>9, <2>1
  <2>2. CASE exec[s][1] \in Early /\ exec'[s][1] # exec[s][1]
    BY <1>9, <1>6, <2>2
  <2>3. CASE exec[s][1] = "submit" /\ exec'[s][1] \in {"raised", "secret"}
    <3>1. row[s].backend # "docker"
      BY <1>2, <1>3, <2>3 DEF SoloView, Solo
    <3>. QED BY <1>3, <1>9, <2>3, <3>1
  <2>. QED BY <1>2, <1>5, <2>1, <2>2, <2>3 DEF ExecView, GaveUp, Early, ExecActive
<1>12. exec'[s][1] = "submit" /\ row'[s].backend # "docker" => Quiet(s)'
  <2>. SUFFICES ASSUME exec'[s][1] = "submit", row'[s].backend # "docker", ~ Quiet(s)' PROVE FALSE
    OBVIOUS
  <2>1. row[s].backend # "docker"
    BY <1>10
  <2>2. CASE exec[s][1] = "submit"
    BY <1>3, <1>9, <2>1, <2>2
  <2>3. CASE exec[s][1] = "loaded"
    BY <1>9, <1>6, <2>3 DEF Early
  <2>. QED BY <1>2, <2>2, <2>3 DEF ExecView
<1>13. ASSUME NEW r \in Reporters, rep'[s][r] # "idle" PROVE r = Only
  BY <1>3, <1>8, <1>13
<1>14. ASSUME NEW r \in Reporters, cb'[s][r] # "none" PROVE rep'[s][r] \in {"waiting"} \cup Exited
  BY <1>2, <1>3, <1>14 DEF SoloView
<1>15. row'[s].status \in Terminal => exec'[s][1] = "recorded" \/ cb'[s][Only] = "accepted"
  <2>. SUFFICES ASSUME row'[s].status \in Terminal
                PROVE  exec'[s][1] = "recorded" \/ cb'[s][Only] = "accepted"
    OBVIOUS
  <2>1. exec[s][1] = "recorded" => exec'[s][1] = "recorded"
    BY <1>2 DEF ExecView, ExecActive
  <2>2. cb[s][Only] = "accepted" => cb'[s][Only] = "accepted"
    BY <1>1, <1>2, <1>3 DEF SoloView, Exited
  <2>3. CASE row'[s] = row[s]
    BY <1>3, <2>1, <2>2, <2>3
  <2>4. CASE \E d \in Deliveries : exec[s][d] = "backstop" /\ exec'[s][d] = "recorded"
    BY <1>1, <2>4
  <2>5. ASSUME NEW r \in Reporters, cb[s][r] = "answered", cb'[s][r] = "accepted"
        PROVE  cb'[s][Only] = "accepted"
    BY <1>3, <2>5 DEF Exited
  <2>. QED BY <1>2, <2>3, <2>4, <2>5 DEF RowView, Terminal
<1>. QED BY <1>4, <1>7, <1>11, <1>12, <1>13, <1>14, <1>15

(* Then a writer of a verdict always finds the scan unfinished.            *)
LEMMA SoloWriters ==
  ASSUME Solo, TypeInv, VerdictInv, SoloInv, NEW s \in Scans
  PROVE  /\ \A d \in Deliveries : exec[s][d] = "backstop" => row[s].status \notin Terminal
         /\ \A r \in Reporters : cb[s][r] = "answered" => row[s].status \notin Terminal
<1>1. Deliveries = {1} /\ Only \in Reporters
  BY PodsAssumption DEF Solo, Deliveries, Reporters, Pods, Only
<1>2. cb[s][Only] # "none" => ~ Quiet(s)
  BY <1>1 DEF SoloInv, Quiet, Exited
<1>3. exec[s][1] \in GaveUp => Quiet(s)
  BY DEF SoloInv
<1>4. row[s].status \in Terminal => exec[s][1] = "recorded" \/ cb[s][Only] = "accepted"
  BY DEF SoloInv
<1>5. ASSUME NEW d \in Deliveries, exec[s][d] = "backstop" PROVE row[s].status \notin Terminal
  BY <1>1, <1>2, <1>3, <1>4, <1>5 DEF GaveUp
<1>6. ASSUME NEW r \in Reporters, cb[s][r] = "answered" PROVE row[s].status \notin Terminal
  <2>1. r = Only
    BY <1>6 DEF SoloInv, Exited
  <2>. QED BY <1>2, <1>3, <1>4, <1>6, <2>1 DEF GaveUp
<1>. QED BY <1>5, <1>6

(* One step, seen as a step of ScanLifecycle.                              *)
LEMMA LifecycleStep ==
  ASSUME TypeInv, VerdictInv, NotCancelled, Solo => SoloInv, [Next]_vars
  PROVE  [Lifecycle!LifecycleNext]_([s \in Scans |-> row[s].status])
<1>. DEFINE status == [s \in Scans |-> row[s].status]
<1>1. CASE Scans = {} \/ \A s \in Scans : row'[s] = row[s]
  BY <1>1
<1>2. ASSUME NEW u \in Scans, row'[u] # row[u] PROVE [Lifecycle!LifecycleNext]_status
  <2>1. PICK s \in Scans : \A t \in Scans \ {s} : row'[t] = row[t]
    BY <1>2, OneRowMoves
  <2>2. \A v : row'[s].status = v => status' = [status EXCEPT ![s] = v]
    BY <2>1
  <2>3. RowView(s)
    BY StepView DEF View
  <2>4. row[s] \in Row /\ row[s].status \in {"absent", "queued", "running", "succeeded", "failed"}
    BY DEF TypeInv, TypeOK, NotCancelled, Row, Unfinished, Terminal
  <2>5. CASE row'[s].status = row[s].status
    BY <2>2, <2>4, <2>5
  <2>6. CASE api[s] = "published" /\ row'[s].status = "queued"
    <3>1. row[s].status = "absent"
      BY <2>6 DEF VerdictInv, RowInv
    <3>2. Lifecycle!Create(s)
      BY <2>2, <2>6, <3>1 DEF Lifecycle!Create
    <3>. QED BY <3>2 DEF Lifecycle!LifecycleNext
  <2>7. CASE (\E d \in Deliveries : exec[s][d] = "loaded") /\ row'[s].status = "running"
    <3>1. PICK d \in Deliveries : exec[s][d] = "loaded"
      BY <2>7
    <3>2. row[s].status # "absent"
      BY <3>1 DEF VerdictInv, RowInv
    <3>3. CASE row[s].status = "queued"
      <4>1. Lifecycle!Start(s)
        BY <2>2, <2>7, <3>3 DEF Lifecycle!Start
      <4>. QED BY <4>1 DEF Lifecycle!LifecycleNext
    <3>4. CASE row[s].status \in {"succeeded", "failed"}
      <4>1. delivered[s] \in 0 .. MaxDeliveries /\ delivered[s] # 0 /\ delivered[s] # 1
        BY <3>1, <3>4 DEF TypeInv, TypeOK, VerdictInv, FirstRunInv, Terminal
      <4>2. MaxDeliveries > 1
        BY <4>1, DeliveriesAssumption
      <4>3. Lifecycle!Revive(s)
        BY <2>2, <2>7, <3>4, <4>2 DEF Lifecycle!Revive, Lifecycle!Verdicts
      <4>. QED BY <4>3 DEF Lifecycle!LifecycleNext
    <3>. QED BY <2>4, <2>5, <2>7, <3>2, <3>3, <3>4
  <2>8. CASE /\ row'[s].status \in {"succeeded", "failed"} /\ row'[s].status # row[s].status
             /\ \/ \E d \in Deliveries : exec[s][d] = "backstop"
                \/ \E r \in Reporters : cb[s][r] = "answered"
    <3>1. row[s].status # "absent"
      BY <2>8 DEF VerdictInv, RowInv, OrderInv
    <3>2. CASE row[s].status \in {"queued", "running"}
      <4>1. Lifecycle!Settle(s)
        BY <2>2, <2>8, <3>2 DEF Lifecycle!Settle, Lifecycle!Verdicts
      <4>. QED BY <4>1 DEF Lifecycle!LifecycleNext
    <3>3. CASE row[s].status \in {"succeeded", "failed"}
      <4>1. ~ Solo
        BY <2>8, <3>3, SoloWriters DEF Terminal
      <4>2. \/ MaxDeliveries > 1
            \/ {"docker", "k8s"} \cap Backends # {} /\ "runner" \in Faults
            \/ "k8s" \in Backends /\ MaxPods > 1
        BY <4>1, DeliveriesAssumption, PodsAssumption DEF Solo
      <4>3. Lifecycle!Contest(s)
        BY <2>2, <2>8, <3>3, <4>2 DEF Lifecycle!Contest, Lifecycle!Verdicts
      <4>. QED BY <4>3 DEF Lifecycle!LifecycleNext
    <3>. QED BY <2>4, <3>1, <3>2, <3>3
  <2>. QED BY <2>3, <2>5, <2>6, <2>7, <2>8 DEF RowView, Outcome
<1>. QED BY <1>1, <1>2

(* What a reader of a scan sees: created queued, running, settled once and *)
(* for all - unless deliveries or writers can overlap, and then nothing    *)
(* worse than a revival or a replaced verdict.                             *)
THEOREM ScanImplementsLifecycle == Spec => ImplementsLifecycle
<1>1. Init => Lifecycle!LifecycleInit /\ NotCancelled /\ SoloInv
  BY SoloInit DEF Init, Lifecycle!LifecycleInit, NotCancelled, Absent
<1>2. TypeInv /\ VerdictInv /\ NotCancelled /\ (Solo => SoloInv) /\ [Next]_vars
        => NotCancelled' /\ (Solo => SoloInv)'
  BY NotCancelledStep, SoloStep DEF Solo
<1>3. TypeInv /\ VerdictInv /\ NotCancelled /\ (Solo => SoloInv) /\ [Next]_vars
        => [Lifecycle!LifecycleNext]_([s \in Scans |-> row[s].status])
  BY LifecycleStep
<1>. QED BY <1>1, <1>2, <1>3, TypeInvariant, VerdictInvariant, PTL
     DEF Spec, ImplementsLifecycle, Lifecycle!LifecycleSpec
================================================================================
