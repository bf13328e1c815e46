--------------------------- MODULE ScanVerdictProofs ---------------------------
(***************************************************************************)
(* Who may write a verdict, who may take one back, and what is left behind *)
(* without one: proved for every set of scans and faults and any number of *)
(* deliveries and pods.                                                    *)
(*                                                                         *)
(* The proof looks at a step of Next from four places: one row, one        *)
(* delivery, one reporter and one request.  A view says what the step may  *)
(* do there; the invariants follow from the views without another look at  *)
(* the actions.                                                            *)
(***************************************************************************)
EXTENDS ScanOrchestrationProofs

(* A row exists from the commit of create_scan on, and everyone past a     *)
(* first look at it has seen it.                                           *)
RowInv == \A s \in Scans :
  /\ api[s] # "committed" => row[s].status = "absent"
  /\ row[s].status = "absent" => row[s].backend = "none"
  /\ \A d \in Deliveries : exec[s][d] \in {"loaded", "backstop"} => row[s].status # "absent"
  /\ \A r \in Reporters : rep[s][r] # "idle" \/ r \in evicted[s] => row[s].status # "absent"

(* What a writer holds when it is about to commit a verdict: a row that    *)
(* was unfinished when it was read.                                        *)
SnapshotInv == \A s \in Scans :
  /\ \A d \in Deliveries : exec[s][d] = "backstop" => seen[s][d].status \in Unfinished
  /\ \A r \in Reporters :
       cb[s][r] \in {"loaded", "enriched", "answered"} => cbSeen[s][r].status \in Unfinished

(* A reporter exists, or may still come of an evicted pod, only for a      *)
(* delivery that has gone through the running commit, and a request only   *)
(* for a reporter that was started.                                        *)
Early == {"idle", "start", "loaded"}

OrderInv == \A s \in Scans :
  /\ job[s] # 0 => exec[s][job[s]] \notin Early
  /\ \A r \in Reporters : rep[s][r] # "idle" \/ r \in evicted[s] => exec[s][r[1]] \notin Early
  /\ \A r \in Reporters : cb[s][r] # "none" => rep[s][r] # "idle"

(* Nothing settles a scan before its first delivery has committed running. *)
FirstRunInv == \A s \in Scans :
  /\ delivered[s] = 0 => row[s].status \notin Terminal
  /\ \A d \in Deliveries :
       delivered[s] = 1 /\ exec[s][d] \in {"start", "loaded"} => row[s].status \notin Terminal

(* A delivery that nobody has answered for yet.                            *)
Fresh(s, d) ==
  \/ exec[s][d] \in {"start", "loaded", "not_found", "abandoned", "killed", "lost"}
  \/ /\ exec[s][d] \in {"submit", "secret", "submitted", "raised", "backstop", "returned"}
     /\ Unreported(s, d)

(* Every scan that waits for a verdict has a message nobody took yet or a  *)
(* delivery nobody has answered for; and the only delivery of a message    *)
(* cannot be lost without a trace, because the message is still there.     *)
AccountInv == \A s \in Scans :
  /\ api[s] = "published" \/ row[s].status \in Unfinished
       => \/ s \in queue /\ delivered[s] = 0
          \/ \E d \in Deliveries : Fresh(s, d)
  /\ \A d \in Deliveries :
       exec[s][d] \in ExecActive \cup {"lost"} /\ delivered[s] = 1 => s \in queue \cup unacked

VerdictInv == RowInv /\ SnapshotInv /\ OrderInv /\ FirstRunInv /\ AccountInv

LEMMA VerdictInit == Init => VerdictInv
  BY DEF Init, VerdictInv, RowInv, SnapshotInv, OrderInv, FirstRunInv, AccountInv, Absent, Early,
         Terminal, Unfinished, ExecActive, Deliveries, Reporters

--------------------------------------------------------------------------------
(* Views of a step.                                                        *)

RowView(t) ==
  \/ row'[t] = row[t]
  \/ /\ api[t] = "published" /\ api'[t] = "committed"
     /\ row'[t].status = "queued"
     /\ UNCHANGED <<queue, delivered, exec, cb>>
  \/ /\ \E d \in Deliveries : exec[t][d] = "loaded" /\ exec'[t][d] = "submit"
     /\ row'[t].status = "running" /\ row'[t].backend = row[t].backend
  \/ /\ \E d \in Deliveries :
          exec[t][d] = "backstop" /\ exec'[t][d] = "recorded" /\ seen[t][d].status \in Unfinished
     /\ row'[t].status = "failed" /\ row'[t].backend = row[t].backend
  \/ /\ \E r \in Reporters :
          cb[t][r] = "answered" /\ cb'[t][r] = "accepted" /\ cbSeen[t][r].status \in Unfinished
     /\ row'[t].status \in Outcome /\ row'[t].backend = row[t].backend

ExecView(t, d) ==
  \/ exec'[t][d] = exec[t][d] /\ seen'[t][d] = seen[t][d]
  \/ exec[t][d] = "idle" /\ exec'[t][d] = "start" /\ t \in unacked' /\ delivered'[t] = delivered[t] + 1
  \/ exec[t][d] = "start" /\ exec'[t][d] = "loaded" /\ row[t].status # "absent"
  \/ exec[t][d] = "loaded" /\ exec'[t][d] = "submit"
  \/ exec[t][d] \in {"start", "raised"} /\ exec'[t][d] = "not_found"
  \/ exec[t][d] \in {"start", "loaded", "submit", "secret", "submitted"} /\ exec'[t][d] = "raised"
  \/ exec[t][d] = "submit" /\ exec'[t][d] = "secret" /\ job[t] = 0 /\ job'[t] = d
  \/ exec[t][d] = "secret" /\ exec'[t][d] = "submitted" /\ t \in secret'
  \/ exec[t][d] \in {"submit", "submitted"} /\ exec'[t][d] = "returned"
  \/ exec[t][d] = "raised" /\ exec'[t][d] = "backstop" /\ row[t].status \in Unfinished /\ seen'[t][d] = row[t]
  \/ exec[t][d] = "raised" /\ exec'[t][d] = "recorded" /\ row'[t].status \in Terminal
  \/ exec[t][d] = "backstop" /\ exec'[t][d] = "recorded" /\ row'[t].status = "failed"
  \/ exec[t][d] \in {"raised", "backstop"} /\ exec'[t][d] = "abandoned"
  \/ exec[t][d] \in ExecActive /\ exec'[t][d] \in {"lost", "killed"}

RepView(t, r) ==
  \/ rep'[t][r] = rep[t][r]
  \/ rep[t][r] # "idle" /\ rep'[t][r] # "idle"
  \/ /\ rep[t][r] = "idle" /\ rep'[t][r] # "idle"
     /\ row[t].backend # "none"
     /\ exec[t][r[1]] = "submit" \/ (job[t] # 0 /\ job[t] = r[1]) \/ r \in evicted[t]

PodView(t, r) ==
  r \in evicted'[t] =>
    \/ r \in evicted[t]
    \/ rep[t][r] # "idle"
    \/ /\ row[t].backend # "none"
       /\ exec[t][r[1]] = "submit" \/ (job[t] # 0 /\ job[t] = r[1])

RequestView(t, r) ==
  \/ cb'[t][r] = cb[t][r] /\ cbSeen'[t][r] = cbSeen[t][r]
  \/ rep[t][r] = "post" /\ rep'[t][r] = "waiting" /\ cb'[t][r] = "received"
  \/ cb[t][r] = "received" /\ cb'[t][r] = "loaded" /\ row[t].status \notin Terminal /\ cbSeen'[t][r] = row[t]
  \/ cb[t][r] = "received" /\ cb'[t][r] = "duplicate" /\ row'[t].status \in Terminal
  \/ /\ cb[t][r] \in {"loaded", "enriched"} /\ cb'[t][r] \in {"enriched", "answered"}
     /\ cbSeen'[t][r] = cbSeen[t][r]
  \/ cb[t][r] = "answered" /\ cb'[t][r] = "accepted" /\ row'[t].status \in Outcome
  \/ cb[t][r] # "none" /\ cb'[t][r] \in {"errored", "unsaved"}

MessageView(t) ==
  /\ \/ api'[t] = api[t]
     \/ api[t] = "new" /\ api'[t] = "published" /\ t \in queue' /\ delivered'[t] = delivered[t]
     \/ api[t] = "published" /\ api'[t] = "committed"
     \/ api[t] # "committed" /\ api'[t] = "aborted" /\ row'[t] = row[t]
  /\ \/ delivered'[t] = delivered[t] /\ (t \in queue => t \in queue')
     \/ /\ delivered'[t] = delivered[t] + 1 /\ row'[t] = row[t]
        /\ \E d \in Deliveries : exec[t][d] = "idle" /\ exec'[t][d] = "start"
  /\ t \in queue \cup unacked =>
       \/ t \in queue' \cup unacked'
       \/ \E d \in Deliveries : exec[t][d] \in ExecActive /\ exec'[t][d] \in ExecEnded
  /\ \/ job'[t] \in {0, job[t]}
     \/ job'[t] \in Deliveries /\ exec[t][job'[t]] = "submit" /\ exec'[t][job'[t]] \in {"secret", "raised"}

View == \A t \in Scans :
  /\ RowView(t) /\ MessageView(t)
  /\ \A d \in Deliveries : ExecView(t, d)
  /\ \A r \in Reporters : RepView(t, r) /\ PodView(t, r) /\ RequestView(t, r)

--------------------------------------------------------------------------------
(* The invariants follow from the views.                                   *)

LEMMA RowStep ==
  ASSUME TypeInv, VerdictInv, View PROVE RowInv'
<1>. SUFFICES ASSUME NEW s \in Scans
              PROVE  /\ api'[s] # "committed" => row'[s].status = "absent"
                     /\ row'[s].status = "absent" => row'[s].backend = "none"
                     /\ \A d \in Deliveries :
                          exec'[s][d] \in {"loaded", "backstop"} => row'[s].status # "absent"
                     /\ \A r \in Reporters :
                          rep'[s][r] # "idle" \/ r \in evicted'[s] => row'[s].status # "absent"
  BY DEF RowInv
<1>1. RowView(s) /\ MessageView(s)
  BY DEF View
<1>2. row[s].status # "absent" => row'[s].status # "absent"
  BY <1>1 DEF RowView, Outcome
<1>3. row[s].status = "absent" => row'[s] = row[s] \/ (api'[s] = "committed" /\ row'[s].status = "queued")
  <2>1. ASSUME NEW d \in Deliveries, exec[s][d] \in {"loaded", "backstop"} PROVE row[s].status # "absent"
    BY <2>1 DEF VerdictInv, RowInv
  <2>2. ASSUME NEW r \in Reporters, cb[s][r] = "answered" PROVE row[s].status # "absent"
    BY <2>2 DEF VerdictInv, RowInv, OrderInv
  <2>3. HAVE row[s].status = "absent"
  <2>4. ~ \E d \in Deliveries : exec[s][d] \in {"loaded", "backstop"}
    BY <2>1, <2>3
  <2>5. ~ \E r \in Reporters : cb[s][r] = "answered"
    BY <2>2, <2>3
  <2>. QED BY <1>1, <2>3, <2>4, <2>5 DEF RowView
<1>4. api'[s] # "committed" => row'[s].status = "absent"
  BY <1>1, <1>3 DEF MessageView, VerdictInv, RowInv
<1>5. row'[s].status = "absent" => row'[s].backend = "none"
  BY <1>2, <1>3 DEF VerdictInv, RowInv
<1>6. ASSUME NEW d \in Deliveries, exec'[s][d] \in {"loaded", "backstop"} PROVE row'[s].status # "absent"
  BY <1>2, <1>6 DEF View, ExecView, VerdictInv, RowInv, Unfinished
<1>7. ASSUME NEW r \in Reporters, rep'[s][r] # "idle" \/ r \in evicted'[s] PROVE row'[s].status # "absent"
  BY <1>2, <1>7 DEF View, RepView, PodView, VerdictInv, RowInv
<1>. QED BY <1>4, <1>5, <1>6, <1>7

LEMMA SnapshotStep ==
  ASSUME TypeInv, VerdictInv, View PROVE SnapshotInv'
<1>1. ASSUME NEW s \in Scans, NEW d \in Deliveries, exec'[s][d] = "backstop"
      PROVE  seen'[s][d].status \in Unfinished
  BY <1>1 DEF View, ExecView, VerdictInv, SnapshotInv
<1>2. ASSUME NEW s \in Scans, NEW r \in Reporters, cb'[s][r] \in {"loaded", "enriched", "answered"}
      PROVE  cbSeen'[s][r].status \in Unfinished
  <2>1. RequestView(s, r)
    BY DEF View
  <2>2. CASE cb[s][r] \in {"loaded", "enriched", "answered"} /\ cbSeen'[s][r] = cbSeen[s][r]
    BY <2>2 DEF VerdictInv, SnapshotInv
  <2>3. CASE cb[s][r] = "received" /\ row[s].status \notin Terminal /\ cbSeen'[s][r] = row[s]
    <3>1. row[s] \in Row /\ row[s].status # "absent"
      BY <2>3 DEF TypeInv, TypeOK, VerdictInv, OrderInv, RowInv
    <3>. QED BY <2>3, <3>1 DEF Row
  <2>. QED BY <1>2, <2>1, <2>2, <2>3 DEF RequestView
<1>. QED BY <1>1, <1>2 DEF SnapshotInv

LEMMA OrderStep ==
  ASSUME TypeInv, VerdictInv, View PROVE OrderInv'
<1>1. ASSUME NEW s \in Scans, NEW d \in Deliveries, exec[s][d] \notin Early PROVE exec'[s][d] \notin Early
  BY <1>1 DEF View, ExecView, Early, ExecActive
<1>2. ASSUME NEW s \in Scans, job'[s] # 0 PROVE exec'[s][job'[s]] \notin Early
  <2>1. CASE job'[s] = job[s]
    <3>1. job[s] \in Deliveries
      BY <1>2, <2>1, DeliveriesAssumption DEF TypeInv, TypeOK, Deliveries
    <3>. QED BY <1>1, <1>2, <2>1, <3>1 DEF VerdictInv, OrderInv
  <2>2. CASE exec'[s][job'[s]] \in {"secret", "raised"}
    BY <2>2 DEF Early
  <2>. QED BY <1>2, <2>1, <2>2 DEF View, MessageView
<1>3. ASSUME NEW s \in Scans, NEW r \in Reporters, rep'[s][r] # "idle" \/ r \in evicted'[s]
      PROVE  exec'[s][r[1]] \notin Early
  <2>1. r[1] \in Deliveries
    BY DEF Reporters
  <2>2. exec[s][r[1]] \notin Early
    BY <1>3 DEF View, RepView, PodView, VerdictInv, OrderInv, Early
  <2>. QED BY <1>1, <2>1, <2>2
<1>4. ASSUME NEW s \in Scans, NEW r \in Reporters, cb'[s][r] # "none" PROVE rep'[s][r] # "idle"
  <2>1. RepView(s, r) /\ RequestView(s, r)
    BY DEF View
  <2>2. rep[s][r] # "idle" \/ rep'[s][r] # "idle"
    BY <1>4, <2>1 DEF RequestView, VerdictInv, OrderInv
  <2>3. rep[s][r] # "idle" => rep'[s][r] # "idle"
    BY <2>1 DEF RepView
  <2>. QED BY <2>2, <2>3
<1>. QED BY <1>2, <1>3, <1>4 DEF OrderInv

LEMMA FirstRunStep ==
  ASSUME TypeInv, VerdictInv, View PROVE FirstRunInv'
<1>. SUFFICES ASSUME NEW s \in Scans
              PROVE  /\ delivered'[s] = 0 => row'[s].status \notin Terminal
                     /\ \A d \in Deliveries :
                          delivered'[s] = 1 /\ exec'[s][d] \in {"start", "loaded"}
                            => row'[s].status \notin Terminal
  BY DEF FirstRunInv
<1>1. delivered[s] \in Nat /\ RowView(s) /\ MessageView(s)
  BY DeliveriesAssumption DEF TypeInv, TypeOK, View
<1>2. ASSUME NEW d \in Deliveries, exec[s][d] # "idle" PROVE d \in Nat /\ 1 <= d /\ d <= delivered[s]
  BY <1>1, <1>2, DeliveriesAssumption DEF TypeInv, BrokerInv, Deliveries
(* A delivery that settles the scan has left Early behind.                 *)
<1>3. ASSUME row[s].status \notin Terminal, row'[s].status \in Terminal
      PROVE  \E d \in Deliveries : exec[s][d] \notin Early
  <2>1. CASE \E d \in Deliveries : exec[s][d] = "backstop"
    BY <2>1 DEF Early
  <2>2. CASE \E r \in Reporters : cb[s][r] = "answered"
    <3>1. PICK r \in Reporters : cb[s][r] = "answered"
      BY <2>2
    <3>2. r[1] \in Deliveries /\ exec[s][r[1]] \notin Early
      BY <3>1 DEF Reporters, VerdictInv, OrderInv
    <3>. QED BY <3>2
  <2>. QED BY <1>1, <1>3, <2>1, <2>2 DEF RowView, Terminal
<1>4. ASSUME delivered'[s] = 0 PROVE row'[s].status \notin Terminal
  <2>1. delivered[s] = 0
    BY <1>1, <1>4 DEF MessageView
  <2>2. row[s].status \notin Terminal
    BY <2>1 DEF VerdictInv, FirstRunInv
  <2>. QED BY <1>2, <1>3, <2>1, <2>2 DEF Early
<1>5. ASSUME NEW d \in Deliveries, delivered'[s] = 1, exec'[s][d] \in {"start", "loaded"}
      PROVE  row'[s].status \notin Terminal
  <2>1. CASE delivered[s] = 0
    <3>1. row'[s] = row[s]
      BY <1>1, <1>5, <2>1 DEF MessageView
    <3>. QED BY <2>1, <3>1 DEF VerdictInv, FirstRunInv
  <2>2. CASE delivered[s] = 1 /\ delivered'[s] = delivered[s]
    <3>1. exec[s][d] \in {"start", "loaded"}
      BY <1>1, <1>5, <2>2 DEF View, ExecView
    <3>2. row[s].status \notin Terminal
      BY <2>2, <3>1 DEF VerdictInv, FirstRunInv
    <3>3. ASSUME NEW e \in Deliveries, exec[s][e] \notin Early PROVE FALSE
      <4>1. e = 1 /\ d = 1
        BY <1>2, <2>2, <3>1, <3>3 DEF Early
      <4>. QED BY <3>1, <3>3, <4>1 DEF Early
    <3>. QED BY <1>3, <3>2, <3>3
  <2>. QED BY <1>1, <1>5, <2>1, <2>2 DEF MessageView
<1>. QED BY <1>4, <1>5

LEMMA AccountStep ==
  ASSUME TypeInv, VerdictInv, View PROVE AccountInv'
<1>1. ASSUME NEW s \in Scans, NEW d \in Deliveries,
             exec'[s][d] \in ExecActive \cup {"lost"}, delivered'[s] = 1
      PROVE  s \in queue' \cup unacked'
  <2>1. delivered[s] \in Nat /\ MessageView(s) /\ ExecView(s, d)
    BY DeliveriesAssumption DEF TypeInv, TypeOK, View
  <2>2. ASSUME NEW e \in Deliveries, exec[s][e] # "idle" PROVE e \in Nat /\ 1 <= e /\ e <= delivered[s]
    BY <2>1, <2>2, DeliveriesAssumption DEF TypeInv, BrokerInv, Deliveries
  <2>3. CASE exec[s][d] = "idle"
    BY <1>1, <2>1, <2>3 DEF ExecView, ExecActive
  <2>4. CASE exec[s][d] # "idle"
    <3>1. delivered[s] = 1 /\ d = 1
      BY <1>1, <2>1, <2>2, <2>4 DEF MessageView
    <3>2. exec[s][d] \in ExecActive \cup {"lost"}
      BY <1>1, <2>1, <2>4 DEF ExecView, ExecActive
    <3>3. s \in queue \cup unacked
      BY <3>1, <3>2 DEF VerdictInv, AccountInv
    <3>4. ASSUME NEW e \in Deliveries, exec[s][e] \in ExecActive, exec'[s][e] \in ExecEnded PROVE FALSE
      <4>1. exec[s][e] # "idle"
        BY <3>4 DEF ExecActive
      <4>2. e \in Nat /\ 1 <= e /\ e <= 1
        BY <2>2, <3>1, <4>1
      <4>3. e = d
        BY <3>1, <4>2
      <4>. QED BY <1>1, <3>4, <4>3 DEF ExecActive, ExecEnded
    <3>. QED BY <2>1, <3>3, <3>4 DEF MessageView
  <2>. QED BY <2>3, <2>4
<1>2. ASSUME NEW s \in Scans, api'[s] = "published" \/ row'[s].status \in Unfinished
      PROVE  (s \in queue' /\ delivered'[s] = 0) \/ \E d \in Deliveries : Fresh(s, d)'
  <2>1. delivered[s] \in Nat /\ MessageView(s) /\ RowView(s)
    BY DeliveriesAssumption DEF TypeInv, TypeOK, View
  <2>2. ASSUME NEW d \in Deliveries, Fresh(s, d), ~ Fresh(s, d)' PROVE row'[s].status \in Terminal
    <3>1. ExecView(s, d)
      BY DEF View
    <3>2. CASE exec'[s][d] = "recorded"
      BY <2>2, <3>1, <3>2 DEF ExecView, ExecActive, Fresh, Terminal
    <3>3. CASE exec'[s][d] # "recorded"
      <4>1. exec[s][d] # "recorded" /\ exec'[s][d] \notin {"idle", "start", "loaded", "not_found", "abandoned", "killed", "lost"}
        BY <2>2, <3>1 DEF Fresh, ExecView
      <4>2. ~ Unreported(s, d)'
        BY <2>2, <3>1, <3>3, <4>1 DEF Fresh, ExecView
      <4>3. PICK p \in Pods : cb'[s][<<d, p>>] \in {"accepted", "duplicate"}
        BY <4>2 DEF Unreported
      <4>4. <<d, p>> \in Reporters /\ <<d, p>>[1] = d
        BY DEF Reporters
      <4>5. RequestView(s, <<d, p>>)
        BY <4>4 DEF View
      <4>6. CASE cb[s][<<d, p>>] \in {"accepted", "duplicate"}
        <5>1. exec[s][d] \notin Early /\ ~ Unreported(s, d)
          BY <4>4, <4>6 DEF VerdictInv, OrderInv, Unreported
        <5>2. exec[s][d] \in {"not_found", "abandoned", "killed", "lost"}
          BY <2>2, <5>1 DEF Fresh, Early
        <5>. QED BY <3>1, <4>1, <5>2 DEF ExecView, ExecActive
      <4>7. CASE cb[s][<<d, p>>] \notin {"accepted", "duplicate"}
        BY <4>3, <4>5, <4>7 DEF RequestView, Outcome, Terminal
      <4>. QED BY <4>6, <4>7
    <3>. QED BY <3>2, <3>3
  <2>3. CASE (api[s] = "published" \/ row[s].status \in Unfinished) /\ row'[s].status \notin Terminal
    <3>1. CASE \E d \in Deliveries : Fresh(s, d)
      BY <2>2, <2>3, <3>1
    <3>2. CASE s \in queue /\ delivered[s] = 0
      <4>1. CASE s \in queue' /\ delivered'[s] = delivered[s]
        BY <3>2, <4>1
      <4>2. CASE \E d \in Deliveries : exec'[s][d] = "start"
        BY <4>2 DEF Fresh
      <4>. QED BY <2>1, <3>2, <4>1, <4>2 DEF MessageView
    <3>. QED BY <2>3, <3>1, <3>2 DEF VerdictInv, AccountInv
  <2>4. CASE api[s] = "new" /\ api'[s] = "published"
    <3>1. s \in queue' /\ delivered'[s] = delivered[s]
      BY <2>1, <2>4 DEF MessageView
    <3>. QED BY <2>4, <3>1 DEF TypeInv, BrokerInv
  <2>5. CASE row[s].status \notin Unfinished /\ row'[s].status \in Unfinished
    <3>1. CASE api[s] = "published"
      BY <2>3, <2>5, <3>1 DEF Terminal, Unfinished
    <3>2. CASE \E d \in Deliveries : exec[s][d] = "loaded" /\ exec'[s][d] = "submit"
      <4>1. PICK d \in Deliveries : exec[s][d] = "loaded" /\ exec'[s][d] = "submit"
        BY <3>2
      <4>2. ASSUME NEW p \in Pods PROVE cb'[s][<<d, p>>] \notin {"accepted", "duplicate"}
        <5>1. <<d, p>> \in Reporters /\ <<d, p>>[1] = d
          BY DEF Reporters
        <5>2. cb[s][<<d, p>>] = "none"
          BY <4>1, <5>1 DEF VerdictInv, OrderInv, Early
        <5>. QED BY <5>1, <5>2 DEF View, RequestView
      <4>. QED BY <4>1, <4>2 DEF Fresh, Unreported
    <3>. QED BY <2>1, <2>5, <3>1, <3>2 DEF RowView, Outcome, Unfinished
  <2>6. api'[s] = "published" => row'[s].status \notin Terminal
    BY RowStep DEF RowInv, Terminal
  <2>7. row'[s].status \in Unfinished => row'[s].status \notin Terminal
    BY DEF Unfinished, Terminal
  <2>8. api'[s] = "published" => api[s] \in {"new", "published"}
    BY <2>1 DEF MessageView
  <2>. QED BY <1>2, <2>3, <2>4, <2>5, <2>6, <2>7, <2>8
<1>. QED BY <1>1, <1>2 DEF AccountInv

--------------------------------------------------------------------------------
(* Every step of Next is described by the views.                           *)

LEMMA ViewApi ==
  ASSUME TypeInv, VerdictInv, NEW s \in Scans, ApiStep(s) PROVE View
<1>. USE DEF TypeInv, TypeOK
<1>1. SUFFICES ASSUME NEW t \in Scans PROVE RowView(t) /\ MessageView(t)
  BY ApiFrame DEF View, ExecView, RepView, PodView, RequestView
<1>2. /\ api' = [api EXCEPT ![s] = api'[s]]
      /\ \/ api[s] = "new" /\ api'[s] = "published" /\ s \in queue'
         \/ api[s] = "published" /\ api'[s] = "committed"
         \/ api[s] # "committed" /\ api'[s] = "aborted" /\ row' = row
      /\ queue \subseteq queue'
  BY DEF ApiStep, PublishRunScan, CommitScan, CreateFails, brokerVars
<1>3. MessageView(t)
  BY <1>2, ApiFrame DEF MessageView
<1>4. CASE row' = row
  BY <1>3, <1>4 DEF RowView
<1>5. CASE CommitScan(s)
  <2>1. PICK b \in Backends : row' = [row EXCEPT ![s] = QueuedRow(b)]
    BY <1>5 DEF CommitScan
  <2>2. /\ api[s] = "published" /\ api' = [api EXCEPT ![s] = "committed"]
        /\ UNCHANGED <<queue, delivered, exec, cb>>
    BY <1>5 DEF CommitScan, brokerVars, workerVars, handlerVars
  <2>3. QueuedRow(b).status = "queued"
    BY DEF QueuedRow, Absent
  <2>4. row'[t] = IF t = s THEN QueuedRow(b) ELSE row[t]
    BY <2>1
  <2>5. api'[s] = "committed"
    BY <2>2
  <2>6. RowView(t)
    BY <2>2, <2>3, <2>4, <2>5 DEF RowView
  <2>. QED BY <1>3, <2>6
<1>. QED BY <1>3, <1>4, <1>5, ApiFrame

LEMMA ViewBroker ==
  ASSUME TypeInv, NEW s \in Scans, BrokerStep(s) PROVE View
<1>. USE DEF TypeInv, TypeOK
<1>1. SUFFICES ASSUME NEW t \in Scans
               PROVE  MessageView(t) /\ \A d \in Deliveries : ExecView(t, d)
  BY BrokerFrame DEF View, RowView, RepView, PodView, RequestView
<1>2. CASE Deliver(s)
  <2>1. delivered[s] \in Nat /\ delivered[s] + 1 \in Deliveries
    BY <1>2, DeliveriesAssumption DEF Deliver, BrokerInv, Deliveries
  <2>2. exec[s][delivered[s] + 1] = "idle"
    BY <2>1 DEF BrokerInv
  <2>3. \A d \in Deliveries :
          exec'[t][d] = IF t = s /\ d = delivered[s] + 1 THEN "start" ELSE exec[t][d]
    BY <1>2 DEF Deliver
  <2>4. /\ queue' = queue \ {s} /\ unacked' = unacked \cup {s}
        /\ delivered'[t] = IF t = s THEN delivered[s] + 1 ELSE delivered[t]
    BY <1>2 DEF Deliver
  <2>. QED BY <2>1, <2>2, <2>3, <2>4, BrokerFrame DEF MessageView, ExecView
<1>3. CASE Redeliver(s)
  <2>1. queue' = queue \cup {s} /\ unacked' = unacked \ {s} /\ UNCHANGED <<delivered, exec, seen>>
    BY <1>3 DEF Redeliver, workerVars
  <2>. QED BY <2>1, BrokerFrame DEF MessageView, ExecView
<1>. QED BY <1>2, <1>3 DEF BrokerStep

(* Only a live pod is evicted: one that was started, or that its Job may   *)
(* still start.                                                            *)
LEMMA LivePodView ==
  ASSUME NEW t \in Scans, NEW r \in LivePods(t)
  PROVE  /\ r \in Reporters
         /\ \/ r \in evicted[t]
            \/ rep[t][r] # "idle"
            \/ /\ row[t].backend # "none"
               /\ exec[t][r[1]] = "submit" \/ (job[t] # 0 /\ job[t] = r[1])
<1>1. r \in Reporters /\ (MayStart(t, r) \/ rep[t][r] \in RepActive)
  BY DEF LivePods
<1>2. r[1] # 0
  BY <1>1, DeliveriesAssumption DEF Reporters, Deliveries
<1>. QED BY <1>1, <1>2 DEF MayStart, RepActive

LEMMA ViewCluster ==
  ASSUME TypeInv, NEW s \in Scans, ClusterStep(s) PROVE View
<1>. USE DEF TypeInv, TypeOK
<1>1. ASSUME NEW t \in Scans, NEW r \in Reporters PROVE PodView(t, r)
  <2>1. CASE JobExpires(s)
    BY <2>1 DEF JobExpires, PodView
  <2>2. ASSUME NEW q \in Reporters, EvictPod(s, q) PROVE PodView(t, r)
    <3>1. q \in LivePods(s) /\ evicted' = [evicted EXCEPT ![s] = @ \cup {q}]
      BY <2>2 DEF EvictPod
    <3>. QED BY <3>1, LivePodView DEF PodView
  <2>. QED BY <2>1, <2>2, ClusterFrame
<1>2. ASSUME NEW t \in Scans PROVE MessageView(t)
  BY <1>2, ClusterFrame DEF MessageView, JobExpires, EvictPod
<1>. QED BY <1>1, <1>2, ClusterFrame DEF View, RowView, ExecView, RepView, RequestView

(* A worker step touches one delivery of one scan.                         *)
LEMMA WorkerLocal ==
  ASSUME TypeInv, NEW s \in Scans, NEW d \in Deliveries, WorkerStep(s, d)
  PROVE  /\ \A t \in Scans, e \in Deliveries :
              ~ (t = s /\ e = d) => exec'[t][e] = exec[t][e] /\ seen'[t][e] = seen[t][e]
         /\ \A t \in Scans : t # s => row'[t] = row[t] /\ job'[t] = job[t] /\ evicted'[t] = evicted[t]
         /\ unacked \ {s} \subseteq unacked'
<1>. USE DEF TypeInv, TypeOK, Goto, EndExec, Ack, CloseSession, brokerVars, jobVars
<1>1. CASE LoadScan(s, d) \/ BackstopLoad(s, d)
  BY <1>1 DEF LoadScan, BackstopLoad
<1>2. CASE CommitRunning(s, d) \/ PrepareFails(s, d)
  BY <1>2 DEF CommitRunning, PrepareFails
<1>3. CASE CreateJob(s, d) \/ CreateJobUnanswered(s, d) \/ JobNameTaken(s, d)
  BY <1>3 DEF CreateJob, CreateJobUnanswered, JobNameTaken
<1>4. CASE CreateSecret(s, d) \/ CreateSecretFails(s, d) \/ SecretUnanswered(s, d)
  BY <1>4 DEF CreateSecret, CreateSecretFails, SecretUnanswered, DeleteJob
<1>5. CASE SubmitReturns(s, d) \/ SubmitRaises(s, d)
  BY <1>5 DEF SubmitReturns, SubmitRaises
<1>6. CASE BackstopCommit(s, d) \/ BackstopFails(s, d) \/ WorkerDies(s, d) \/ ChildKilled(s, d)
  BY <1>6 DEF BackstopCommit, BackstopFails, WorkerDies, ChildKilled
<1>. QED
  BY <1>1, <1>2, <1>3, <1>4, <1>5, <1>6 DEF WorkerStep

(* What the step does to that delivery and its scan.                       *)
LEMMA WorkerHere ==
  ASSUME TypeInv, VerdictInv, NEW s \in Scans, NEW d \in Deliveries, WorkerStep(s, d)
  PROVE  /\ RowView(s) /\ ExecView(s, d)
         /\ s \in unacked => s \in unacked' \/ (exec[s][d] \in ExecActive /\ exec'[s][d] \in ExecEnded)
         /\ job'[s] \in {0, job[s]} \/ (job'[s] = d /\ exec[s][d] = "submit" /\ exec'[s][d] \in {"secret", "raised"})
<1>. USE DEF TypeInv, TypeOK, Goto, EndExec, Ack, CloseSession, brokerVars, jobVars
<1>. DEFINE Here == /\ RowView(s) /\ ExecView(s, d)
                    /\ s \in unacked => s \in unacked' \/ (exec[s][d] \in ExecActive /\ exec'[s][d] \in ExecEnded)
                    /\ job'[s] \in {0, job[s]} \/ (job'[s] = d /\ exec[s][d] = "submit" /\ exec'[s][d] \in {"secret", "raised"})
<1>1. CASE LoadScan(s, d)
  BY <1>1 DEF LoadScan, RowView, ExecView, ExecActive, ExecEnded
<1>2. CASE CommitRunning(s, d)
  <2>1. row[s] \in Row /\ seen[s][d] \in Row
    OBVIOUS
  <2>2. /\ exec[s][d] = "loaded" /\ exec'[s][d] = "submit" /\ UNCHANGED <<unacked, job>>
        /\ row'[s] = Flush(row[s], seen[s][d], Started(seen[s][d]))
    BY <1>2 DEF CommitRunning
  <2>3. row'[s] = row[s] \/ (row'[s].status = "running" /\ row'[s].backend = row[s].backend)
    BY <2>1, <2>2, WrittenRows
  <2>. QED BY <2>2, <2>3 DEF RowView, ExecView
<1>3. CASE PrepareFails(s, d)
  BY <1>3 DEF PrepareFails, RowView, ExecView
<1>4. CASE CreateJob(s, d)
  BY <1>4 DEF CreateJob, RowView, ExecView
<1>5. CASE JobNameTaken(s, d)
  BY <1>5 DEF JobNameTaken, RowView, ExecView
<1>6. CASE CreateSecret(s, d)
  BY <1>6 DEF CreateSecret, RowView, ExecView
<1>7. CASE CreateSecretFails(s, d)
  BY <1>7 DEF CreateSecretFails, RowView, ExecView
<1>8. CASE SubmitReturns(s, d)
  BY <1>8 DEF SubmitReturns, RowView, ExecView, ExecActive, ExecEnded
<1>9. CASE SubmitRaises(s, d)
  BY <1>9 DEF SubmitRaises, RowView, ExecView
<1>10. CASE BackstopLoad(s, d)
  BY <1>10 DEF BackstopLoad, RowView, ExecView, ExecActive, ExecEnded
<1>11. CASE BackstopCommit(s, d)
  <2>1. row[s] \in Row /\ seen[s][d] \in Row
    OBVIOUS
  <2>2. /\ exec[s][d] = "backstop" /\ exec'[s][d] = "recorded" /\ UNCHANGED job
        /\ row'[s] = Flush(row[s], seen[s][d], RunnerFailed(seen[s][d]))
    BY <1>11 DEF BackstopCommit
  <2>3. seen[s][d].status \in Unfinished
    BY <2>2 DEF VerdictInv, SnapshotInv
  <2>4. row'[s].status = "failed" /\ row'[s].backend = row[s].backend
    BY <2>1, <2>2, <2>3, WrittenRows DEF Unfinished
  <2>. QED BY <2>2, <2>3, <2>4 DEF RowView, ExecView, ExecActive, ExecEnded
<1>12. CASE BackstopFails(s, d)
  BY <1>12 DEF BackstopFails, RowView, ExecView, ExecActive, ExecEnded
<1>13. CASE WorkerDies(s, d)
  BY <1>13 DEF WorkerDies, RowView, ExecView
<1>14. CASE ChildKilled(s, d)
  BY <1>14 DEF ChildKilled, RowView, ExecView, ExecActive, ExecEnded
<1>15. CASE CreateJobUnanswered(s, d)
  BY <1>15 DEF CreateJobUnanswered, RowView, ExecView
<1>16. CASE SecretUnanswered(s, d)
  BY <1>16 DEF SecretUnanswered, DeleteJob, RowView, ExecView
<1>. QED
  BY <1>1, <1>2, <1>3, <1>4, <1>5, <1>6, <1>7, <1>8, <1>9, <1>10, <1>11, <1>12, <1>13, <1>14,
     <1>15, <1>16 DEF WorkerStep

(* The one worker step that evicts pods deletes the Job they live in.      *)
LEMMA WorkerEvicts ==
  ASSUME TypeInv, NEW s \in Scans, NEW d \in Deliveries, WorkerStep(s, d)
  PROVE  evicted'[s] \subseteq evicted[s] \cup LivePods(s)
<1>. USE DEF TypeInv, TypeOK
<1>1. CASE CreateJob(s, d) \/ CreateJobUnanswered(s, d) \/ CreateSecret(s, d) \/ CreateSecretFails(s, d)
  BY <1>1 DEF CreateJob, CreateJobUnanswered, CreateSecret, CreateSecretFails
<1>2. CASE SecretUnanswered(s, d)
  BY <1>2 DEF SecretUnanswered, DeleteJob, jobVars
<1>. QED BY <1>1, <1>2, WorkerFrame

LEMMA ViewWorker ==
  ASSUME TypeInv, VerdictInv, NEW s \in Scans, NEW d \in Deliveries, WorkerStep(s, d) PROVE View
<1>1. ASSUME NEW t \in Scans, NEW r \in Reporters PROVE RepView(t, r) /\ RequestView(t, r)
  BY WorkerFrame DEF RepView, RequestView
<1>2. ASSUME NEW t \in Scans, NEW e \in Deliveries PROVE ExecView(t, e)
  BY WorkerLocal, WorkerHere DEF ExecView
<1>3. ASSUME NEW t \in Scans PROVE RowView(t)
  BY WorkerLocal, WorkerHere DEF RowView
<1>4. ASSUME NEW t \in Scans PROVE MessageView(t)
  <2>1. UNCHANGED <<api, queue, delivered>>
    BY WorkerFrame
  <2>2. CASE t = s
    BY <2>1, <2>2, WorkerHere DEF MessageView
  <2>3. CASE t # s
    BY <2>1, <2>3, WorkerLocal DEF MessageView
  <2>. QED BY <2>2, <2>3
<1>5. ASSUME NEW t \in Scans, NEW r \in Reporters PROVE PodView(t, r)
  <2>1. CASE t = s
    BY <2>1, WorkerEvicts, LivePodView DEF PodView
  <2>2. CASE t # s
    BY <2>2, WorkerLocal DEF PodView
  <2>. QED BY <2>1, <2>2
<1>. QED BY <1>1, <1>2, <1>3, <1>4, <1>5 DEF View

LEMMA ViewReporter ==
  ASSUME TypeInv, NEW s \in Scans, NEW r \in Reporters, ReporterStep(s, r) PROVE View
<1>. USE DEF TypeInv, TypeOK
<1>1. ASSUME NEW t \in Scans PROVE RowView(t) /\ MessageView(t) /\ \A d \in Deliveries : ExecView(t, d)
  BY ReporterFrame DEF RowView, MessageView, ExecView
<1>2. ASSUME NEW t \in Scans, NEW q \in Reporters PROVE RepView(t, q)
  <2>1. PICK pc : rep' = [rep EXCEPT ![s][r] = pc]
    BY DEF ReporterStep, StartReporter, StartFailedReporter, PodFails, UploadSbom, InsertRows,
           IngestFails, PostCallback, ReadResponse, ReporterDies
  <2>2. rep'[t][q] = IF t = s /\ q = r THEN pc ELSE rep[t][q]
    BY <2>1
  <2>3. CASE MayStart(s, r)
    <3>1. rep[s][r] = "idle" /\ r[1] # 0
      BY <2>3, DeliveriesAssumption DEF MayStart, Reporters, Deliveries
    <3>2. row[s].backend # "none" /\ (exec[s][r[1]] = "submit" \/ job[s] = r[1] \/ r \in evicted[s])
      BY <2>3 DEF MayStart
    <3>. QED BY <2>2, <3>1, <3>2 DEF RepView
  <2>4. CASE rep[s][r] # "idle" /\ rep'[s][r] # "idle"
    BY <2>2, <2>4 DEF RepView
  <2>5. MayStart(s, r) \/ (rep[s][r] # "idle" /\ rep'[s][r] # "idle")
    BY DEF ReporterStep, StartReporter, StartFailedReporter, PodFails, UploadSbom, InsertRows,
           IngestFails, PostCallback, ReadResponse, ReporterDies, RepActive
  <2>. QED BY <2>3, <2>4, <2>5
<1>3. ASSUME NEW t \in Scans, NEW q \in Reporters PROVE RequestView(t, q)
  <2>1. CASE cb' = cb
    BY <2>1, ReporterFrame DEF RequestView
  <2>2. CASE PostCallback(s, r)
    <3>1. /\ rep[s][r] = "post" /\ rep' = [rep EXCEPT ![s][r] = "waiting"]
          /\ cb' = [cb EXCEPT ![s][r] = "received"] /\ UNCHANGED cbSeen
      BY <2>2 DEF PostCallback
    <3>. QED BY <3>1 DEF RequestView
  <2>. QED BY <2>1, <2>2, ReporterFrame
<1>4. ASSUME NEW t \in Scans, NEW q \in Reporters PROVE PodView(t, q)
  BY ReporterFrame DEF PodView
<1>. QED BY <1>1, <1>2, <1>3, <1>4 DEF View

LEMMA ViewHandler ==
  ASSUME TypeInv, VerdictInv, NEW s \in Scans, NEW r \in Reporters, HandlerStep(s, r) PROVE View
<1>. USE DEF TypeInv, TypeOK
<1>1. ASSUME NEW t \in Scans
      PROVE  /\ MessageView(t)
             /\ \A d \in Deliveries : ExecView(t, d)
             /\ \A q \in Reporters : RepView(t, q) /\ PodView(t, q)
  BY HandlerFrame DEF MessageView, ExecView, RepView, PodView
<1>2. CASE HandleLoad(s, r)
  <2>1. UNCHANGED row /\ cb[s][r] = "received"
    BY <1>2 DEF HandleLoad
  <2>2. \A t \in Scans, q \in Reporters :
          ~ (t = s /\ q = r) => cb'[t][q] = cb[t][q] /\ cbSeen'[t][q] = cbSeen[t][q]
    BY <1>2 DEF HandleLoad
  <2>3. RequestView(s, r)
    BY <1>2, <2>1 DEF HandleLoad, RequestView
  <2>4. \A t \in Scans, q \in Reporters : RequestView(t, q)
    BY <2>2, <2>3 DEF RequestView
  <2>. QED BY <1>1, <2>1, <2>4 DEF View, RowView
<1>3. CASE CommitCallback(s, r)
  <2>1. /\ cb[s][r] = "answered" /\ cb' = [cb EXCEPT ![s][r] = "accepted"]
        /\ cbSeen' = [cbSeen EXCEPT ![s][r] = Absent]
        /\ row' = [row EXCEPT ![s] = Flush(row[s], cbSeen[s][r], Reported(cbSeen[s][r], outcome[s][r]))]
    BY <1>3 DEF CommitCallback
  <2>2. row[s] \in Row /\ cbSeen[s][r] \in Row /\ outcome[s][r] \in Outcome
    OBVIOUS
  <2>3. cbSeen[s][r].status \in Unfinished
    BY <2>1 DEF VerdictInv, SnapshotInv
  <2>4. row'[s] = Flush(row[s], cbSeen[s][r], Reported(cbSeen[s][r], outcome[s][r]))
    BY <2>1
  <2>5. row'[s].status \in Outcome /\ row'[s].backend = row[s].backend
    BY <2>2, <2>3, <2>4, WrittenRows DEF Unfinished, Outcome
  <2>6. \A t \in Scans : RowView(t)
    BY <2>1, <2>3, <2>5 DEF RowView
  <2>7. \A t \in Scans, q \in Reporters : RequestView(t, q)
    BY <2>1, <2>5 DEF RequestView
  <2>. QED BY <1>1, <2>6, <2>7 DEF View
<1>4. CASE AnswerFailure(s, r) \/ SendEnrich(s, r) \/ SendNotify(s, r)
  <2>1. PICK pc \in {"enriched", "answered"} : cb' = [cb EXCEPT ![s][r] = pc]
    BY <1>4 DEF AnswerFailure, SendEnrich, SendNotify
  <2>2. UNCHANGED <<row, cbSeen>> /\ cb[s][r] \in {"loaded", "enriched"}
    BY <1>4 DEF AnswerFailure, SendEnrich, SendNotify
  <2>. QED BY <1>1, <2>1, <2>2 DEF View, RowView, RequestView
<1>5. CASE HandlerFails(s, r) \/ CommitCallbackFails(s, r)
  <2>1. PICK pc \in {"errored", "unsaved"} : cb' = [cb EXCEPT ![s][r] = pc]
    BY <1>5 DEF HandlerFails, CommitCallbackFails
  <2>2. UNCHANGED row /\ cb[s][r] # "none" /\ cbSeen' = [cbSeen EXCEPT ![s][r] = Absent]
    BY <1>5 DEF HandlerFails, CommitCallbackFails
  <2>. QED BY <1>1, <2>1, <2>2 DEF View, RowView, RequestView
<1>. QED BY <1>2, <1>3, <1>4, <1>5 DEF HandlerStep

LEMMA StepView ==
  ASSUME TypeInv, VerdictInv, [Next]_vars PROVE View
<1>1. CASE UNCHANGED vars
  BY <1>1 DEF vars, View, RowView, MessageView, ExecView, RepView, PodView, RequestView
<1>. QED
  BY <1>1, ViewApi, ViewBroker, ViewCluster, ViewWorker, ViewReporter, ViewHandler DEF Next

LEMMA VerdictStep ==
  ASSUME TypeInv, VerdictInv, [Next]_vars PROVE VerdictInv'
  BY StepView, RowStep, SnapshotStep, OrderStep, FirstRunStep, AccountStep DEF VerdictInv

LEMMA VerdictInvariant == Spec => []VerdictInv
<1>1. TypeInv /\ VerdictInv /\ [Next]_vars => VerdictInv'
  BY VerdictStep
<1>. QED BY <1>1, VerdictInit, TypeInvariant, PTL DEF Spec

--------------------------------------------------------------------------------
(* The properties.                                                         *)

(* Whatever is lost, repeated or interrupted: a committed scan without a   *)
(* verdict on which nobody works any more, and for which the broker holds  *)
(* no message, was left behind in one of the five ways of Stranded.        *)
THEOREM UnfinishedAccounted == Spec => []UnfinishedIsAccountedFor
<1>1. TypeInv /\ VerdictInv => UnfinishedIsAccountedFor
  <2>. SUFFICES ASSUME TypeInv, VerdictInv, NEW s \in Scans, row[s].status \in Unfinished, ~ InFlight(s)
                PROVE  LeftBehind(s)
    BY DEF UnfinishedIsAccountedFor, Stranded
  <2>1. s \notin queue \cup unacked /\ \A d \in Deliveries : exec[s][d] \notin ExecActive
    BY DEF InFlight, Busy
  <2>2. PICK d \in Deliveries : Fresh(s, d)
    BY <2>1 DEF VerdictInv, AccountInv
  <2>3. CASE exec[s][d] \in {"not_found", "abandoned", "killed"} \/ (exec[s][d] = "returned" /\ Unreported(s, d))
    BY <2>3 DEF LeftBehind
  <2>4. CASE exec[s][d] = "lost"
    <3>1. delivered[s] \in Nat /\ d \in Nat /\ 1 <= d
      BY DeliveriesAssumption DEF TypeInv, TypeOK, Deliveries
    <3>2. ~ (d > delivered[s])
      BY <2>4 DEF TypeInv, BrokerInv
    <3>3. delivered[s] # 1
      BY <2>1, <2>4 DEF VerdictInv, AccountInv
    <3>4. delivered[s] > 1
      BY <3>1, <3>2, <3>3
    <3>. QED BY <2>4, <3>4 DEF LeftBehind
  <2>. QED BY <2>1, <2>2, <2>3, <2>4 DEF Fresh, ExecActive
<1>. QED BY <1>1, TypeInvariant, VerdictInvariant, PTL

(* A finished scan goes back to running only if its message was handed out *)
(* more than once: run_scan alone never repeats a scan.                    *)
THEOREM RevivalNeedsRedelivery == Spec => OnlyRedeliveryRevives
<1>1. ASSUME TypeInv, VerdictInv, [Next]_vars, NEW s \in Scans,
             row[s].status \in Terminal, row'[s].status \notin Terminal
      PROVE  delivered[s] > 1
  <2>1. RowView(s) /\ delivered[s] \in Nat
    BY <1>1, StepView, DeliveriesAssumption DEF View, TypeInv, TypeOK
  <2>2. api[s] # "published"
    BY <1>1 DEF VerdictInv, RowInv, Terminal
  <2>3. PICK d \in Deliveries : exec[s][d] = "loaded"
    BY <1>1, <2>1, <2>2 DEF RowView, Outcome, Terminal
  <2>. QED BY <1>1, <2>1, <2>3 DEF VerdictInv, FirstRunInv
<1>2. TypeInv /\ VerdictInv /\ [Next]_vars =>
        [\A s \in Scans : row[s].status \in Terminal /\ row'[s].status \notin Terminal
           => delivered[s] > 1]_vars
  BY <1>1
<1>. QED BY <1>2, TypeInvariant, VerdictInvariant, PTL DEF Spec, OnlyRedeliveryRevives

(* A verdict is replaced only by a writer that had read the row before     *)
(* there was one.                                                          *)
THEOREM LateWritersIgnored == Spec => LateWritersAreIgnored
<1>. DEFINE Overlap(s) ==
       \/ \E d \in Deliveries :
            exec[s][d] = "backstop" /\ exec'[s][d] = "recorded" /\ seen[s][d].status \in Unfinished
       \/ \E r \in Reporters :
            cb[s][r] = "answered" /\ cb'[s][r] = "accepted" /\ cbSeen[s][r].status \in Unfinished
<1>1. ASSUME TypeInv, VerdictInv, [Next]_vars, NEW s \in Scans,
             row[s].status \in Terminal, row'[s].status \in Terminal, row'[s] # row[s]
      PROVE  Overlap(s)
  <2>1. RowView(s)
    BY <1>1, StepView DEF View
  <2>. QED BY <1>1, <2>1 DEF RowView, Terminal
<1>2. TypeInv /\ VerdictInv /\ [Next]_vars =>
        [\A s \in Scans :
           row[s].status \in Terminal /\ row'[s].status \in Terminal /\ row'[s] # row[s]
             => Overlap(s)]_vars
  BY <1>1
<1>. QED BY <1>2, TypeInvariant, VerdictInvariant, PTL DEF Spec, LateWritersAreIgnored
================================================================================
