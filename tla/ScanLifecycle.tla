----------------------------- MODULE ScanLifecycle -----------------------------
(***************************************************************************)
(* What a reader of GET /v1/scans/{id} is promised about a scan's status,  *)
(* with no mention of queues, workers or callbacks: it is created queued,  *)
(* may start running, settles once, and is then final.                     *)
(*                                                                         *)
(* Two constants relax the promise where the implementation does not keep  *)
(* it: Revivable scans may go back to running after a verdict, Contested   *)
(* scans may have one verdict replaced by the other.                       *)
(***************************************************************************)
CONSTANTS
  Scans,
  Revivable,  \* a truth value: is Revive allowed
  Contested   \* a truth value: is Contest allowed

VARIABLE status

Verdicts == {"succeeded", "failed"}

LifecycleInit == status = [s \in Scans |-> "absent"]

Create(s) ==
  /\ status[s] = "absent"
  /\ status' = [status EXCEPT ![s] = "queued"]

Start(s) ==
  /\ status[s] = "queued"
  /\ status' = [status EXCEPT ![s] = "running"]

Settle(s) ==
  /\ status[s] \in {"queued", "running"}
  /\ \E v \in Verdicts : status' = [status EXCEPT ![s] = v]

Revive(s) ==
  /\ Revivable
  /\ status[s] \in Verdicts
  /\ status' = [status EXCEPT ![s] = "running"]

Contest(s) ==
  /\ Contested
  /\ status[s] \in Verdicts
  /\ \E v \in Verdicts \ {status[s]} : status' = [status EXCEPT ![s] = v]

LifecycleNext ==
  \E s \in Scans : Create(s) \/ Start(s) \/ Settle(s) \/ Revive(s) \/ Contest(s)

LifecycleSpec == LifecycleInit /\ [][LifecycleNext]_status
================================================================================
