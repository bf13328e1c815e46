-------------------------- MODULE MCScanOrchestration --------------------------
(* Instances of ScanOrchestration for TLC.                                 *)
EXTENDS ScanOrchestration, FiniteSets

AllFaults == {"api", "worker", "db", "runner", "ingest", "reporter", "cluster"}
NoFaults  == {}

RunnerFaults   == {"runner"}
ReporterFaults == {"reporter"}

(* Processes die; databases, registries, daemons and cluster nodes do not. *)
ProcessFaults  == {"api", "worker", "runner", "reporter"}

(* Bound: in one behaviour either the message is delivered again or a      *)
(* second pod is started, not both; and at most one pod is evicted, and    *)
(* then no callback fails and no run is lost.                              *)
OneRetryKind == \A s \in Scans :
  /\ delivered[s] > 1 => \A r \in Reporters : r[2] > 1 => rep[s][r] = "idle"
  /\ evicted[s] # {} =>
       /\ Cardinality(evicted[s]) = 1
       /\ \A r \in Reporters : cb[s][r] \notin {"errored", "unsaved"}
       /\ \A d \in Deliveries : exec[s][d] \notin {"lost", "killed", "abandoned"}
================================================================================
