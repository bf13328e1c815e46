---------------------------- MODULE IngestContract ----------------------------
(***************************************************************************)
(* What ScanOrchestration assumes of reporter/ingest.py, for the reporters *)
(* of one scan: rows come after the upload, success after all rows, and    *)
(* neither is ever taken back.  An ingest may fail at any point before it  *)
(* returns, the last insert behind it or not.                              *)
(***************************************************************************)
CONSTANTS Attempts

VARIABLES
  reporter,   \* how far each ingest is
  uploaded,   \* there is an SBOM object for the scan
  ingested    \* the ingests that have filled every table

contractVars == <<reporter, uploaded, ingested>>

Goto(a, pc) == reporter' = [reporter EXCEPT ![a] = pc]

ContractInit ==
  /\ reporter = [a \in Attempts |-> "idle"]
  /\ uploaded = FALSE
  /\ ingested = {}

ReadArtifacts(a) ==
  /\ reporter[a] = "idle"
  /\ Goto(a, "upload")
  /\ UNCHANGED <<uploaded, ingested>>

UploadSbom(a) ==
  /\ reporter[a] = "upload"
  /\ Goto(a, "insert")
  /\ uploaded' = TRUE
  /\ UNCHANGED ingested

InsertRows(a) ==
  /\ reporter[a] = "insert" /\ uploaded
  /\ ingested' = ingested \cup {a}
  /\ UNCHANGED <<reporter, uploaded>>

Succeed(a) ==
  /\ reporter[a] = "insert" /\ a \in ingested
  /\ Goto(a, "done")
  /\ UNCHANGED <<uploaded, ingested>>

IngestFails(a) ==
  /\ reporter[a] \in {"upload", "insert"}
  /\ Goto(a, "failed")
  /\ UNCHANGED <<uploaded, ingested>>

ContractNext == \E a \in Attempts :
  ReadArtifacts(a) \/ UploadSbom(a) \/ InsertRows(a) \/ Succeed(a) \/ IngestFails(a)

ContractSpec == ContractInit /\ [][ContractNext]_contractVars
================================================================================
