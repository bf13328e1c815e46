-------------------------------- MODULE Ingest --------------------------------
(***************************************************************************)
(* reporter/ingest.py: upload the SBOM, then one insert per table, without *)
(* a transaction; and the API's paged reading of what was inserted.  The   *)
(* same scan is ingested again by a second pod or a second delivery.       *)
(***************************************************************************)
EXTENDS ClickHouseMigrations, FiniteSets, FiniteSetsExt

CONSTANTS
  Attempts,     \* reporters that ingest the scan
  Findings,     \* what grype reports
  SortKey,      \* severity rank and CVE of a finding: what pages are sorted by
  PageSize,
  None

ASSUME FiniteAssumption == IsFiniteSet(Attempts) /\ IsFiniteSet(Findings)
ASSUME SortAssumption   == SortKey \in [Findings -> Nat]
ASSUME PageAssumption   == PageSize \in Nat \ {0}
ASSUME NoneAssumption   == None \notin Attempts

VARIABLES
  blob,      \* the object in the bucket, under the key of the scan's commit
  rows,      \* which attempt has inserted into which table
  attempt,
  walk       \* a client that reads the findings page by page, and starts over
             \* when an ingest has added some in between

ingestVars == <<blob, rows, attempt>>
vars == <<schemaVars, ingestVars, walk>>

(* The order of the inserts.                                               *)
Tables == <<"sboms", "dependencies", "findings", "secret_findings", "scan_metrics">>

(* Mutant: the metrics go first.                                           *)
TablesMetricsFirst == <<"scan_metrics", "sboms", "dependencies", "findings", "secret_findings">>

Inserts == Tables

(* The tables an insert is skipped for when there is nothing to insert.    *)
Optional == {"dependencies", "findings", "secret_findings"}

Columns(t) ==
  {"table"} \cup (IF t = "scan_metrics" THEN {"secret_finding_count", "verified_secret_count"} ELSE {})

Attempt == [pc: {"idle", "upload", "insert", "done", "failed"},
            at: 1 .. Len(Tables) + 1,
            has: SUBSET Optional]       \* what there is to insert

Row == Attempts \X Findings
Walk == [pc: {"idle", "reading", "over"},
         offset: Nat,
         got: [Row -> Nat]]             \* how often a row was on a page

NoWalk == [pc |-> "idle", offset |-> 0, got |-> [x \in Row |-> 0]]

IngestTypeOK ==
  /\ SchemaTypeOK
  /\ blob \in Attempts \cup {None}
  /\ rows \subseteq {Tables[i] : i \in DOMAIN Tables} \X Attempts
  /\ attempt \in [Attempts -> Attempt]
  /\ walk \in Walk

Init ==
  /\ SchemaInit
  /\ blob = None
  /\ rows = {}
  /\ attempt \in [Attempts -> {[pc |-> "idle", at |-> 1, has |-> h] : h \in {{}, Optional}}]
  /\ walk = NoWalk

--------------------------------------------------------------------------------
(* The reporter reads and parses the artifacts.                            *)
BeginIngest(a) ==
  /\ attempt[a].pc = "idle"
  /\ attempt' = [attempt EXCEPT ![a].pc = "upload"]
  /\ UNCHANGED <<blob, rows, walk>>

(* The key is made of organisation, repository and commit: whatever was    *)
(* there is replaced.                                                      *)
Upload(a) ==
  /\ attempt[a].pc = "upload"
  /\ blob' = a
  /\ attempt' = [attempt EXCEPT ![a].pc = "insert"]
  /\ UNCHANGED <<rows, walk>>

TableOf(a) == Inserts[attempt[a].at]

HasRows(a, t) == t \notin Optional \/ t \in attempt[a].has

Insert(a) ==
  /\ attempt[a].pc = "insert" /\ attempt[a].at <= Len(Tables)
  /\ \/ /\ HasRows(a, TableOf(a))
        /\ \A c \in Columns(TableOf(a)) : Exists(TableOf(a), c)
        /\ rows' = rows \cup {<<TableOf(a), a>>}
        /\ walk' = IF TableOf(a) = "findings" THEN NoWalk ELSE walk
     \/ ~ HasRows(a, TableOf(a)) /\ UNCHANGED <<rows, walk>>
  /\ attempt' = [attempt EXCEPT ![a].at = @ + 1]
  /\ UNCHANGED blob

(* Mutant: an insert that raises ends the ingest as if nothing were left.  *)
EndIngestEarly(a) ==
  /\ attempt[a].pc = "insert"
  /\ attempt' = [attempt EXCEPT ![a].pc = "done"]
  /\ UNCHANGED <<blob, rows, walk>>

EndIngest(a) ==
  /\ attempt[a].pc = "insert" /\ attempt[a].at > Len(Tables)
  /\ attempt' = [attempt EXCEPT ![a].pc = "done"]
  /\ UNCHANGED <<blob, rows, walk>>

(* An artifact is missing or unreadable, the bucket or ClickHouse refuses, *)
(* a table or column is not there yet, the container is killed.  What was  *)
(* inserted stays.                                                         *)
IngestFails(a) ==
  /\ attempt[a].pc \in {"upload", "insert"}
  /\ attempt' = [attempt EXCEPT ![a].pc = "failed"]
  /\ UNCHANGED <<blob, rows, walk>>

IngestStep(a) == BeginIngest(a) \/ Upload(a) \/ Insert(a) \/ EndIngest(a) \/ IngestFails(a)

--------------------------------------------------------------------------------
(* list_findings, called with the next offset until it is past the total.  *)

Stored == {x \in Row : <<"findings", x[1]>> \in rows}

Sorted(A, B) == \A x \in A, y \in B : SortKey[x[2]] <= SortKey[y[2]]

(* Mutant: the query has no ORDER BY.                                      *)
PageUnordered(offset, page) ==
  Cardinality(page) = Min({PageSize, Cardinality(Stored) - offset})

(* What LIMIT PageSize OFFSET offset may return: rows of one key come in   *)
(* any order, and in another one next time.                                *)
Page(offset, page) ==
  /\ Cardinality(page) = Min({PageSize, Cardinality(Stored) - offset})
  /\ \E head \in SUBSET (Stored \ page) :
       /\ Cardinality(head) = offset
       /\ Sorted(head, page)
       /\ Sorted(head \cup page, Stored \ (head \cup page))

StartWalk ==
  /\ walk.pc = "idle" /\ Exists("findings", "table")
  /\ walk' = [walk EXCEPT !.pc = "reading"]

ReadPage ==
  /\ walk.pc = "reading"
  /\ walk.offset < Cardinality(Stored)
  /\ \E page \in SUBSET Stored :
       /\ Page(walk.offset, page)
       /\ walk' = [walk EXCEPT !.offset = @ + Cardinality(page),
                              !.got = [x \in Row |-> @[x] + (IF x \in page THEN 1 ELSE 0)]]

EndWalk ==
  /\ walk.pc = "reading"
  /\ walk.offset >= Cardinality(Stored)
  /\ walk' = [walk EXCEPT !.pc = "over"]

WalkStep == StartWalk \/ ReadPage \/ EndWalk

--------------------------------------------------------------------------------
Next ==
  \/ SchemaNext /\ UNCHANGED <<ingestVars, walk>>
  \/ (\E a \in Attempts : IngestStep(a)) /\ UNCHANGED schemaVars
  \/ WalkStep /\ UNCHANGED <<schemaVars, ingestVars>>

Spec == Init /\ [][Next]_vars

--------------------------------------------------------------------------------
(* Properties.                                                             *)

(* A scan_metrics row, which is what a succeeded scan is known by, means   *)
(* that its ingest met a schema at head, uploaded an SBOM and filled every *)
(* table it had something for, wherever other ingests were cut short.      *)
MetricsMeanComplete == \A a \in Attempts : <<"scan_metrics", a>> \in rows =>
  /\ effect = Statements
  /\ blob # None
  /\ \A i \in DOMAIN Tables : HasRows(a, Tables[i]) => <<Tables[i], a>> \in rows

(* The ingests that have stored all they had.                              *)
Complete == {a \in Attempts : \A i \in DOMAIN Tables : HasRows(a, Tables[i]) => <<Tables[i], a>> \in rows}

(* What ScanOrchestration takes for one upload and one insert, although    *)
(* they are six calls that fail one by one, beside another ingest's.       *)
Contract == INSTANCE IngestContract WITH
  reporter <- [a \in Attempts |-> attempt[a].pc],
  uploaded <- blob # None,
  ingested <- Complete

ImplementsContract == Contract!ContractSpec

(* If no ingest came in between, a client that reads to the last page      *)
(* misses a row only because its place went to another one of the same     *)
(* severity and CVE, which it gets twice.                                  *)
OnlyTiesAreMissed == walk.pc = "over" =>
  \A x \in Stored : walk.got[x] = 0 =>
    \E y \in Stored : walk.got[y] > 1 /\ SortKey[y[2]] = SortKey[x[2]]

================================================================================
