------------------------- MODULE ClickHouseMigrations -------------------------
(***************************************************************************)
(* migrations/clickhouse/apply.py: appliers that run at the same time, and *)
(* may be killed anywhere, bring the schema to head.  There are no         *)
(* transactions; what keeps the schema sound is the order of the steps and *)
(* that every statement may be repeated.                                   *)
(***************************************************************************)
EXTENDS Naturals, Sequences

CONSTANT Appliers

VARIABLES
  effect,     \* the statements that have taken effect, as <<version, index>>
  versions,   \* schema_versions
  applier

schemaVars == <<effect, versions, applier>>

(* The statements of the shipped files, in order.  Every one is qualified  *)
(* IF NOT EXISTS; an ALTER wants its table.                                *)
Create(t)       == [table |-> t, adds |-> "table"]
AddColumn(t, c) == [table |-> t, adds |-> c]

Migrations == <<
  <<Create("sboms"), Create("dependencies"), Create("findings"),
    Create("scan_metrics"), Create("vex_statements")>>,
  <<Create("secret_findings"),
    AddColumn("scan_metrics", "secret_finding_count"),
    AddColumn("scan_metrics", "verified_secret_count")>>>>

Versions   == DOMAIN Migrations
Statements == UNION {{v} \X DOMAIN Migrations[v] : v \in Versions}
Statement(id) == Migrations[id[1]][id[2]]

Before(j, k) == j[1] < k[1] \/ (j[1] = k[1] /\ j[2] < k[2])

Ended   == {"done", "failed", "killed"}
Applier == [pc: {"idle", "apply"} \cup Ended,
            todo: SUBSET Versions,     \* the pending files, as they were read
            at: Nat]                   \* the next statement of the first of them

SchemaTypeOK ==
  /\ effect \subseteq Statements
  /\ versions \subseteq Versions
  /\ applier \in [Appliers -> Applier]

SchemaInit ==
  /\ effect = {}
  /\ versions = {}
  /\ applier = [a \in Appliers |-> [pc |-> "idle", todo |-> {}, at |-> 1]]

--------------------------------------------------------------------------------
Exists(t, part) == \E id \in effect : Statement(id) = [table |-> t, adds |-> part]

Acceptable(id) == Statement(id).adds = "table" \/ Exists(Statement(id).table, "table")

(* main: what is not in schema_versions is pending.                        *)
ReadVersions(a) ==
  /\ applier[a].pc \in {"idle", "killed"}
  /\ applier' = [applier EXCEPT ![a] = [pc |-> "apply", todo |-> Versions \ versions, at |-> 1]]
  /\ UNCHANGED <<effect, versions>>

(* Mutant: the directory is listed in no particular order.                 *)
IsNextUnsorted(a, v) == applier[a].pc = "apply" /\ v \in applier[a].todo

(* discover_migrations sorts.                                              *)
IsNext(a, v) ==
  /\ applier[a].pc = "apply"
  /\ v \in applier[a].todo
  /\ \A w \in applier[a].todo : v <= w

Execute(a, v) ==
  LET id == <<v, applier[a].at>> IN
  /\ IsNext(a, v)
  /\ id \in Statements
  /\ Acceptable(id)
  /\ effect' = effect \cup {id}
  /\ applier' = [applier EXCEPT ![a].at = @ + 1]
  /\ UNCHANGED versions

StatementFails(a, v) ==
  LET id == <<v, applier[a].at>> IN
  /\ IsNext(a, v)
  /\ id \in Statements
  /\ ~ Acceptable(id)
  /\ applier' = [applier EXCEPT ![a].pc = "failed"]
  /\ UNCHANGED <<effect, versions>>

(* Mutant: the version is recorded before its last statement runs.         *)
RecordVersionEarly(a, v) ==
  /\ IsNext(a, v)
  /\ applier[a].at >= Len(Migrations[v])
  /\ versions' = versions \cup {v}
  /\ applier' = [applier EXCEPT ![a].todo = @ \ {v}, ![a].at = 1]
  /\ UNCHANGED effect

(* Mutant: off by one, the schema's next version is recorded.              *)
RecordVersionNext(a, v) ==
  /\ IsNext(a, v)
  /\ <<v, applier[a].at>> \notin Statements
  /\ versions' = versions \cup {v + 1}
  /\ applier' = [applier EXCEPT ![a].todo = @ \ {v}, ![a].at = 1]
  /\ UNCHANGED effect

(* apply_one: the version is recorded after the whole file.  Two appliers  *)
(* may both insert it; it is read with DISTINCT.                           *)
RecordVersion(a, v) ==
  /\ IsNext(a, v)
  /\ <<v, applier[a].at>> \notin Statements
  /\ versions' = versions \cup {v}
  /\ applier' = [applier EXCEPT ![a].todo = @ \ {v}, ![a].at = 1]
  /\ UNCHANGED effect

Finish(a) ==
  /\ applier[a].pc = "apply" /\ applier[a].todo = {}
  /\ applier' = [applier EXCEPT ![a].pc = "done"]
  /\ UNCHANGED <<effect, versions>>

(* Killed, or cut off from ClickHouse; somebody may start it again.        *)
Killed(a) ==
  /\ applier[a].pc = "apply"
  /\ applier' = [applier EXCEPT ![a] = [pc |-> "killed", todo |-> {}, at |-> 1]]
  /\ UNCHANGED <<effect, versions>>

ApplierStep(a) ==
  \/ ReadVersions(a) \/ Finish(a) \/ Killed(a)
  \/ \E v \in Versions : Execute(a, v) \/ StatementFails(a, v) \/ RecordVersion(a, v)

SchemaNext == \E a \in Appliers : ApplierStep(a)

SchemaSpec == SchemaInit /\ [][SchemaNext]_schemaVars

--------------------------------------------------------------------------------
(* Properties.                                                             *)

(* "records it in schema_versions after the whole file succeeds": whoever  *)
(* was killed where, a recorded version has its whole file and all earlier *)
(* files behind it, and so has an applier that has returned.               *)
VersionMeansApplied ==
  /\ \A v \in versions, id \in Statements : id[1] <= v => id \in effect
  /\ \A a \in Appliers : applier[a].pc = "done" => effect = Statements

(* No interleaving of appliers, fresh or restarted, gets an ALTER in front *)
(* of the CREATE it depends on.                                            *)
NoStatementFails == \A a \in Appliers : applier[a].pc # "failed"
================================================================================
