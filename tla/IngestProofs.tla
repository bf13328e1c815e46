----------------------------- MODULE IngestProofs -----------------------------
(***************************************************************************)
(* The ClickHouse schema and what is ingested into it, for any number of   *)
(* appliers that run, are killed and restarted at the same time, and any   *)
(* number of ingests.                                                      *)
(***************************************************************************)
EXTENDS Ingest, FiniteSetTheorems, TLAPS

(* The shipped files, spelled out.                                         *)
LEMMA Shape ==
  /\ Versions = 1 .. 2
  /\ DOMAIN Migrations[1] = 1 .. 5 /\ DOMAIN Migrations[2] = 1 .. 3
  /\ \A v, i : <<v, i>> \in Statements <=> v \in Versions /\ i \in DOMAIN Migrations[v]
  /\ \A id \in Statements : id = <<id[1], id[2]>> /\ id[1] \in Versions /\ id[2] \in DOMAIN Migrations[id[1]]
<1>1. Versions = 1 .. 2
  BY DEF Versions, Migrations
<1>2. DOMAIN Migrations[1] = 1 .. 5 /\ DOMAIN Migrations[2] = 1 .. 3
  BY DEF Migrations
<1>3. \A v, i : <<v, i>> \in Statements <=> v \in Versions /\ i \in DOMAIN Migrations[v]
  BY DEF Statements
<1>4. \A id \in Statements : id = <<id[1], id[2]>> /\ id[1] \in Versions /\ id[2] \in DOMAIN Migrations[id[1]]
  BY DEF Statements
<1>. QED BY <1>1, <1>2, <1>3, <1>4

(* An ALTER wants a table that an earlier file creates, and the last       *)
(* column of scan_metrics is added by the last statement of all.           *)
LEMMA Order ==
  /\ Statement(<<1, 4>>) = Create("scan_metrics")
  /\ \A id \in Statements :
       /\ Statement(id).adds # "table" => id[1] = 2 /\ Statement(id).table = "scan_metrics"
       /\ Statement(id).adds = "verified_secret_count" => id = <<2, 3>>
<1>1. Statement(<<1, 4>>) = Create("scan_metrics")
  BY DEF Statement, Migrations
<1>2. ASSUME NEW id \in Statements, Statement(id).adds # "table"
      PROVE  /\ id[1] = 2 /\ Statement(id).table = "scan_metrics"
             /\ Statement(id).adds = "verified_secret_count" => id = <<2, 3>>
  <2>1. id = <<id[1], id[2]>> /\ id[1] \in {1, 2}
    BY Shape
  <2>2. CASE id[1] = 1
    <3>1. id[2] \in {1, 2, 3, 4, 5}
      BY <2>2, Shape
    <3>. QED BY <1>2, <2>2, <3>1 DEF Statement, Migrations, Create
  <2>3. CASE id[1] = 2
    <3>1. id[2] \in {1, 2, 3}
      BY <2>3, Shape
    <3>. QED BY <1>2, <2>1, <2>3, <3>1 DEF Statement, Migrations, Create, AddColumn
  <2>. QED BY <2>1, <2>2, <2>3
<1>. QED BY <1>1, <1>2

--------------------------------------------------------------------------------
(* An applier works its files off in order, so what has taken effect is a  *)
(* prefix, and what it no longer lists as pending is recorded.             *)
SchemaInv ==
  /\ SchemaTypeOK
  /\ VersionMeansApplied
  /\ NoStatementFails
  /\ \A j \in effect, k \in Statements : Before(k, j) => k \in effect
  /\ \A a \in Appliers : applier[a].pc = "apply" => Versions \ applier[a].todo \subseteq versions
  /\ \A a \in Appliers, v \in Versions : IsNext(a, v) =>
       /\ applier[a].at >= 1
       /\ \A i \in DOMAIN Migrations[v] : i < applier[a].at => <<v, i>> \in effect

LEMMA SchemaInitial == SchemaInit => SchemaInv
  BY DEF SchemaInit, SchemaInv, SchemaTypeOK, VersionMeansApplied, NoStatementFails, IsNext,
         Applier, Ended

(* Everything before the next statement of an applier is in effect, so the *)
(* next statement is acceptable.                                           *)
LEMMA NextInOrder ==
  ASSUME SchemaInv, NEW a \in Appliers, NEW v \in Versions, IsNext(a, v)
  PROVE  /\ applier[a].at \in Nat /\ applier[a].at >= 1
         /\ \A k \in Statements : k[1] < v => k \in effect
         /\ \A k \in Statements : Before(k, <<v, applier[a].at>>) => k \in effect
         /\ <<v, applier[a].at>> \in Statements => Acceptable(<<v, applier[a].at>>)
<1>0. applier[a] \in Applier
  BY DEF SchemaInv, SchemaTypeOK
<1>1. applier[a].at \in Nat /\ applier[a].at >= 1
  BY <1>0 DEF Applier, SchemaInv
<1>2. ASSUME NEW k \in Statements, k[1] < v PROVE k \in effect
  <2>1. k[1] \in Versions /\ k[1] \in Int /\ v \in Int
    BY Shape
  <2>2. k[1] \notin applier[a].todo
    BY <1>2, <2>1 DEF IsNext
  <2>3. k[1] \in versions
    BY <2>1, <2>2 DEF SchemaInv, IsNext
  <2>. QED BY <2>1, <2>3 DEF SchemaInv, VersionMeansApplied
<1>3. ASSUME NEW k \in Statements, Before(k, <<v, applier[a].at>>) PROVE k \in effect
  <2>1. CASE k[1] < v
    BY <1>2, <2>1
  <2>2. CASE k[1] = v /\ k[2] < applier[a].at
    BY <2>2, Shape DEF SchemaInv
  <2>. QED BY <1>3, <2>1, <2>2 DEF Before
<1>4. ASSUME <<v, applier[a].at>> \in Statements PROVE Acceptable(<<v, applier[a].at>>)
  <2>. DEFINE id == <<v, applier[a].at>>
  <2>1. CASE Statement(id).adds = "table"
    BY <2>1 DEF Acceptable
  <2>2. CASE Statement(id).adds # "table"
    <3>1. v = 2 /\ Statement(id).table = "scan_metrics"
      BY <1>4, <2>2, Order
    <3>2. <<1, 4>> \in Statements
      BY Shape
    <3>3. <<1, 4>> \in effect
      BY <1>2, <3>1, <3>2
    <3>. QED BY <3>1, <3>3, Order DEF Acceptable, Exists, Create
  <2>. QED BY <2>1, <2>2
<1>. QED BY <1>1, <1>2, <1>3, <1>4

LEMMA SchemaStep ==
  ASSUME SchemaInv, [SchemaNext]_schemaVars PROVE SchemaInv'
<1>. USE DEF SchemaTypeOK
(* One applier moves; a conjunct about another one needs only that effect  *)
(* and versions grow.                                                      *)
<1>1. ASSUME NEW a \in Appliers, ReadVersions(a) PROVE SchemaInv'
  <2>1. /\ UNCHANGED <<effect, versions>>
        /\ applier' = [applier EXCEPT ![a] = [pc |-> "apply", todo |-> Versions \ versions, at |-> 1]]
    BY <1>1 DEF ReadVersions
  <2>2. [pc |-> "apply", todo |-> Versions \ versions, at |-> 1] \in Applier
    BY DEF Applier
  <2>3. SchemaTypeOK'
    BY <2>1, <2>2 DEF SchemaInv
  <2>4. VersionMeansApplied' /\ NoStatementFails'
    BY <2>1 DEF SchemaInv, VersionMeansApplied, NoStatementFails
  <2>5. ASSUME NEW b \in Appliers, NEW v \in Versions, IsNext(b, v)'
        PROVE  /\ applier'[b].at >= 1
               /\ \A i \in DOMAIN Migrations[v] : i < applier'[b].at => <<v, i>> \in effect'
    <3>1. CASE b = a
      <4>1. applier'[a].at = 1 /\ \A i \in DOMAIN Migrations[v] : i \in Nat /\ ~ (i < 1)
        BY <2>1, Shape DEF SchemaInv
      <4>. QED BY <3>1, <4>1
    <3>2. CASE b # a
      BY <2>1, <2>5, <3>2 DEF SchemaInv, IsNext
    <3>. QED BY <3>1, <3>2
  <2>6. \A b \in Appliers : applier'[b].pc = "apply" => Versions \ applier'[b].todo \subseteq versions'
    BY <2>1 DEF SchemaInv
  <2>. QED BY <2>1, <2>3, <2>4, <2>5, <2>6 DEF SchemaInv
<1>2. ASSUME NEW a \in Appliers, NEW v \in Versions, Execute(a, v) PROVE SchemaInv'
  <2>. DEFINE id == <<v, applier[a].at>>
  <2>1. /\ IsNext(a, v) /\ id \in Statements /\ versions' = versions /\ effect' = effect \cup {id}
        /\ applier' = [applier EXCEPT ![a].at = @ + 1]
    BY <1>2 DEF Execute
  <2>2. /\ applier[a] \in Applier /\ applier[a].at \in Nat /\ applier[a].at >= 1
        /\ \A k \in Statements : Before(k, id) => k \in effect
    BY <2>1, NextInOrder DEF SchemaInv
  <2>3. applier'[a] = [applier[a] EXCEPT !.at = @ + 1] /\ \A b \in Appliers \ {a} : applier'[b] = applier[b]
    BY <2>1 DEF SchemaInv
  <2>4. /\ applier'[a] \in Applier /\ applier'[a].at = applier[a].at + 1
        /\ applier'[a].pc = applier[a].pc /\ applier'[a].todo = applier[a].todo
    BY <2>2, <2>3 DEF Applier
  <2>5. SchemaTypeOK'
    BY <2>1, <2>3, <2>4 DEF SchemaInv
  <2>6. VersionMeansApplied' /\ NoStatementFails'
    BY <2>1, <2>3, <2>4 DEF SchemaInv, VersionMeansApplied, NoStatementFails, IsNext
  <2>7. \A j \in effect', k \in Statements : Before(k, j) => k \in effect'
    BY <2>1, <2>2 DEF SchemaInv
  <2>8. \A b \in Appliers : applier'[b].pc = "apply" => Versions \ applier'[b].todo \subseteq versions'
    BY <2>1, <2>3, <2>4 DEF SchemaInv
  <2>9. ASSUME NEW b \in Appliers, NEW w \in Versions, IsNext(b, w)'
        PROVE  /\ applier'[b].at >= 1
               /\ \A i \in DOMAIN Migrations[w] : i < applier'[b].at => <<w, i>> \in effect'
    <3>1. IsNext(b, w)
      BY <2>3, <2>4, <2>9 DEF IsNext
    <3>2. CASE b = a
      <4>1. w = v
        BY <2>1, <3>1, <3>2, Shape DEF IsNext
      <4>2. ASSUME NEW i \in DOMAIN Migrations[w], i < applier'[a].at PROVE <<w, i>> \in effect'
        <5>1. i \in Int /\ (i < applier[a].at \/ i = applier[a].at)
          BY <2>2, <2>4, <4>2, Shape
        <5>2. CASE i < applier[a].at
          BY <2>1, <3>1, <3>2, <4>1, <5>2 DEF SchemaInv
        <5>. QED BY <2>1, <4>1, <5>1, <5>2
      <4>. QED BY <2>2, <2>4, <3>2, <4>2
    <3>3. CASE b # a
      BY <2>1, <2>3, <3>1, <3>3 DEF SchemaInv
    <3>. QED BY <3>2, <3>3
  <2>. QED BY <2>5, <2>6, <2>7, <2>8, <2>9 DEF SchemaInv
<1>3. ASSUME NEW a \in Appliers, NEW v \in Versions, StatementFails(a, v) PROVE SchemaInv'
  BY <1>3, NextInOrder DEF StatementFails
<1>4. ASSUME NEW a \in Appliers, NEW v \in Versions, RecordVersion(a, v) PROVE SchemaInv'
  <2>1. /\ IsNext(a, v) /\ <<v, applier[a].at>> \notin Statements
        /\ versions' = versions \cup {v} /\ effect' = effect
        /\ applier' = [applier EXCEPT ![a].todo = @ \ {v}, ![a].at = 1]
    BY <1>4 DEF RecordVersion
  <2>2. /\ applier[a] \in Applier /\ applier[a].at \in Nat /\ applier[a].at >= 1
        /\ \A k \in Statements : k[1] < v => k \in effect
    BY <2>1, NextInOrder DEF SchemaInv
  <2>3. /\ applier'[a] = [applier[a] EXCEPT !.todo = @ \ {v}, !.at = 1]
        /\ \A b \in Appliers \ {a} : applier'[b] = applier[b]
    BY <2>1 DEF SchemaInv
  <2>4. /\ applier'[a] \in Applier /\ applier'[a].at = 1
        /\ applier'[a].pc = applier[a].pc /\ applier'[a].todo = applier[a].todo \ {v}
    <3>1. applier[a].todo \ {v} \in SUBSET Versions
      BY <2>2 DEF Applier
    <3>2. applier'[a] = [pc |-> applier[a].pc, todo |-> applier[a].todo \ {v}, at |-> 1]
      BY <2>2, <2>3 DEF Applier
    <3>. QED BY <2>2, <3>1, <3>2 DEF Applier
  <2>5. SchemaTypeOK'
    BY <2>1, <2>3, <2>4 DEF SchemaInv
  (* The whole file is behind the applier.                                 *)
  <2>6. ASSUME NEW k \in Statements, k[1] <= v PROVE k \in effect
    <3>1. k = <<k[1], k[2]>> /\ k[1] \in Int /\ v \in Int /\ k[2] \in DOMAIN Migrations[k[1]]
      BY Shape
    <3>2. CASE k[1] = v
      <4>1. applier[a].at \notin DOMAIN Migrations[v]
        BY <2>1, Shape
      <4>2. k[2] < applier[a].at
        BY <2>2, <3>1, <3>2, <4>1, Shape
      <4>. QED BY <2>1, <3>1, <3>2, <4>2 DEF SchemaInv
    <3>. QED BY <2>2, <2>6, <3>1, <3>2
  <2>7. VersionMeansApplied' /\ NoStatementFails'
    BY <2>1, <2>3, <2>4, <2>6 DEF SchemaInv, VersionMeansApplied, NoStatementFails, IsNext
  <2>8. \A b \in Appliers : applier'[b].pc = "apply" => Versions \ applier'[b].todo \subseteq versions'
    BY <2>1, <2>3, <2>4 DEF SchemaInv
  <2>9. ASSUME NEW b \in Appliers, NEW w \in Versions, IsNext(b, w)'
        PROVE  /\ applier'[b].at >= 1
               /\ \A i \in DOMAIN Migrations[w] : i < applier'[b].at => <<w, i>> \in effect'
    <3>1. CASE b = a
      <4>1. \A i \in DOMAIN Migrations[w] : i \in Nat /\ ~ (i < 1)
        BY Shape
      <4>. QED BY <2>4, <3>1, <4>1
    <3>2. CASE b # a
      BY <2>1, <2>3, <2>9, <3>2 DEF SchemaInv, IsNext
    <3>. QED BY <3>1, <3>2
  <2>. QED BY <2>1, <2>5, <2>7, <2>8, <2>9 DEF SchemaInv
<1>5. ASSUME NEW a \in Appliers, Finish(a) \/ Killed(a) PROVE SchemaInv'
  <2>1. /\ UNCHANGED <<effect, versions>> /\ applier[a].pc = "apply"
        /\ \A b \in Appliers \ {a} : applier'[b] = applier[b]
        /\ applier'[a].pc \in {"done", "killed"}
        /\ applier'[a].pc = "done" => applier[a].todo = {}
    <3>1. CASE Finish(a)
      BY <3>1 DEF Finish, SchemaInv, Applier
    <3>2. CASE Killed(a)
      BY <3>2 DEF Killed, SchemaInv
    <3>. QED BY <1>5, <3>1, <3>2
  <2>2. SchemaTypeOK'
    <3>1. applier[a] \in Applier
      BY DEF SchemaInv
    <3>2. [applier[a] EXCEPT !.pc = "done"] \in Applier /\ [pc |-> "killed", todo |-> {}, at |-> 1] \in Applier
      BY <3>1 DEF Applier, Ended
    <3>. QED BY <1>5, <2>1, <3>2 DEF SchemaInv, Finish, Killed
  <2>3. applier'[a].pc = "done" => effect = Statements
    <3>. SUFFICES ASSUME applier[a].todo = {}, NEW k \in Statements PROVE k \in effect
      BY <2>1 DEF SchemaInv
    <3>1. k[1] \in versions /\ k[1] <= k[1]
      BY <2>1, Shape DEF SchemaInv
    <3>. QED BY <3>1 DEF SchemaInv, VersionMeansApplied
  <2>4. VersionMeansApplied' /\ NoStatementFails'
    BY <2>1, <2>3 DEF SchemaInv, VersionMeansApplied, NoStatementFails
  <2>. QED BY <2>1, <2>2, <2>4 DEF SchemaInv, IsNext
<1>6. CASE UNCHANGED schemaVars
  BY <1>6 DEF schemaVars, SchemaInv, VersionMeansApplied, NoStatementFails, IsNext
<1>. QED BY <1>1, <1>2, <1>3, <1>4, <1>5, <1>6 DEF SchemaNext, ApplierStep

LEMMA SchemaInvariant == Spec => []SchemaInv
<1>1. Init => SchemaInv
  BY SchemaInitial DEF Init
<1>2. SchemaInv /\ [Next]_vars => SchemaInv'
  BY SchemaStep DEF Next, vars
<1>. QED BY <1>1, <1>2, PTL DEF Spec

(* A version is recorded only with its whole file and all earlier files in *)
(* effect, wherever appliers overlap or are killed.                        *)
THEOREM RecordedIsApplied == Spec => []VersionMeansApplied
<1>1. SchemaInv => VersionMeansApplied
  BY DEF SchemaInv
<1>. QED BY <1>1, SchemaInvariant, PTL

(* No interleaving of appliers puts an ALTER before its CREATE.            *)
THEOREM StatementsAreAccepted == Spec => []NoStatementFails
<1>1. SchemaInv => NoStatementFails
  BY DEF SchemaInv
<1>. QED BY <1>1, SchemaInvariant, PTL

--------------------------------------------------------------------------------
(* Ingests and paged reading.                                              *)

LEMMA TableShape ==
  /\ Len(Tables) = 5 /\ DOMAIN Tables = 1 .. 5 /\ Inserts = Tables
  /\ Tables[5] = "scan_metrics" /\ \A i \in 1 .. 4 : Tables[i] # "scan_metrics"
  BY DEF Tables, Inserts

(* An ingest inserts in order, and after it has replaced the object.       *)
IngestInv ==
  /\ IngestTypeOK
  /\ \A a \in Attempts :
       /\ attempt[a].pc = "insert" \/ attempt[a].at > 1 => blob # None
       /\ \A i \in DOMAIN Tables : i < attempt[a].at /\ HasRows(a, Tables[i]) => <<Tables[i], a>> \in rows
       /\ <<"scan_metrics", a>> \in rows => attempt[a].at = 6 /\ effect = Statements

LEMMA FinitePages == \A page \in SUBSET Row : Cardinality(page) \in Nat
<1>1. IsFiniteSet(Row)
  BY FiniteAssumption, FS_Product DEF Row
<1>. QED BY <1>1, FS_Subset, FS_CardinalityType

LEMMA IngestInit == Init => IngestInv
<1>. SUFFICES ASSUME Init PROVE IngestInv
  OBVIOUS
<1>1. SchemaTypeOK
  BY SchemaInitial DEF Init, SchemaInv
<1>2. attempt \in [Attempts -> Attempt] /\ \A a \in Attempts : attempt[a].pc = "idle" /\ attempt[a].at = 1
  BY TableShape DEF Init, Attempt
<1>3. walk \in Walk /\ rows = {} /\ blob = None
  BY DEF Init, NoWalk, Walk
<1>4. \A i \in DOMAIN Tables : ~ (i < 1)
  BY TableShape
<1>. QED BY <1>1, <1>2, <1>3, <1>4 DEF IngestInv, IngestTypeOK

(* The last insert finds every column only in a schema at head.            *)
LEMMA MetricsNeedHead ==
  ASSUME SchemaInv, Exists("scan_metrics", "verified_secret_count")
  PROVE  effect = Statements
<1>1. <<2, 3>> \in effect
  BY Order DEF SchemaInv, SchemaTypeOK, Exists
<1>2. ASSUME NEW k \in Statements PROVE k = <<2, 3>> \/ Before(k, <<2, 3>>)
  BY Shape DEF Before
<1>. QED BY <1>1, <1>2 DEF SchemaInv, SchemaTypeOK

LEMMA IngestStepInv ==
  ASSUME SchemaInv, SchemaInv', IngestInv, [Next]_vars PROVE IngestInv'
<1>. DEFINE InOrder(a) ==
       /\ attempt[a].pc = "insert" \/ attempt[a].at > 1 => blob # None
       /\ \A i \in DOMAIN Tables : i < attempt[a].at /\ HasRows(a, Tables[i]) => <<Tables[i], a>> \in rows
       /\ <<"scan_metrics", a>> \in rows => attempt[a].at = 6 /\ effect = Statements
<1>1. SchemaTypeOK' /\ IngestTypeOK /\ \A a \in Attempts : attempt[a] \in Attempt /\ InOrder(a)
  BY DEF SchemaInv, IngestInv, IngestTypeOK
<1>2. CASE SchemaNext /\ UNCHANGED <<ingestVars, walk>>
  <2>1. effect = Statements => effect' = Statements
    BY <1>1, <1>2 DEF IngestTypeOK, SchemaTypeOK, SchemaNext, ApplierStep, ReadVersions, Execute,
                      StatementFails, RecordVersion, Finish, Killed
  <2>. QED BY <1>1, <1>2, <2>1 DEF IngestInv, IngestTypeOK, ingestVars, HasRows
<1>3. ASSUME NEW a \in Attempts, IngestStep(a), UNCHANGED schemaVars PROVE IngestInv'
  <2>0. UNCHANGED effect /\ attempt[a] \in Attempt /\ InOrder(a)
    BY <1>1, <1>3 DEF schemaVars
  <2>. HIDE DEF InOrder
  (* The attempt after the step, and that the others are left alone.       *)
  <2>1. ASSUME NEW new \in Attempt, attempt' = [attempt EXCEPT ![a] = new],
               blob' \in Attempts \cup {None}, blob # None => blob' # None,
               rows \subseteq rows', \A t, b : <<t, b>> \in rows' \ rows => b = a,
               rows' \subseteq {Tables[i] : i \in DOMAIN Tables} \X Attempts,
               walk' \in Walk, InOrder(a)'
        PROVE  IngestInv'
    <3>1. IngestTypeOK'
      BY <1>1, <2>1 DEF IngestTypeOK
    <3>2. ASSUME NEW b \in Attempts \ {a} PROVE InOrder(b)'
      <4>1. attempt'[b] = attempt[b] /\ InOrder(b)
        BY <1>1, <2>1 DEF IngestTypeOK
      <4>. QED BY <2>0, <2>1, <4>1 DEF InOrder, HasRows
    <3>. QED BY <2>1, <3>1, <3>2 DEF IngestInv, InOrder
  <2>2. CASE BeginIngest(a) \/ EndIngest(a) \/ IngestFails(a)
    <3>1. PICK pc \in {"upload", "done", "failed"} :
            /\ attempt' = [attempt EXCEPT ![a].pc = pc] /\ UNCHANGED <<blob, rows, walk>>
      BY <2>2 DEF BeginIngest, EndIngest, IngestFails
    <3>2. [attempt[a] EXCEPT !.pc = pc] \in Attempt
      BY <2>0 DEF Attempt
    <3>3. InOrder(a)'
      BY <1>1, <2>0, <3>1 DEF InOrder, HasRows, IngestTypeOK, Attempt
    <3>. QED BY <1>1, <2>1, <3>1, <3>2, <3>3 DEF IngestTypeOK
  <2>3. CASE Upload(a)
    <3>1. blob' = a /\ UNCHANGED <<rows, walk>> /\ attempt' = [attempt EXCEPT ![a].pc = "insert"]
      BY <2>3 DEF Upload
    <3>2. [attempt[a] EXCEPT !.pc = "insert"] \in Attempt
      BY <2>0 DEF Attempt
    <3>3. InOrder(a)'
      BY <1>1, <2>0, <3>1, NoneAssumption DEF InOrder, HasRows, IngestTypeOK, Attempt
    <3>. QED BY <1>1, <2>1, <3>1, <3>2, <3>3, NoneAssumption DEF IngestTypeOK
  <2>4. CASE Insert(a)
    <3>. DEFINE n == attempt[a].at
    <3>1. /\ attempt[a].pc = "insert" /\ n \in 1 .. 5 /\ TableOf(a) = Tables[n]
          /\ attempt' = [attempt EXCEPT ![a].at = @ + 1] /\ blob' = blob
      BY <2>0, <2>4, TableShape DEF Insert, TableOf, Attempt
    <3>2. [attempt[a] EXCEPT !.at = @ + 1] \in Attempt
      BY <2>0, <3>1, TableShape DEF Attempt
    <3>3. \/ /\ HasRows(a, Tables[n]) /\ rows' = rows \cup {<<Tables[n], a>>}
             /\ \A c \in Columns(Tables[n]) : Exists(Tables[n], c)
             /\ walk' \in {walk, NoWalk}
          \/ ~ HasRows(a, Tables[n]) /\ UNCHANGED <<rows, walk>>
      BY <2>4, <3>1 DEF Insert
    <3>4. walk' \in Walk
      BY <1>1, <3>3 DEF IngestTypeOK, NoWalk, Walk
    <3>5. attempt'[a] = [attempt[a] EXCEPT !.at = @ + 1] /\ attempt'[a].has = attempt[a].has
          /\ attempt'[a].at = n + 1
      BY <1>1, <2>0, <3>1 DEF IngestTypeOK, Attempt
    <3>6. ASSUME NEW i \in DOMAIN Tables, i < attempt'[a].at, HasRows(a, Tables[i])'
          PROVE  <<Tables[i], a>> \in rows'
      <4>1. i < n \/ i = n
        BY <3>1, <3>5, <3>6, TableShape
      <4>2. HasRows(a, Tables[i])
        BY <3>5, <3>6 DEF HasRows
      <4>. QED BY <2>0, <3>3, <4>1, <4>2 DEF InOrder
    <3>7. ASSUME <<"scan_metrics", a>> \in rows' PROVE attempt'[a].at = 6 /\ effect' = Statements
      <4>1. <<"scan_metrics", a>> \notin rows
        BY <2>0, <3>1 DEF InOrder
      <4>2. Tables[n] = "scan_metrics" /\ n = 5
        BY <3>1, <3>3, <3>7, <4>1, TableShape
      <4>3. Exists("scan_metrics", "verified_secret_count")
        BY <3>3, <3>7, <4>1, <4>2 DEF Columns
      <4>. QED BY <2>0, <3>5, <4>2, <4>3, MetricsNeedHead
    <3>8. InOrder(a)'
      BY <2>0, <3>1, <3>6, <3>7 DEF InOrder
    <3>9. rows \subseteq rows' /\ (\A t, b : <<t, b>> \in rows' \ rows => b = a)
          /\ rows' \subseteq {Tables[i] : i \in DOMAIN Tables} \X Attempts
      BY <1>1, <3>1, <3>3, TableShape DEF IngestTypeOK
    <3>. QED BY <1>1, <2>1, <3>1, <3>2, <3>4, <3>8, <3>9 DEF IngestTypeOK
  <2>. QED BY <1>3, <2>2, <2>3, <2>4 DEF IngestStep
<1>4. CASE WalkStep /\ UNCHANGED <<schemaVars, ingestVars>>
  <2>1. walk \in Walk /\ Stored \subseteq Row
    BY <1>1 DEF IngestTypeOK, Stored
  <2>2. walk' \in Walk
    <3>1. CASE StartWalk \/ EndWalk
      BY <2>1, <3>1 DEF StartWalk, EndWalk, Walk
    <3>2. CASE ReadPage
      <4>1. PICK page \in SUBSET Stored :
              walk' = [walk EXCEPT !.offset = @ + Cardinality(page),
                                   !.got = [x \in Row |-> @[x] + (IF x \in page THEN 1 ELSE 0)]]
        BY <3>2 DEF ReadPage
      <4>2. walk.offset + Cardinality(page) \in Nat
        BY <2>1, FinitePages DEF Walk
      <4>3. [x \in Row |-> walk.got[x] + (IF x \in page THEN 1 ELSE 0)] \in [Row -> Nat]
        BY <2>1 DEF Walk
      <4>. QED BY <2>1, <4>1, <4>2, <4>3 DEF Walk
    <3>. QED BY <1>4, <3>1, <3>2 DEF WalkStep
  <2>. QED BY <1>1, <1>4, <2>2 DEF IngestInv, IngestTypeOK, ingestVars, schemaVars, HasRows
<1>5. CASE UNCHANGED vars
  BY <1>1, <1>5 DEF IngestInv, IngestTypeOK, vars, ingestVars, schemaVars, HasRows
<1>. QED BY <1>2, <1>3, <1>4, <1>5 DEF Next

LEMMA IngestInvariant == Spec => []IngestInv
<1>1. SchemaInv /\ SchemaInv' /\ IngestInv /\ [Next]_vars => IngestInv'
  BY IngestStepInv
<1>. QED BY <1>1, IngestInit, SchemaInvariant, PTL DEF Spec

(* The schema, the ingests and the pages have their types.                 *)
THEOREM IngestTypeCorrect == Spec => []IngestTypeOK
<1>1. IngestInv => IngestTypeOK
  BY DEF IngestInv
<1>. QED BY <1>1, IngestInvariant, PTL

(* Who finds the scan_metrics row of an ingest may rely on everything else *)
(* it had to store.                                                        *)
THEOREM MetricsAreLast == Spec => []MetricsMeanComplete
<1>1. IngestInv => MetricsMeanComplete
  <2>. SUFFICES ASSUME IngestInv, NEW a \in Attempts, <<"scan_metrics", a>> \in rows
                PROVE  /\ effect = Statements /\ blob # None
                       /\ \A i \in DOMAIN Tables : HasRows(a, Tables[i]) => <<Tables[i], a>> \in rows
    BY DEF MetricsMeanComplete
  <2>1. attempt[a].at = 6 /\ effect = Statements /\ blob # None
    BY DEF IngestInv
  <2>2. \A i \in DOMAIN Tables : i < 6
    BY TableShape
  <2>. QED BY <2>1, <2>2 DEF IngestInv
<1>. QED BY <1>1, IngestInvariant, PTL
--------------------------------------------------------------------------------
(* The contract ScanOrchestration relies on.                               *)

Metered == {a \in Attempts : <<"scan_metrics", a>> \in rows}

(* The metrics are never skipped and come last, so they tell which ingests *)
(* are complete.                                                           *)
LEMMA CompleteIsMetered == IngestInv => Complete = Metered
<1>. SUFFICES ASSUME IngestInv, NEW a \in Attempts PROVE a \in Complete <=> a \in Metered
  BY DEF Complete, Metered
<1>1. ASSUME a \in Complete PROVE a \in Metered
  <2>1. 5 \in DOMAIN Tables /\ HasRows(a, Tables[5])
    BY TableShape DEF HasRows, Optional
  <2>. QED BY <1>1, <2>1, TableShape DEF Complete, Metered
<1>2. ASSUME a \in Metered PROVE a \in Complete
  <2>1. attempt[a].at = 6
    BY <1>2 DEF Metered, IngestInv
  <2>2. \A i \in DOMAIN Tables : i < attempt[a].at
    BY <2>1, TableShape
  <2>. QED BY <2>2 DEF Complete, IngestInv
<1>. QED BY <1>1, <1>2

ReporterOf == [a \in Attempts |-> attempt[a].pc]

LEMMA ContractStep ==
  ASSUME IngestInv, IngestInv', [Next]_vars
  PROVE  \/ UNCHANGED <<ReporterOf, blob # None, Complete>>
         \/ Contract!ContractNext
<1>. DEFINE unchanged == UNCHANGED <<ReporterOf, blob # None, Complete>>
<1>1. IngestTypeOK /\ attempt \in [Attempts -> Attempt]
  BY DEF IngestInv, IngestTypeOK
<1>2. Complete = Metered /\ Complete' = Metered'
  <2>1. (IngestInv => Complete = Metered)'
    BY CompleteIsMetered, PTL
  <2>. QED BY <2>1, CompleteIsMetered
<1>3. ASSUME UNCHANGED ingestVars PROVE unchanged
  BY <1>2, <1>3 DEF ingestVars, ReporterOf, Metered
<1>4. ASSUME NEW a \in Attempts, IngestStep(a) PROVE unchanged \/ Contract!ContractNext
  <2>1. ASSUME NEW pc, attempt' = [attempt EXCEPT ![a].pc = pc]
        PROVE  ReporterOf[a] = attempt[a].pc /\ ReporterOf' = [ReporterOf EXCEPT ![a] = pc]
    BY <1>1, <2>1 DEF ReporterOf, Attempt
  <2>2. CASE BeginIngest(a)
    <3>1. ReporterOf[a] = "idle" /\ ReporterOf' = [ReporterOf EXCEPT ![a] = "upload"] /\ UNCHANGED <<blob, Complete>>
      BY <1>2, <2>1, <2>2 DEF BeginIngest, Metered
    <3>. QED BY <3>1 DEF ReporterOf, Contract!ContractNext, Contract!ReadArtifacts, Contract!Goto
  <2>3. CASE Upload(a)
    <3>1. /\ ReporterOf[a] = "upload" /\ ReporterOf' = [ReporterOf EXCEPT ![a] = "insert"]
          /\ blob' # None /\ UNCHANGED Complete
      BY <1>2, <2>1, <2>3, NoneAssumption DEF Upload, Metered
    <3>. QED BY <3>1 DEF ReporterOf, Contract!ContractNext, Contract!UploadSbom, Contract!Goto
  <2>4. CASE Insert(a)
    <3>1. UNCHANGED blob /\ attempt[a].pc = "insert" /\ UNCHANGED ReporterOf
      BY <1>1, <2>4 DEF Insert, ReporterOf, Attempt
    <3>2. Metered' = Metered \/ Metered' = Metered \cup {a}
      BY <2>4 DEF Insert, Metered
    <3>3. blob # None /\ ReporterOf[a] = "insert"
      BY <3>1 DEF IngestInv, ReporterOf
    <3>4. CASE Metered' = Metered
      BY <1>2, <3>1, <3>4
    <3>5. CASE Metered' = Metered \cup {a}
      BY <1>2, <3>1, <3>3, <3>5 DEF ReporterOf, Contract!ContractNext, Contract!InsertRows
    <3>. QED BY <3>2, <3>4, <3>5
  <2>5. CASE EndIngest(a)
    <3>1. /\ ReporterOf[a] = "insert" /\ ReporterOf' = [ReporterOf EXCEPT ![a] = "done"]
          /\ UNCHANGED <<blob, Complete>>
      BY <1>2, <2>1, <2>5 DEF EndIngest, Metered
    <3>2. \A i \in DOMAIN Tables : i < attempt[a].at
      BY <1>1, <2>5, TableShape DEF EndIngest, Attempt
    <3>3. a \in Complete
      BY <3>2 DEF Complete, IngestInv
    <3>. QED BY <3>1, <3>3 DEF ReporterOf, Contract!ContractNext, Contract!Succeed, Contract!Goto
  <2>6. CASE IngestFails(a)
    <3>1. /\ ReporterOf[a] \in {"upload", "insert"} /\ ReporterOf' = [ReporterOf EXCEPT ![a] = "failed"]
          /\ UNCHANGED <<blob, Complete>>
      BY <1>2, <2>1, <2>6 DEF IngestFails, Metered
    <3>. QED BY <3>1 DEF ReporterOf, Contract!ContractNext, Contract!IngestFails, Contract!Goto
  <2>. QED BY <1>4, <2>2, <2>3, <2>4, <2>5, <2>6 DEF IngestStep
<1>. QED BY <1>3, <1>4 DEF Next, vars

(* The six calls of an ingest, each failing by itself beside the calls of  *)
(* another, are the upload and the insert ScanOrchestration takes them for. *)
THEOREM IngestKeepsContract == Spec => ImplementsContract
<1>1. Init => Contract!ContractInit
  <2>. SUFFICES ASSUME Init PROVE Contract!ContractInit
    OBVIOUS
  <2>1. Complete = {}
    BY IngestInit, CompleteIsMetered DEF Init, Metered
  <2>2. \A a \in Attempts : attempt[a].pc = "idle"
    BY DEF Init
  <2>. QED BY <2>1, <2>2 DEF Init, Contract!ContractInit
<1>2. IngestInv /\ IngestInv' /\ [Next]_vars => [Contract!ContractNext]_(Contract!contractVars)
  BY ContractStep DEF Contract!contractVars, ReporterOf
<1>. QED BY <1>1, <1>2, IngestInvariant, PTL DEF Spec, ImplementsContract, Contract!ContractSpec

--------------------------------------------------------------------------------
(* What a client has seen of the rows of one severity and CVE.             *)

Below(k) == {y \in Stored : SortKey[y[2]] < k}
Tied(k)  == {y \in Stored : SortKey[y[2]] = k}
Seen(k)  == {y \in Tied(k) : walk.got[y] >= 1}

(* How many rows of key k are among the first n rows of a sorted result.   *)
Taken(n, k) ==
  IF n <= Cardinality(Below(k)) THEN 0
  ELSE IF n <= Cardinality(Below(k)) + Cardinality(Tied(k)) THEN n - Cardinality(Below(k))
  ELSE Cardinality(Tied(k))

(* Pages may repeat rows of one key, but while they have not, the rows     *)
(* seen are as many as the offset has passed.                              *)
WalkInv ==
  /\ walk.pc = "idle" => walk = NoWalk
  /\ walk.pc = "over" => walk.offset >= Cardinality(Stored)
  /\ \A k \in Nat : (\A y \in Tied(k) : walk.got[y] <= 1) =>
       Cardinality(Seen(k)) = Taken(walk.offset, k)

LEMMA DisjointUnion ==
  ASSUME NEW A, IsFiniteSet(A), NEW B, IsFiniteSet(B), A \cap B = {}
  PROVE  /\ IsFiniteSet(A \cup B)
         /\ Cardinality(A) \in Nat /\ Cardinality(B) \in Nat
         /\ Cardinality(A \cup B) = Cardinality(A) + Cardinality(B)
<1>1. Cardinality(A) \in Nat /\ Cardinality(B) \in Nat
  BY FS_CardinalityType
<1>2. /\ IsFiniteSet(A \cup B)
      /\ Cardinality(A \cup B) = Cardinality(A) + Cardinality(B) - Cardinality(A \cap B)
  BY FS_Union
<1>3. Cardinality(A \cap B) = 0
  BY FS_EmptySet
<1>. QED BY <1>1, <1>2, <1>3

LEMMA StoredIsFinite ==
  /\ IsFiniteSet(Stored)
  /\ \A A \in SUBSET Stored : IsFiniteSet(A) /\ Cardinality(A) \in Nat
<1>1. IsFiniteSet(Row) /\ Stored \in SUBSET Row
  BY FiniteAssumption, FS_Product DEF Row, Stored
<1>2. IsFiniteSet(Stored)
  BY <1>1, FS_Subset
<1>. QED BY <1>2, FS_Subset, FS_CardinalityType

LEMMA KeysAreNumbers == \A y \in Stored : SortKey[y[2]] \in Nat
  BY SortAssumption DEF Stored, Row

(* However rows of one key are ordered, the first rows of a sorted result  *)
(* hold the same number of them.                                           *)
LEMMA PrefixTakes ==
  ASSUME NEW A \in SUBSET Stored, Sorted(A, Stored \ A), NEW k \in Nat
  PROVE  Cardinality(A \cap Tied(k)) = Taken(Cardinality(A), k)
<1>. DEFINE L == Below(k)
            E == Tied(k)
<1>1. L \in SUBSET Stored /\ E \in SUBSET Stored /\ A \cap E \in SUBSET Stored /\ L \cap E = {}
  BY KeysAreNumbers DEF Below, Tied
<1>2. /\ IsFiniteSet(A) /\ IsFiniteSet(L) /\ IsFiniteSet(E) /\ IsFiniteSet(A \cap E)
      /\ Cardinality(A) \in Nat /\ Cardinality(L) \in Nat /\ Cardinality(E) \in Nat
      /\ Cardinality(A \cap E) \in Nat
  BY <1>1, StoredIsFinite
<1>3. IsFiniteSet(L \cup E) /\ Cardinality(L \cup E) = Cardinality(L) + Cardinality(E)
  BY <1>1, <1>2, DisjointUnion
<1>4. /\ \A y \in L : SortKey[y[2]] < k
      /\ \A y \in E : SortKey[y[2]] = k
      /\ \A y \in Stored : y \notin L /\ y \notin E => SortKey[y[2]] > k
  BY KeysAreNumbers DEF Below, Tied
<1>. HIDE DEF L, E
(* The prefix reaches past the key: it holds all of its rows.              *)
<1>5. CASE \E x \in A : SortKey[x[2]] > k
  <2>1. L \cup E \subseteq A
    <3>. SUFFICES ASSUME NEW y \in L \cup E, y \notin A PROVE FALSE
      OBVIOUS
    <3>1. PICK x \in A : SortKey[x[2]] > k
      BY <1>5
    <3>2. SortKey[x[2]] <= SortKey[y[2]] /\ SortKey[x[2]] \in Nat /\ SortKey[y[2]] \in Nat
      BY <1>1, <3>1, KeysAreNumbers DEF Sorted
    <3>3. SortKey[y[2]] <= k
      BY <1>4, <3>2
    <3>. QED BY <3>1, <3>2, <3>3
  <2>2. A \cap E = E
    BY <2>1
  <2>3. Cardinality(L) + Cardinality(E) <= Cardinality(A)
    BY <1>2, <1>3, <2>1, FS_Subset
  <2>4. Taken(Cardinality(A), k) = Cardinality(E)
    BY <1>2, <2>3 DEF Taken, L, E
  <2>. QED BY <2>2, <2>4 DEF E
(* It stops before the key.                                                *)
<1>6. CASE \E y \in Stored \ A : SortKey[y[2]] < k
  <2>1. A \subseteq L
    <3>. SUFFICES ASSUME NEW x \in A, x \notin L PROVE FALSE
      OBVIOUS
    <3>1. PICK y \in Stored \ A : SortKey[y[2]] < k
      BY <1>6
    <3>2. SortKey[x[2]] <= SortKey[y[2]] /\ SortKey[x[2]] \in Nat /\ SortKey[y[2]] \in Nat
      BY <3>1, KeysAreNumbers DEF Sorted
    <3>3. k <= SortKey[x[2]]
      BY <1>4, <3>2
    <3>. QED BY <3>1, <3>2, <3>3
  <2>2. A \cap E = {} /\ Cardinality(A) <= Cardinality(L)
    BY <1>1, <1>2, <2>1, FS_Subset
  <2>3. Taken(Cardinality(A), k) = 0
    BY <1>2, <2>2 DEF Taken, L
  <2>. QED BY <2>2, <2>3, FS_EmptySet DEF E
(* It ends among the rows of the key.                                      *)
<1>7. CASE /\ ~ \E x \in A : SortKey[x[2]] > k
           /\ ~ \E y \in Stored \ A : SortKey[y[2]] < k
  <2>1. L \subseteq A /\ A = L \cup (A \cap E)
    BY <1>1, <1>4, <1>7
  <2>2. L \cap (A \cap E) = {}
    BY <1>1
  <2>3. Cardinality(A) = Cardinality(L) + Cardinality(A \cap E)
    BY <1>2, <2>1, <2>2, DisjointUnion
  <2>4. Cardinality(A \cap E) <= Cardinality(E)
    BY <1>2, FS_Subset
  <2>5. Taken(Cardinality(A), k) = Cardinality(A \cap E)
    BY <1>2, <2>3, <2>4 DEF Taken, L, E
  <2>. QED BY <2>5 DEF E
<1>. QED BY <1>5, <1>6, <1>7

(* A walk that starts over has seen nothing, and owes nothing.             *)
LEMMA NothingSeenYet == walk = NoWalk => WalkInv
<1>. SUFFICES ASSUME walk = NoWalk PROVE WalkInv
  OBVIOUS
<1>1. walk.pc = "idle" /\ walk.offset = 0 /\ \A y \in Stored : walk.got[y] = 0
  BY DEF NoWalk, Stored
<1>2. ASSUME NEW k \in Nat PROVE Cardinality(Seen(k)) = Taken(walk.offset, k)
  <2>1. Seen(k) = {}
    BY <1>1 DEF Seen, Tied
  <2>2. Below(k) \in SUBSET Stored
    BY DEF Below
  <2>3. Cardinality(Below(k)) \in Nat
    BY <2>2, StoredIsFinite
  <2>. QED BY <1>1, <2>1, <2>3, FS_EmptySet DEF Taken
<1>. QED BY <1>1, <1>2 DEF WalkInv

(* A page adds to every key what its rows add to the prefix.               *)
LEMMA PageAdvances ==
  ASSUME walk \in Walk, WalkInv, ReadPage, UNCHANGED rows PROVE WalkInv'
<1>1. PICK page \in SUBSET Stored :
        /\ Page(walk.offset, page)
        /\ walk' = [walk EXCEPT !.offset = @ + Cardinality(page),
                               !.got = [x \in Row |-> @[x] + (IF x \in page THEN 1 ELSE 0)]]
  BY DEF ReadPage
<1>2. PICK head \in SUBSET (Stored \ page) :
        /\ Cardinality(head) = walk.offset
        /\ Sorted(head, page)
        /\ Sorted(head \cup page, Stored \ (head \cup page))
  BY <1>1 DEF Page
<1>3. walk.pc = "reading" /\ walk.offset \in Nat /\ walk.got \in [Row -> Nat]
  BY DEF Walk, ReadPage
<1>4. /\ walk'.pc = "reading" /\ walk'.offset = walk.offset + Cardinality(page)
      /\ \A y \in Stored : walk'.got[y] = walk.got[y] + (IF y \in page THEN 1 ELSE 0)
  BY <1>1, <1>3 DEF Walk, Stored
<1>5. Stored' = Stored /\ \A k : Below(k)' = Below(k) /\ Tied(k)' = Tied(k)
  BY DEF Stored, Below, Tied
(* Both the rows before the page and those up to its end are prefixes.     *)
<1>6. /\ head \in SUBSET Stored /\ head \cup page \in SUBSET Stored
      /\ Sorted(head, Stored \ head)
      /\ Sorted(head \cup page, Stored \ (head \cup page))
  BY <1>2 DEF Sorted
<1>7. Cardinality(head \cup page) = walk'.offset
  BY <1>2, <1>4, StoredIsFinite, DisjointUnion
<1>8. ASSUME NEW k \in Nat, \A y \in Tied(k) : walk'.got[y] <= 1
      PROVE  Cardinality(Seen(k)') = Taken(walk'.offset, k)
  <2>1. \A y \in Tied(k) : y \in Stored /\ walk.got[y] \in Nat /\ walk'.got[y] \in Nat
    <3>. SUFFICES ASSUME NEW y \in Tied(k) PROVE y \in Stored /\ walk.got[y] \in Nat /\ walk'.got[y] \in Nat
      OBVIOUS
    <3>1. y \in Stored /\ y \in Row
      BY DEF Tied, Stored
    <3>. QED BY <1>3, <1>4, <3>1
  <2>2. (\A y \in Tied(k) : walk.got[y] <= 1) /\ Seen(k) \cap page = {}
    BY <1>4, <1>8, <2>1 DEF Seen
  <2>3. Cardinality(Seen(k)) = Cardinality(head \cap Tied(k))
    BY <1>2, <1>6, <2>2, PrefixTakes DEF WalkInv
  <2>4. Seen(k)' = Seen(k) \cup (page \cap Tied(k))
    BY <1>4, <1>5, <2>1 DEF Seen
  <2>5. (head \cup page) \cap Tied(k) = (head \cap Tied(k)) \cup (page \cap Tied(k))
    OBVIOUS
  <2>6. /\ Seen(k) \in SUBSET Stored /\ head \cap Tied(k) \in SUBSET Stored
        /\ page \cap Tied(k) \in SUBSET Stored
        /\ Seen(k) \cap (page \cap Tied(k)) = {}
        /\ (head \cap Tied(k)) \cap (page \cap Tied(k)) = {}
    BY <2>1, <2>2 DEF Seen
  <2>7. Cardinality(Seen(k)') = Cardinality(Seen(k)) + Cardinality(page \cap Tied(k))
    BY <2>4, <2>6, StoredIsFinite, DisjointUnion
  <2>8. Cardinality((head \cup page) \cap Tied(k))
          = Cardinality(head \cap Tied(k)) + Cardinality(page \cap Tied(k))
    BY <2>5, <2>6, StoredIsFinite, DisjointUnion
  <2>9. Cardinality((head \cup page) \cap Tied(k)) = Taken(walk'.offset, k)
    BY <1>6, <1>7, PrefixTakes
  <2>. QED BY <2>3, <2>7, <2>8, <2>9
<1>. QED BY <1>4, <1>5, <1>8 DEF WalkInv, Taken

LEMMA WalkStepInv ==
  ASSUME IngestInv, WalkInv, [Next]_vars PROVE WalkInv'
<1>1. walk \in Walk
  BY DEF IngestInv, IngestTypeOK
<1>2. ASSUME UNCHANGED <<rows, walk>> PROVE WalkInv'
  BY <1>2 DEF WalkInv, Stored, Seen, Tied, Below, Taken
<1>3. ASSUME NEW a \in Attempts, Insert(a) PROVE WalkInv'
  <2>1. CASE walk' = NoWalk
    <3>1. (walk = NoWalk)' => WalkInv'
      BY NothingSeenYet, PTL
    <3>. QED BY <2>1, <3>1
  <2>2. CASE walk' = walk /\ rows' = rows \cup {<<TableOf(a), a>>} /\ TableOf(a) # "findings"
    <3>1. Stored' = Stored
      BY <2>2 DEF Stored
    <3>. QED BY <2>2, <3>1 DEF WalkInv, Seen, Tied, Below, Taken
  <2>. QED BY <1>2, <1>3, <2>1, <2>2 DEF Insert
<1>4. ASSUME NEW a \in Attempts, IngestStep(a), ~ Insert(a) PROVE WalkInv'
  BY <1>2, <1>4 DEF IngestStep, BeginIngest, Upload, EndIngest, IngestFails
<1>5. ASSUME StartWalk \/ EndWalk, UNCHANGED rows PROVE WalkInv'
  <2>1. /\ walk'.offset = walk.offset /\ walk'.got = walk.got /\ Stored' = Stored
        /\ walk'.pc = "reading" \/ (walk'.pc = "over" /\ walk.offset >= Cardinality(Stored))
    BY <1>1, <1>5 DEF StartWalk, EndWalk, Walk, Stored
  <2>. QED BY <2>1 DEF WalkInv, Seen, Tied, Below, Taken
<1>6. ASSUME ReadPage, UNCHANGED rows PROVE WalkInv'
  BY <1>1, <1>6, PageAdvances
<1>. QED BY <1>2, <1>3, <1>4, <1>5, <1>6 DEF Next, WalkStep, vars, ingestVars

(* A client that read to the last page misses a row only to a row of the   *)
(* same severity and CVE that it got twice, for every number of findings,  *)
(* every page size and every order the database picks among equals.        *)
THEOREM OnlyTiesMissed == Spec => []OnlyTiesAreMissed
<1>1. Init => WalkInv
  BY NothingSeenYet DEF Init
<1>2. IngestInv /\ WalkInv /\ [Next]_vars => WalkInv'
  BY WalkStepInv
<1>3. IngestInv /\ WalkInv => OnlyTiesAreMissed
  <2>. SUFFICES ASSUME IngestInv, WalkInv, walk.pc = "over",
                       NEW x \in Stored, walk.got[x] = 0
                PROVE  \E y \in Stored : walk.got[y] > 1 /\ SortKey[y[2]] = SortKey[x[2]]
    BY DEF OnlyTiesAreMissed
  <2>. DEFINE k == SortKey[x[2]]
  <2>1. k \in Nat /\ x \in Tied(k)
    BY KeysAreNumbers DEF Tied
  <2>. HIDE DEF k
  <2>2. walk.offset \in Nat /\ \A y \in Stored : walk.got[y] \in Nat
    BY DEF IngestInv, IngestTypeOK, Walk, Stored
  <2>3. /\ Below(k) \in SUBSET Stored /\ Tied(k) \in SUBSET Stored
        /\ Below(k) \cup Tied(k) \in SUBSET Stored /\ Seen(k) \in SUBSET Tied(k)
        /\ Below(k) \cap Tied(k) = {}
    BY <2>1, KeysAreNumbers DEF Below, Tied, Seen
  <2>4. /\ Cardinality(Below(k)) \in Nat /\ Cardinality(Tied(k)) \in Nat
        /\ Cardinality(Below(k)) + Cardinality(Tied(k)) <= Cardinality(Stored)
        /\ Cardinality(Stored) \in Nat
    <3>1. /\ IsFiniteSet(Below(k)) /\ IsFiniteSet(Tied(k)) /\ IsFiniteSet(Stored)
          /\ Cardinality(Below(k)) \in Nat /\ Cardinality(Tied(k)) \in Nat /\ Cardinality(Stored) \in Nat
      BY <2>3, StoredIsFinite
    <3>2. Cardinality(Below(k) \cup Tied(k)) = Cardinality(Below(k)) + Cardinality(Tied(k))
      BY <2>3, <3>1, DisjointUnion
    <3>3. Cardinality(Below(k) \cup Tied(k)) <= Cardinality(Stored)
      BY <2>3, <3>1, FS_Subset
    <3>. QED BY <3>1, <3>2, <3>3
  <2>5. Taken(walk.offset, k) = Cardinality(Tied(k))
    BY <2>2, <2>4 DEF Taken, WalkInv
  <2>6. ASSUME \A y \in Tied(k) : walk.got[y] <= 1 PROVE FALSE
    <3>1. Cardinality(Seen(k)) = Cardinality(Tied(k))
      BY <2>1, <2>5, <2>6 DEF WalkInv
    <3>2. Seen(k) = Tied(k)
      BY <2>3, <3>1, StoredIsFinite, FS_Subset
    <3>. QED BY <2>1, <3>2 DEF Seen
  <2>7. PICK y \in Tied(k) : ~ (walk.got[y] <= 1)
    BY <2>6
  <2>. QED BY <2>2, <2>3, <2>7 DEF Tied, k
<1>. QED BY <1>1, <1>2, <1>3, IngestInvariant, PTL DEF Spec
================================================================================
