--------------------------- MODULE SourceConnections ---------------------------
(***************************************************************************)
(* The rows of one organisation that requests for scans, webhook deliveries *)
(* and administrators share: source_connections, repositories and          *)
(* webhook_deliveries; and the routes that create, delete and rekey a      *)
(* connection.  ScanTargets and WebhookIntake add the other two parties.   *)
(*                                                                         *)
(* A request is one READ COMMITTED transaction.  What it flushes before it *)
(* commits (own) is invisible to the others, but a second INSERT of the    *)
(* same unique key waits for it, and so does the DELETE of a row that a    *)
(* flushed row refers to.                                                  *)
(***************************************************************************)
EXTENDS Naturals

CONSTANTS
  Connections,    \* ids of source_connections rows, each used at most once
  Providers,
  Hosts,          \* hosts of clone URLs and of connections
  BaseHosts,      \* those a base URL may name
  Names,          \* names of connections
  FullNames,      \* owner/repo, derived from a clone URL
  DeliveryIds,    \* the providers' delivery ids
  Requests,       \* requests in flight at a time
  CloudHost,      \* the public host of a provider
  GuessProvider,  \* _provider_for_host
  DefaultName,    \* the name default-{provider}
  None            \* no row, no value: NULL

ASSUME NamingAssumption ==
  /\ CloudHost \in [Providers -> Hosts]
  /\ BaseHosts \subseteq Hosts
  /\ GuessProvider \in [Hosts -> Providers]
  /\ DefaultName \in [Providers -> Names]
ASSUME NullAssumption  ==
  None \notin Connections \cup Providers \cup Hosts \cup Names \cup FullNames
              \cup (Providers \X DeliveryIds)

VARIABLES
  conn,      \* source_connections, by id
  repo,      \* repositories, by full_name: unique in the org
  stored,    \* webhook_deliveries: the keys that have a row
  sender,    \* webhook_deliveries: source_connection_id of the row of a key
  req,       \* the requests in flight
  accepts,   \* history: rows committed for a key
  acked,     \* history: keys that were answered accepted or duplicate
  unsaved    \* history: keys whose commit failed after the answer was sent

vars == <<conn, repo, stored, sender, req, accepts, acked, unsaved>>
deliveryVars == <<stored, sender, accepts, acked, unsaved>>

Keys == Providers \X DeliveryIds      \* unique (source, delivery_id)

(* keyed: a webhook secret has been minted.                                *)
Unused == [st |-> "unused", name |-> None, provider |-> None, base |-> None, keyed |-> FALSE]
Deleted == [Unused EXCEPT !.st = "deleted"]
Connection == {Unused, Deleted} \cup
  [st: {"live"}, name: Names, provider: Providers,
   base: BaseHosts \cup {None}, keyed: BOOLEAN]

Repository == [conn: Connections, host: Hosts]

ScanPhases  == {"fallback", "no_default", "sourced", "missing", "registered"}
AdminPhases == {"counted"}
HookPhases  == {"verified", "new", "answered"}

Request ==
  [phase : {"idle"} \cup ScanPhases \cup AdminPhases \cup HookPhases,
   conn  : Connections \cup {None},   \* the connection it works with
   host  : Hosts \cup {None},         \* of the clone URL
   name  : FullNames \cup {None},     \* of the clone URL
   key   : Keys \cup {None},          \* of the delivery
   own   : SUBSET {"conn", "repo", "delivery"}]  \* rows flushed, not committed

Idle == [phase |-> "idle", conn |-> None, host |-> None, name |-> None,
         key |-> None, own |-> {}]

TypeOK ==
  /\ conn \in [Connections -> Connection]
  /\ repo \in [FullNames -> Repository \cup {None}]
  /\ stored \subseteq Keys
  /\ sender \in [Keys -> Connections \cup {None}]
  /\ req \in [Requests -> Request]
  /\ accepts \in [Keys -> Nat]
  /\ acked \subseteq Keys
  /\ unsaved \subseteq Keys

Init ==
  /\ conn = [c \in Connections |-> Unused]
  /\ repo = [n \in FullNames |-> None]
  /\ stored = {}
  /\ sender = [k \in Keys |-> None]
  /\ req = [r \in Requests |-> Idle]
  /\ accepts = [k \in Keys |-> 0]
  /\ acked = {}
  /\ unsaved = {}

--------------------------------------------------------------------------------
Live == {c \in Connections : conn[c].st = "live"}

Owns(r, table) == table \in req[r].own

(* An id nobody has given to a row, committed or flushed.                  *)
FreshId(c) ==
  /\ conn[c] = Unused
  /\ \A r \in Requests : ~ (Owns(r, "conn") /\ req[r].conn = c)

(* The name a scan request inserts its fallback connection with.           *)
FallbackName(r) == DefaultName[GuessProvider[req[r].host]]

NameTaken(n)   == \E c \in Live : conn[c].name = n
NameFlushed(n) == \E r \in Requests : Owns(r, "conn") /\ FallbackName(r) = n

Advance(r, next) ==
  /\ req' = [req EXCEPT ![r] = next]
  /\ UNCHANGED <<conn, repo, deliveryVars>>

(* The request is over and has written nothing.                            *)
EndUnchanged(r) == Advance(r, Idle)

--------------------------------------------------------------------------------
(* create_source, delete_source, rotate_webhook_secret.                    *)

(* Mutant: names are checked by the SELECT alone, in the request's view.   *)
CreateSourceUnconstrained(c, n, p, b) ==
  /\ FreshId(c)
  /\ conn' = [conn EXCEPT ![c] = [st |-> "live", name |-> n, provider |-> p,
                                  base |-> b, keyed |-> TRUE]]
  /\ UNCHANGED <<repo, deliveryVars, req>>

(* The SELECT for the name only turns a conflict into a 409; the unique    *)
(* constraint decides, after waiting for a flushed row of the same name.   *)
CreateSource(c, n, p, b) ==
  /\ FreshId(c)
  /\ ~ NameTaken(n) /\ ~ NameFlushed(n)
  /\ conn' = [conn EXCEPT ![c] = [st |-> "live", name |-> n, provider |-> p,
                                  base |-> b, keyed |-> TRUE]]
  /\ UNCHANGED <<repo, deliveryVars, req>>

Referred(c) == \E n \in FullNames : repo[n] # None /\ repo[n].conn = c

CountRepositories(r, c) ==
  /\ req[r].phase = "idle"
  /\ c \in Live
  /\ ~ Referred(c)
  /\ Advance(r, [Idle EXCEPT !.phase = "counted", !.conn = c])

(* The foreign keys decide again at the DELETE: repositories RESTRICT it,  *)
(* webhook_deliveries are detached.  Flushed rows that refer to the        *)
(* connection hold a lock on it until their transaction ends.              *)
LockedByInsert(c) == \E s \in Requests :
  req[s].conn = c /\ (Owns(s, "repo") \/ Owns(s, "delivery"))

(* Mutant: the count is the only protection, the foreign key has no RESTRICT. *)
DeleteSourceCounted(r) ==
  LET c == req[r].conn IN
  /\ req[r].phase = "counted"
  /\ c \in Live
  /\ ~ LockedByInsert(c)
  /\ conn' = [conn EXCEPT ![c] = Deleted]
  /\ sender' = [k \in Keys |-> IF sender[k] = c THEN None ELSE sender[k]]
  /\ req' = [req EXCEPT ![r] = Idle]
  /\ UNCHANGED <<repo, stored, accepts, acked, unsaved>>

(* Mutant: webhook_deliveries are deleted with their connection.           *)
DeleteSourceCascades(r) ==
  LET c == req[r].conn IN
  /\ req[r].phase = "counted"
  /\ c \in Live
  /\ ~ LockedByInsert(c) /\ ~ Referred(c)
  /\ conn' = [conn EXCEPT ![c] = Deleted]
  /\ sender' = [k \in Keys |-> IF sender[k] = c THEN None ELSE sender[k]]
  /\ stored' = {k \in stored : sender[k] # c}
  /\ req' = [req EXCEPT ![r] = Idle]
  /\ UNCHANGED <<repo, accepts, acked, unsaved>>

(* Mutant: flushed rows hold no lock on the connection they refer to.      *)
DeleteSourceUnlocked(r) ==
  LET c == req[r].conn IN
  /\ req[r].phase = "counted"
  /\ c \in Live
  /\ ~ Referred(c)
  /\ conn' = [conn EXCEPT ![c] = Deleted]
  /\ sender' = [k \in Keys |-> IF sender[k] = c THEN None ELSE sender[k]]
  /\ req' = [req EXCEPT ![r] = Idle]
  /\ UNCHANGED <<repo, stored, accepts, acked, unsaved>>

DeleteSource(r) ==
  LET c == req[r].conn IN
  /\ req[r].phase = "counted"
  /\ c \in Live
  /\ ~ LockedByInsert(c) /\ ~ Referred(c)
  /\ conn' = [conn EXCEPT ![c] = Deleted]
  /\ sender' = [k \in Keys |-> IF sender[k] = c THEN None ELSE sender[k]]
  /\ req' = [req EXCEPT ![r] = Idle]
  /\ UNCHANGED <<repo, stored, accepts, acked, unsaved>>

(* The row is loaded, rekeyed and flushed; a row deleted meanwhile is a    *)
(* 500.  A fallback connection gets its first secret this way.             *)
RotateSecret(c) ==
  /\ c \in Live
  /\ conn' = [conn EXCEPT ![c].keyed = TRUE]
  /\ UNCHANGED <<repo, deliveryVars, req>>

(* IntegrityError, or a DELETE that finds no row.                          *)
RefuseAdmin(r) ==
  LET c == req[r].conn IN
  /\ req[r].phase = "counted"
  /\ c \notin Live \/ (Referred(c) /\ ~ LockedByInsert(c))
  /\ EndUnchanged(r)
================================================================================
