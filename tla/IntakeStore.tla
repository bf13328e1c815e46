------------------------------ MODULE IntakeStore ------------------------------
(***************************************************************************)
(* The connections, repositories and deliveries of an organisation as its  *)
(* clients find them: rows that appear, change and go with one request     *)
(* each, as the constraints of the schema allow at that instant.  What a   *)
(* request has flushed, and who waits for it, is not seen here.            *)
(***************************************************************************)
CONSTANTS
  Connections, Providers, Hosts, BaseHosts, Names, FullNames, Keys,
  GuessProvider, DefaultName, None

VARIABLES
  conn,    \* source_connections
  repo,    \* repositories, by full_name
  stored,  \* webhook_deliveries
  sender   \* the connection of a delivery

storeVars == <<conn, repo, stored, sender>>

NoRow(st) == [st |-> st, name |-> None, provider |-> None, base |-> None, keyed |-> FALSE]

StoreInit ==
  /\ conn = [c \in Connections |-> NoRow("unused")]
  /\ repo = [n \in FullNames |-> None]
  /\ stored = {}
  /\ sender = [k \in Keys |-> None]

Live == {c \in Connections : conn[c].st = "live"}

(* An id is used once, a name by one connection at a time.                 *)
InsertConnection(c, n, p, b, keyed) ==
  /\ conn[c] = NoRow("unused")
  /\ \A d \in Live : conn[d].name # n
  /\ conn' = [conn EXCEPT ![c] = [st |-> "live", name |-> n, provider |-> p,
                                  base |-> b, keyed |-> keyed]]

CreateSource(c, n, p, b) ==
  /\ InsertConnection(c, n, p, b, TRUE)
  /\ UNCHANGED <<repo, stored, sender>>

RotateSecret(c) ==
  /\ c \in Live
  /\ conn' = [conn EXCEPT ![c].keyed = TRUE]
  /\ UNCHANGED <<repo, stored, sender>>

(* Repositories keep their connection, deliveries let go of it.            *)
DeleteSource(c) ==
  /\ c \in Live
  /\ \A n \in FullNames : repo[n] # None => repo[n].conn # c
  /\ conn' = [conn EXCEPT ![c] = NoRow("deleted")]
  /\ sender' = [k \in Keys |-> IF sender[k] = c THEN None ELSE sender[k]]
  /\ UNCHANGED <<repo, stored>>

(* A scan of n: its connection c is the fallback made for it, or was there; *)
(* its repository is made on c, or was there.                              *)
RegisterTarget(c, h, n) ==
  /\ \/ conn' = conn
     \/ InsertConnection(c, DefaultName[GuessProvider[h]], GuessProvider[h], None, FALSE)
  /\ \/ repo[n] # None /\ repo' = repo
     \/ /\ repo[n] = None /\ conn'[c].st = "live"
        /\ repo' = [repo EXCEPT ![n] = [conn |-> c, host |-> h]]
  /\ UNCHANGED <<stored, sender>>

StoreDelivery(k, c) ==
  /\ k \notin stored /\ c \in Live
  /\ stored' = stored \cup {k}
  /\ sender' = [sender EXCEPT ![k] = c]
  /\ UNCHANGED <<conn, repo>>

StoreNext ==
  \E c \in Connections :
    \/ \E n \in Names, p \in Providers, b \in BaseHosts \cup {None} : CreateSource(c, n, p, b)
    \/ RotateSecret(c) \/ DeleteSource(c)
    \/ \E h \in Hosts, n \in FullNames : RegisterTarget(c, h, n)
    \/ \E k \in Keys : StoreDelivery(k, c)

StoreSpec == StoreInit /\ [][StoreNext]_storeVars
================================================================================
