----------------------------- MODULE WebhookIntake -----------------------------
(***************************************************************************)
(* The webhook receivers of the three providers: load the connection's     *)
(* secret, verify, look the delivery up, store it.  The response leaves    *)
(* before the transaction commits.                                         *)
(***************************************************************************)
EXTENDS SourceConnections

(* load_connection_secret: 404, 400 or 401 otherwise.                      *)
HasSecret(c, provider) ==
  c \in Live /\ conn[c].provider = provider /\ conn[c].keyed

(* A receiver checks the signature, which nobody passes without the        *)
(* secret, and that the delivery has an id.                                *)
Verify(r, c, k) ==
  /\ req[r].phase = "idle"
  /\ HasSecret(c, k[1])
  /\ Advance(r, [Idle EXCEPT !.phase = "verified", !.conn = c, !.key = k])

(* record_delivery: a committed row is answered as a duplicate.            *)
FindDelivery(r) ==
  /\ req[r].phase = "verified"
  /\ \/ /\ req[r].key \in stored
        /\ req' = [req EXCEPT ![r] = Idle]
        /\ acked' = acked \cup {req[r].key}
     \/ /\ req[r].key \notin stored
        /\ req' = [req EXCEPT ![r].phase = "new"]
        /\ UNCHANGED acked
  /\ UNCHANGED <<conn, repo, stored, sender, accepts, unsaved>>

KeyFlushed(k) == \E s \in Requests : Owns(s, "delivery") /\ req[s].key = k

(* Mutant: no unique constraint behind the look-up.                        *)
InsertDeliveryAnyway(r) ==
  /\ req[r].phase = "new"
  /\ req[r].conn \in Live
  /\ req' = [req EXCEPT ![r].phase = "answered", ![r].own = {"delivery"}]
  /\ acked' = acked \cup {req[r].key}
  /\ UNCHANGED <<conn, repo, stored, sender, accepts, unsaved>>

(* The INSERT waits for a flushed row of the same key, then needs the key  *)
(* free and the connection there.  "accepted" is sent.                     *)
InsertDelivery(r) ==
  /\ req[r].phase = "new"
  /\ req[r].key \notin stored /\ ~ KeyFlushed(req[r].key)
  /\ req[r].conn \in Live
  /\ req' = [req EXCEPT ![r].phase = "answered", ![r].own = {"delivery"}]
  /\ acked' = acked \cup {req[r].key}
  /\ UNCHANGED <<conn, repo, stored, sender, accepts, unsaved>>

CommitDelivery(r) ==
  LET k == req[r].key IN
  /\ req[r].phase = "answered"
  /\ stored' = stored \cup {k}
  /\ sender' = [sender EXCEPT ![k] = req[r].conn]
  /\ accepts' = [accepts EXCEPT ![k] = @ + 1]
  /\ req' = [req EXCEPT ![r] = Idle]
  /\ UNCHANGED <<conn, repo, acked, unsaved>>

CommitDeliveryFails(r) ==
  /\ req[r].phase = "answered"
  /\ req' = [req EXCEPT ![r] = Idle]
  /\ unsaved' = unsaved \cup {req[r].key}
  /\ UNCHANGED <<conn, repo, stored, sender, accepts, acked>>

(* Mutant: the loser of the race waits for ever.                           *)
RefuseOrphanDelivery(r) ==
  /\ req[r].phase = "new" /\ req[r].conn \notin Live
  /\ EndUnchanged(r)

(* The unique constraint or the foreign key refuses the row: a 500, after  *)
(* which the provider delivers again.                                      *)
RefuseDelivery(r) ==
  /\ req[r].phase = "new" /\ (req[r].key \in stored \/ req[r].conn \notin Live)
  /\ EndUnchanged(r)
================================================================================
