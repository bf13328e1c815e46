-------------------------------- MODULE Intake --------------------------------
(***************************************************************************)
(* Scan requests, webhook deliveries and administrators working on the     *)
(* connections and repositories of one organisation at the same time.      *)
(***************************************************************************)
EXTENDS ScanTargets, WebhookIntake

Begin(r) ==
  \/ \E c \in Connections : CountRepositories(r, c)
  \/ \E h \in Hosts, n \in FullNames :
       \/ ResolveByHost(r, h, n)
       \/ \E c \in Connections : ResolveExplicit(r, c, h, n)
  \/ \E c \in Connections, k \in Keys : Verify(r, c, k)

Proceed(r) ==
  \/ DeleteSource(r) \/ RefuseAdmin(r)
  \/ FindDefault(r) \/ (\E c \in Connections : InsertDefault(r, c))
  \/ FindRepository(r) \/ InsertRepository(r) \/ CommitTarget(r) \/ RefuseTarget(r)
  \/ FindDelivery(r) \/ InsertDelivery(r) \/ CommitDelivery(r) \/ RefuseDelivery(r)

(* Rolled back before anything was answered: an error of the database or   *)
(* of the broker, a lost client, a dead process.                           *)
Fail(r) == req[r].phase \notin {"idle", "answered"} /\ EndUnchanged(r)

Next ==
  \/ \E r \in Requests : Begin(r) \/ Proceed(r) \/ Fail(r) \/ CommitDeliveryFails(r)
  \/ \E c \in Connections, n \in Names, p \in Providers, b \in BaseHosts \cup {None} :
       CreateSource(c, n, p, b)
  \/ \E c \in Connections : RotateSecret(c)

Spec == Init /\ [][Next]_vars

(* The event loop runs whoever can go on, and a lock is granted in the     *)
(* order of the waiters.                                                   *)
FairSpec == Spec /\ \A r \in Requests : SF_vars(Proceed(r))

--------------------------------------------------------------------------------
(* Properties.                                                             *)

(* Whatever comes between delete_source's count and its DELETE, or between *)
(* a scan's choice of connection and its INSERT, no repository and no      *)
(* stored delivery refers to a connection that is not there.               *)
ReferencesAreLive ==
  /\ \A n \in FullNames : repo[n] # None => repo[n].conn \in Live
  /\ \A k \in Keys : sender[k] # None => k \in stored /\ sender[k] \in Live

(* A request that has got this far commits a scan whose repository and     *)
(* connection exist, whoever inserted them and whatever was deleted since  *)
(* it looked.                                                              *)
ScanTargetExists == \A r \in Requests : req[r].phase = "registered" =>
  LET c == Target(r).conn IN c \in Live \/ (Owns(r, "conn") /\ c = req[r].conn)

(* Two live connections never share a name, although create_source and the *)
(* anonymous fallback both check first and insert later.                   *)
NamesAreUnique == \A c, d \in Live : conn[c].name = conn[d].name => c = d

(* A delivery is stored at most once, however often and however closely    *)
(* together the provider sends it, and also after its connection is gone.  *)
AcceptedOnce == \A k \in Keys : accepts[k] <= 1

(* What was answered 202 is stored for good, is about to be, or belongs to *)
(* a request whose commit failed after its answer.                         *)
AcknowledgedIsStored == \A k \in acked :
  k \in stored \cup unsaved \/ \E r \in Requests : Owns(r, "delivery") /\ req[r].key = k

(* r's next statement waits for the transaction of s: for a row of the     *)
(* same key that s has flushed, or for one that keeps a connection locked. *)
WaitsFor(r, s) ==
  \/ /\ req[r].phase = "no_default" /\ ~ NameTaken(FallbackName(r))
     /\ Owns(s, "conn") /\ FallbackName(s) = FallbackName(r)
  \/ /\ req[r].phase = "missing" /\ repo[req[r].name] = None /\ SourceExists(r)
     /\ Owns(s, "repo") /\ req[s].name = req[r].name
  \/ /\ req[r].phase = "new" /\ req[r].key \notin stored /\ req[r].conn \in Live
     /\ Owns(s, "delivery") /\ req[s].key = req[r].key
  \/ /\ req[r].phase = "counted" /\ req[r].conn \in Live
     /\ (Owns(s, "repo") \/ Owns(s, "delivery")) /\ req[s].conn = req[r].conn

(* A request that is held up waits for one that goes on, or that waits for *)
(* one that does: however many race, they never wait in a circle, since    *)
(* every transaction inserts its connection before its repository.         *)
WaitsAreShort == \A p, q, r, s \in Requests :
  ~ (WaitsFor(p, q) /\ WaitsFor(q, r) /\ WaitsFor(r, s))

(* What the guards of Proceed come to: no lock is in the way of r.         *)
CanProceed(r) ==
  \/ req[r].phase \in {"fallback", "sourced", "registered", "verified", "answered"}
  \/ /\ req[r].phase = "counted"
     /\ req[r].conn \notin Live \/ ~ LockedByInsert(req[r].conn)
  \/ /\ req[r].phase = "no_default"
     /\ \/ NameTaken(FallbackName(r)) \/ ~ NameFlushed(FallbackName(r))
        \/ \A c \in Connections : ~ FreshId(c)
  \/ /\ req[r].phase = "missing"
     /\ repo[req[r].name] # None \/ ~ SourceExists(r) \/ ~ RepoFlushed(req[r].name)
  \/ /\ req[r].phase = "new"
     /\ req[r].key \in stored \/ req[r].conn \notin Live \/ ~ KeyFlushed(req[r].key)

(* Nothing else holds a request up: one that waits for nobody has a step.  *)
OnlyWaitersStop == \A r \in Requests :
  /\ req[r].phase # "idle" => CanProceed(r) \/ \E s \in Requests : WaitsFor(r, s)
  /\ CanProceed(r) => ENABLED Proceed(r)

(* The requests of an org never stand still: whoever is held up waits for  *)
(* a request that has a step, or for one that waits for such a request.    *)
SomebodyGoesOn == \A r \in Requests : req[r].phase # "idle" =>
  \/ CanProceed(r)
  \/ \E s \in Requests :
       /\ WaitsFor(r, s)
       /\ CanProceed(s) \/ \E t \in Requests : WaitsFor(s, t) /\ CanProceed(t)

(* A request that flushes its rows one by one and commits them later is as *)
(* good as one that inserts them all at its commit: no other ever sees or  *)
(* overwrites half of it, and the constraints hold when it commits.        *)
Store == INSTANCE IntakeStore

ImplementsStore == Store!StoreSpec

(* Nobody waits for ever for a row that somebody else has flushed.         *)
EveryRequestEnds == \A r \in Requests : req[r].phase # "idle" ~> req[r].phase = "idle"

--------------------------------------------------------------------------------
(* What the docs of _bootstrap say, and the run refutes.                   *)

(* "if source_connection_id is given, use that connection", "exactly one   *)
(* match -> use it": a scan runs on a repository of the connection that    *)
(* the request was resolved to.                                            *)
ResolvedConnectionIsUsed == \A r \in Requests :
  req[r].phase = "registered" => Target(r).conn = req[r].conn
================================================================================
