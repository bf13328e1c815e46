----------------------------- MODULE IntakeProofs -----------------------------
(***************************************************************************)
(* Connections, repositories and webhook deliveries of an organisation,    *)
(* for every number of requests, connections, hosts and delivery ids.      *)
(***************************************************************************)
EXTENDS Intake, TLAPS

Fallback(q) == DefaultName[GuessProvider[q.host]]

(* What a request in progress may rely on: the rows it has flushed are not *)
(* there yet for anybody else, and what they refer to cannot go away.      *)
Sound(q) ==
  /\ q.phase \in ScanPhases => q.host \in Hosts /\ q.name \in FullNames
  /\ q.phase \in {"sourced", "missing", "registered", "counted"} \cup HookPhases => q.conn \in Connections
  /\ q.phase \in HookPhases => q.key \in Keys
  /\ q.phase = "registered" => "repo" \in q.own \/ repo[q.name] # None
  /\ "conn" \in q.own =>
       /\ q.phase \in {"sourced", "missing", "registered"}
       /\ conn[q.conn] = Unused /\ ~ NameTaken(Fallback(q))
  /\ "repo" \in q.own =>
       q.phase = "registered" /\ repo[q.name] = None /\ (q.conn \in Live \/ "conn" \in q.own)
  /\ q.phase = "answered" => q.own = {"delivery"}
  /\ "delivery" \in q.own => q.phase = "answered" /\ q.key \notin stored /\ q.conn \in Live

(* Two requests never flush the same id, name, repository or delivery.     *)
Apart(p, q) ==
  /\ "conn" \in p.own /\ "conn" \in q.own => p.conn # q.conn /\ Fallback(p) # Fallback(q)
  /\ "repo" \in p.own /\ "repo" \in q.own => p.name # q.name
  /\ "delivery" \in p.own /\ "delivery" \in q.own => p.key # q.key

RequestsInv ==
  /\ \A r \in Requests : Sound(req[r])
  /\ \A r \in Requests, s \in Requests : r # s => Apart(req[r], req[s])

Counted == \A k \in Keys : accepts[k] = IF k \in stored THEN 1 ELSE 0

IntakeInv ==
  /\ TypeOK
  /\ RequestsInv
  /\ ReferencesAreLive
  /\ NamesAreUnique
  /\ Counted
  /\ AcknowledgedIsStored

LEMMA IdleIsSound == Idle \in Request /\ Sound(Idle) /\ \A p : Apart(Idle, p) /\ Apart(p, Idle)
  BY DEF Idle, Request, Sound, Apart, ScanPhases, HookPhases

LEMMA IntakeInit == Init => IntakeInv
<1>. SUFFICES ASSUME Init PROVE IntakeInv
  OBVIOUS
<1>1. TypeOK
  BY IdleIsSound DEF Init, TypeOK, Connection
<1>2. RequestsInv
  BY IdleIsSound DEF Init, RequestsInv
<1>3. Live = {}
  BY DEF Init, Live, Unused
<1>. QED BY <1>1, <1>2, <1>3 DEF Init, IntakeInv, ReferencesAreLive, NamesAreUnique, Counted,
            AcknowledgedIsStored

--------------------------------------------------------------------------------
(* A step that moves one request and writes nothing.                       *)
LEMMA AdvanceInv ==
  ASSUME IntakeInv, NEW r \in Requests, NEW q, Advance(r, q), q \in Request,
         req[r].phase # "answered", Sound(q),
         \A s \in Requests \ {r} : Apart(q, req[s]) /\ Apart(req[s], q)
  PROVE  IntakeInv'
<1>1. /\ req' = [req EXCEPT ![r] = q]
      /\ UNCHANGED <<conn, repo, stored, sender, accepts, acked, unsaved>>
  BY DEF Advance, deliveryVars
<1>2. req \in [Requests -> Request]
  BY DEF IntakeInv, TypeOK
<1>3. \A s \in Requests : req'[s] = IF s = r THEN q ELSE req[s]
  BY <1>1, <1>2
<1>4. TypeOK'
  BY <1>1 DEF IntakeInv, TypeOK
<1>5. Live' = Live /\ \A n : NameTaken(n)' = NameTaken(n)
  BY <1>1 DEF Live, NameTaken
<1>6. RequestsInv'
  <2>1. ASSUME NEW s \in Requests PROVE Sound(req[s])'
    BY <1>1, <1>3, <1>5 DEF IntakeInv, RequestsInv, Sound
  <2>2. ASSUME NEW s \in Requests, NEW t \in Requests, s # t PROVE Apart(req[s], req[t])'
    BY <1>3, <2>2 DEF IntakeInv, RequestsInv, Apart, Fallback
  <2>. QED BY <2>1, <2>2 DEF RequestsInv
<1>7. ReferencesAreLive' /\ NamesAreUnique' /\ Counted'
  BY <1>1, <1>5 DEF IntakeInv, ReferencesAreLive, NamesAreUnique, Counted
<1>8. AcknowledgedIsStored'
  <2>1. \A s \in Requests : Owns(s, "delivery") => s # r
    BY DEF Owns, IntakeInv, RequestsInv, Sound
  <2>. QED BY <1>1, <1>3, <2>1 DEF IntakeInv, AcknowledgedIsStored, Owns
<1>. QED BY <1>4, <1>6, <1>7, <1>8 DEF IntakeInv

(* The request is over.                                                    *)
LEMMA EndInv ==
  ASSUME IntakeInv, NEW r \in Requests, EndUnchanged(r), req[r].phase # "answered"
  PROVE  IntakeInv'
  BY IdleIsSound, AdvanceInv DEF EndUnchanged

(* The request has flushed nothing so far and flushes nothing now.         *)
LEMMA NothingOwned ==
  ASSUME NEW q, q.own = {} PROVE \A p : Apart(q, p) /\ Apart(p, q)
  BY DEF Apart

--------------------------------------------------------------------------------
(* The steps of a scan request.                                            *)

LEMMA TargetSteps ==
  ASSUME IntakeInv, NEW r \in Requests,
         \/ \E h \in Hosts, n \in FullNames :
              ResolveByHost(r, h, n) \/ \E c \in Connections : ResolveExplicit(r, c, h, n)
         \/ FindDefault(r) \/ \E c \in Connections : InsertDefault(r, c)
         \/ FindRepository(r) \/ InsertRepository(r) \/ RefuseTarget(r)
  PROVE  IntakeInv'
<1>1. /\ req[r] \in Request /\ Sound(req[r]) /\ Live \subseteq Connections
      /\ \A s \in Requests \ {r} : Apart(req[r], req[s]) /\ Apart(req[s], req[r])
  BY DEF IntakeInv, TypeOK, RequestsInv, Live
<1>2. ASSUME NEW h \in Hosts, NEW n \in FullNames,
             ResolveByHost(r, h, n) \/ \E c \in Connections : ResolveExplicit(r, c, h, n)
      PROVE  IntakeInv'
  <2>1. PICK phase \in {"sourced", "fallback"}, c \in Connections \cup {None} :
          /\ req[r].phase = "idle" /\ Advance(r, Scan(phase, c, h, n))
          /\ phase = "sourced" => c \in Connections
    BY <1>1, <1>2 DEF ResolveByHost, ResolveExplicit
  <2>. DEFINE q == Scan(phase, c, h, n)
  <2>2. q \in Request /\ q.phase = phase /\ q.conn = c /\ q.host = h /\ q.name = n /\ q.own = {}
    BY DEF Scan, Idle, Request, ScanPhases
  <2>3. Sound(q)
    BY <2>1, <2>2 DEF Sound, ScanPhases, HookPhases
  <2>4. Advance(r, q)
    BY <2>1
  <2>. HIDE DEF q
  <2>. QED BY <2>1, <2>2, <2>3, <2>4, AdvanceInv, NothingOwned
<1>3. CASE FindDefault(r)
  <2>1. req[r].phase = "fallback" /\ req[r].own = {}
    BY <1>1, <1>3 DEF FindDefault, Sound, Request
  <2>2. CASE \E c \in Live : Advance(r, [req[r] EXCEPT !.phase = "sourced", !.conn = c])
    <3>1. PICK c \in Connections : Advance(r, [req[r] EXCEPT !.phase = "sourced", !.conn = c])
      BY <1>1, <2>2
    <3>. DEFINE q == [req[r] EXCEPT !.phase = "sourced", !.conn = c]
    <3>2. q \in Request /\ q.phase = "sourced" /\ q.conn = c /\ q.own = {}
          /\ q.host = req[r].host /\ q.name = req[r].name
      BY <1>1, <2>1 DEF Request, ScanPhases
    <3>3. Sound(q)
      BY <1>1, <2>1, <3>2 DEF Sound, ScanPhases, HookPhases
    <3>. HIDE DEF q
    <3>4. Advance(r, q)
      BY <3>1 DEF q
    <3>. QED BY <2>1, <3>2, <3>3, <3>4, AdvanceInv, NothingOwned
  <2>3. CASE Advance(r, [req[r] EXCEPT !.phase = "no_default"])
    <3>. DEFINE q == [req[r] EXCEPT !.phase = "no_default"]
    <3>2. q \in Request /\ q.phase = "no_default" /\ q.own = {}
          /\ q.host = req[r].host /\ q.name = req[r].name
      BY <1>1, <2>1 DEF Request, ScanPhases
    <3>3. Sound(q)
      BY <1>1, <2>1, <3>2 DEF Sound, ScanPhases, HookPhases
    <3>. HIDE DEF q
    <3>4. Advance(r, q)
      BY <2>3 DEF q
    <3>. QED BY <2>1, <3>2, <3>3, <3>4, AdvanceInv, NothingOwned
  <2>. QED BY <1>3, <2>2, <2>3 DEF FindDefault
<1>4. ASSUME NEW c \in Connections, InsertDefault(r, c) PROVE IntakeInv'
  <2>1. /\ req[r].phase = "no_default" /\ ~ NameTaken(Fallback(req[r])) /\ FreshId(c)
        /\ ~ NameFlushed(Fallback(req[r]))
        /\ Advance(r, [req[r] EXCEPT !.phase = "sourced", !.conn = c, !.own = {"conn"}])
    BY <1>4 DEF InsertDefault, FallbackName, Fallback
  <2>. DEFINE q == [req[r] EXCEPT !.phase = "sourced", !.conn = c, !.own = {"conn"}]
  <2>2. q \in Request /\ q.phase = "sourced" /\ q.conn = c /\ q.own = {"conn"}
        /\ q.host = req[r].host /\ q.name = req[r].name
    BY <1>1 DEF Request, ScanPhases
  <2>3. Sound(q)
    BY <1>1, <2>1, <2>2 DEF Sound, ScanPhases, HookPhases, FreshId, Fallback
  <2>4. Advance(r, q)
    BY <2>1
  <2>. HIDE DEF q
  <2>5. ASSUME NEW s \in Requests PROVE Apart(q, req[s]) /\ Apart(req[s], q)
    BY <2>1, <2>2 DEF Apart, Fallback, FallbackName, FreshId, NameFlushed, Owns
  <2>. QED BY <2>1, <2>2, <2>3, <2>4, <2>5, AdvanceInv
<1>5. CASE FindRepository(r)
  <2>1. PICK phase \in {"missing", "registered"} :
          /\ req[r].phase = "sourced" /\ Advance(r, [req[r] EXCEPT !.phase = phase])
          /\ phase = "registered" => repo[req[r].name] # None
    BY <1>5 DEF FindRepository
  <2>. DEFINE q == [req[r] EXCEPT !.phase = phase]
  <2>2. q \in Request /\ q.phase = phase /\ q.conn = req[r].conn /\ q.own = req[r].own
        /\ q.host = req[r].host /\ q.name = req[r].name /\ q.key = req[r].key
    BY <1>1 DEF Request, ScanPhases
  <2>3. Sound(q)
    BY <1>1, <2>1, <2>2 DEF Sound, ScanPhases, HookPhases, Fallback
  <2>4. Advance(r, q)
    BY <2>1
  <2>. HIDE DEF q
  <2>5. ASSUME NEW s \in Requests \ {r} PROVE Apart(q, req[s]) /\ Apart(req[s], q)
    BY <1>1, <2>2 DEF Apart, Fallback
  <2>. QED BY <2>1, <2>2, <2>3, <2>4, <2>5, AdvanceInv
<1>6. CASE InsertRepository(r)
  <2>1. /\ req[r].phase = "missing" /\ repo[req[r].name] = None /\ ~ RepoFlushed(req[r].name)
        /\ req[r].conn \in Live \/ "conn" \in req[r].own
        /\ Advance(r, [req[r] EXCEPT !.phase = "registered", !.own = @ \cup {"repo"}])
    BY <1>6 DEF InsertRepository, SourceExists, Owns
  <2>. DEFINE q == [req[r] EXCEPT !.phase = "registered", !.own = @ \cup {"repo"}]
  <2>2. q \in Request /\ q.phase = "registered" /\ q.conn = req[r].conn /\ q.own = req[r].own \cup {"repo"}
        /\ q.host = req[r].host /\ q.name = req[r].name
    BY <1>1 DEF Request, ScanPhases
  <2>3. Sound(q)
    BY <1>1, <2>1, <2>2 DEF Sound, ScanPhases, HookPhases, Fallback
  <2>4. Advance(r, q)
    BY <2>1
  <2>. HIDE DEF q
  <2>5. ASSUME NEW s \in Requests \ {r} PROVE Apart(q, req[s]) /\ Apart(req[s], q)
    <3>1. Apart(req[r], req[s]) /\ Apart(req[s], req[r])
      BY <1>1
    <3>2. "repo" \in req[s].own => req[s].name # q.name
      BY <2>1, <2>2 DEF RepoFlushed, Owns
    <3>3. "conn" \in q.own <=> "conn" \in req[r].own
      BY <2>2
    <3>4. "delivery" \notin q.own
      BY <1>1, <2>1, <2>2 DEF Sound
    <3>. QED BY <2>2, <3>1, <3>2, <3>3, <3>4 DEF Apart, Fallback
  <2>. QED BY <2>1, <2>2, <2>3, <2>4, <2>5, AdvanceInv
<1>7. CASE RefuseTarget(r)
  BY <1>7, EndInv DEF RefuseTarget
<1>. QED BY <1>2, <1>3, <1>4, <1>5, <1>6, <1>7

(* Commit: what the request flushed becomes visible.                       *)
LEMMA CommitTargetInv ==
  ASSUME IntakeInv, NEW r \in Requests, CommitTarget(r) PROVE IntakeInv'
<1>. DEFINE q == req[r]
<1>1. /\ q \in Request /\ Sound(q) /\ q.phase = "registered"
      /\ q.host \in Hosts /\ q.name \in FullNames /\ q.conn \in Connections
      /\ \A s \in Requests \ {r} : Apart(q, req[s]) /\ Sound(req[s]) /\ req[s] \in Request
  BY DEF IntakeInv, TypeOK, RequestsInv, CommitTarget, Sound, ScanPhases
<1>2. /\ conn' = IF "conn" \in q.own
                   THEN [conn EXCEPT ![q.conn] = DefaultRow(GuessProvider[q.host])] ELSE conn
      /\ repo' = IF "repo" \in q.own
                   THEN [repo EXCEPT ![q.name] = [conn |-> q.conn, host |-> q.host]] ELSE repo
      /\ req' = [req EXCEPT ![r] = Idle]
      /\ UNCHANGED <<stored, sender, accepts, acked, unsaved>>
  BY DEF CommitTarget, Owns, deliveryVars
<1>3. DefaultRow(GuessProvider[q.host]) \in Connection
      /\ DefaultRow(GuessProvider[q.host]).st = "live"
      /\ DefaultRow(GuessProvider[q.host]).name = Fallback(q)
  BY <1>1, NamingAssumption DEF DefaultRow, Connection, Fallback
<1>4. TypeOK'
  <2>1. [conn |-> q.conn, host |-> q.host] \in Repository
    BY <1>1 DEF Repository
  <2>. QED BY <1>1, <1>2, <1>3, <2>1, IdleIsSound DEF IntakeInv, TypeOK
<1>5. conn \in [Connections -> Connection] /\ repo \in [FullNames -> Repository \cup {None}]
      /\ \A s \in Requests : req'[s] = IF s = r THEN Idle ELSE req[s]
  BY <1>2 DEF IntakeInv, TypeOK
<1>6. Live' = IF "conn" \in q.own THEN Live \cup {q.conn} ELSE Live
  BY <1>1, <1>2, <1>3, <1>5 DEF Live
<1>7. \A c \in Connections : conn'[c] = IF "conn" \in q.own /\ c = q.conn
                                          THEN DefaultRow(GuessProvider[q.host]) ELSE conn[c]
  BY <1>2, <1>5
<1>8. \A n \in FullNames : repo'[n] = IF "repo" \in q.own /\ n = q.name
                                        THEN [conn |-> q.conn, host |-> q.host] ELSE repo[n]
  BY <1>2, <1>5
<1>9. ASSUME "conn" \in q.own PROVE q.conn \notin Live /\ ~ NameTaken(Fallback(q))
  BY <1>1, <1>9 DEF Sound, Live, Unused
<1>10. ASSUME NEW c \in Live'
       PROVE  \/ c \in Live /\ conn'[c].name = conn[c].name
              \/ "conn" \in q.own /\ c = q.conn /\ conn'[c].name = Fallback(q)
  BY <1>1, <1>3, <1>6, <1>7 DEF Live, Sound, Unused
<1>11. RequestsInv'
  <2>1. ASSUME NEW s \in Requests \ {r} PROVE Sound(req[s])'
    <3>. DEFINE p == req[s]
    <3>1. /\ req'[s] = p /\ p \in Request /\ Sound(p) /\ Apart(q, p)
      BY <1>1, <1>5
    <3>2. ASSUME "conn" \in p.own
          PROVE  conn'[p.conn] = Unused /\ ~ \E c \in Live' : conn'[c].name = Fallback(p)
      <4>1. conn[p.conn] = Unused /\ p.conn \in Connections /\ ~ NameTaken(Fallback(p))
        BY <3>1, <3>2 DEF Sound
      <4>2. "conn" \in q.own => p.conn # q.conn /\ Fallback(p) # Fallback(q)
        BY <3>1, <3>2 DEF Apart
      <4>3. conn'[p.conn] = Unused
        BY <1>7, <4>1, <4>2
      <4>4. ASSUME NEW c \in Live', conn'[c].name = Fallback(p) PROVE FALSE
        BY <1>10, <4>1, <4>2, <4>4 DEF NameTaken
      <4>. QED BY <4>3, <4>4
    <3>3. ASSUME "repo" \in p.own PROVE repo'[p.name] = None
      BY <1>8, <3>1, <3>3 DEF Sound, Apart, ScanPhases
    <3>4. ASSUME p.phase = "registered", "repo" \notin p.own PROVE repo'[p.name] # None
      <4>1. repo[p.name] # None /\ p.name \in FullNames
        BY <3>1, <3>4 DEF Sound, ScanPhases
      <4>2. "repo" \in q.own => p.name # q.name
        BY <1>1, <4>1 DEF Sound
      <4>. QED BY <1>8, <4>1, <4>2
    <3>5. Live \subseteq Live'
      BY <1>6
    <3>. HIDE DEF p
    <3>. QED BY <1>2, <3>1, <3>2, <3>3, <3>4, <3>5 DEF Sound, Fallback, NameTaken
  <2>2. Sound(req[r])'
    BY <1>5 DEF Sound, Idle, ScanPhases, HookPhases
  <2>3. ASSUME NEW s \in Requests, NEW t \in Requests, s # t PROVE Apart(req[s], req[t])'
    BY <1>5, <2>3, IdleIsSound DEF IntakeInv, RequestsInv, Apart, Fallback
  <2>. QED BY <2>1, <2>2, <2>3 DEF RequestsInv
<1>12. ReferencesAreLive'
  <2>1. "repo" \in q.own => q.conn \in Live'
    BY <1>1, <1>6 DEF Sound
  <2>2. \A n \in FullNames : repo'[n] # None => repo'[n].conn \in Live'
    BY <1>6, <1>8, <2>1 DEF IntakeInv, ReferencesAreLive
  <2>. QED BY <1>2, <1>6, <2>2 DEF IntakeInv, ReferencesAreLive
<1>13. NamesAreUnique'
  <2>1. ASSUME NEW c \in Live', NEW d \in Live', conn'[c].name = conn'[d].name PROVE c = d
    <3>1. c \in Connections /\ d \in Connections
      BY DEF Live
    <3>. QED BY <1>9, <1>10, <2>1, <3>1 DEF IntakeInv, NamesAreUnique, NameTaken
  <2>. QED BY <2>1 DEF NamesAreUnique
<1>14. Counted' /\ AcknowledgedIsStored'
  BY <1>1, <1>2, <1>5 DEF IntakeInv, Counted, AcknowledgedIsStored, Owns, Sound
<1>. QED BY <1>4, <1>11, <1>12, <1>13, <1>14 DEF IntakeInv

--------------------------------------------------------------------------------
(* The steps of the administrators.                                        *)

LEMMA CreateSourceInv ==
  ASSUME IntakeInv, NEW c \in Connections, NEW n \in Names, NEW p \in Providers,
         NEW b \in BaseHosts \cup {None}, CreateSource(c, n, p, b)
  PROVE  IntakeInv'
<1>. DEFINE new == [st |-> "live", name |-> n, provider |-> p, base |-> b, keyed |-> TRUE]
<1>1. /\ FreshId(c) /\ ~ NameTaken(n) /\ ~ NameFlushed(n)
      /\ conn' = [conn EXCEPT ![c] = new]
      /\ UNCHANGED <<repo, stored, sender, accepts, acked, unsaved, req>>
  BY DEF CreateSource, deliveryVars
<1>2. new \in Connection /\ new.st = "live" /\ new.name = n
  BY DEF Connection
<1>. HIDE DEF new
<1>3. conn \in [Connections -> Connection] /\ conn[c] = Unused
  BY <1>1 DEF IntakeInv, TypeOK, FreshId
<1>4. \A d \in Connections : conn'[d] = IF d = c THEN new ELSE conn[d]
  BY <1>1, <1>3
<1>5. Live' = Live \cup {c} /\ c \notin Live
  BY <1>2, <1>3, <1>4 DEF Live, Unused
<1>6. TypeOK'
  BY <1>1, <1>2 DEF IntakeInv, TypeOK
<1>7. ASSUME NEW s \in Requests PROVE Sound(req[s])'
  <2>. DEFINE q == req[s]
  <2>1. Sound(q) /\ q \in Request
    BY DEF IntakeInv, RequestsInv, TypeOK
  <2>2. ASSUME "conn" \in q.own
        PROVE  conn'[q.conn] = Unused /\ ~ \E d \in Live' : conn'[d].name = Fallback(q)
    <3>1. conn[q.conn] = Unused /\ q.conn \in Connections /\ ~ NameTaken(Fallback(q))
      BY <2>1, <2>2 DEF Sound
    <3>2. q.conn # c /\ Fallback(q) # n
      BY <1>1, <2>2 DEF FreshId, NameFlushed, Owns, FallbackName, Fallback
    <3>3. ASSUME NEW d \in Live', conn'[d].name = Fallback(q) PROVE FALSE
      BY <1>2, <1>4, <1>5, <3>1, <3>2, <3>3 DEF NameTaken, Live
    <3>. QED BY <1>4, <3>1, <3>2, <3>3
  <2>. HIDE DEF q
  <2>3. Sound(q)'
    BY <1>1, <1>5, <2>1, <2>2 DEF Sound, Fallback, NameTaken, q
  <2>. QED BY <2>3 DEF q
<1>8. RequestsInv'
  BY <1>1, <1>7 DEF IntakeInv, RequestsInv, Apart, Fallback
<1>9. ReferencesAreLive' /\ Counted' /\ AcknowledgedIsStored'
  BY <1>1, <1>5 DEF IntakeInv, ReferencesAreLive, Counted, AcknowledgedIsStored, Owns
<1>10. NamesAreUnique'
  <2>1. ASSUME NEW d \in Live', NEW e \in Live', conn'[d].name = conn'[e].name PROVE d = e
    <3>1. d \in Connections /\ e \in Connections
      BY DEF Live
    <3>. QED BY <1>1, <1>2, <1>4, <1>5, <2>1, <3>1 DEF IntakeInv, NamesAreUnique, NameTaken
  <2>. QED BY <2>1 DEF NamesAreUnique
<1>. QED BY <1>6, <1>8, <1>9, <1>10 DEF IntakeInv

LEMMA DeleteSourceInv ==
  ASSUME IntakeInv, NEW r \in Requests, DeleteSource(r) PROVE IntakeInv'
<1>. DEFINE c == req[r].conn
<1>1. /\ req[r].phase = "counted" /\ c \in Live /\ ~ LockedByInsert(c) /\ ~ Referred(c)
      /\ conn' = [conn EXCEPT ![c] = Deleted]
      /\ sender' = [k \in Keys |-> IF sender[k] = c THEN None ELSE sender[k]]
      /\ req' = [req EXCEPT ![r] = Idle]
      /\ UNCHANGED <<repo, stored, accepts, acked, unsaved>>
  BY DEF DeleteSource
<1>2. c \in Connections /\ Sound(req[r]) /\ conn \in [Connections -> Connection] /\ c # None
  BY <1>1, NullAssumption DEF Live, IntakeInv, RequestsInv, TypeOK
<1>. HIDE DEF c
<1>3. /\ \A d \in Connections : conn'[d] = IF d = c THEN Deleted ELSE conn[d]
      /\ \A s \in Requests : req'[s] = IF s = r THEN Idle ELSE req[s]
  BY <1>1, <1>2 DEF IntakeInv, TypeOK
<1>4. Live' = Live \ {c} /\ \A d \in Live' : conn'[d] = conn[d]
  BY <1>2, <1>3 DEF Live, Deleted, Unused
<1>5. TypeOK'
  <2>1. Deleted \in Connection
    BY DEF Connection
  <2>. QED BY <1>1, <2>1, IdleIsSound DEF IntakeInv, TypeOK
<1>6. ASSUME NEW s \in Requests \ {r} PROVE Sound(req[s])'
  <2>. DEFINE q == req[s]
  <2>1. Sound(q) /\ q \in Request /\ req'[s] = q
    BY <1>3 DEF IntakeInv, RequestsInv, TypeOK
  <2>2. ASSUME "conn" \in q.own
        PROVE  conn'[q.conn] = Unused /\ ~ \E d \in Live' : conn'[d].name = Fallback(q)
    <3>1. conn[q.conn] = Unused /\ q.conn \in Connections /\ ~ NameTaken(Fallback(q))
      BY <2>1, <2>2 DEF Sound
    <3>. QED BY <1>1, <1>3, <1>4, <3>1 DEF NameTaken, Live, Unused
  <2>3. "repo" \in q.own \/ "delivery" \in q.own => q.conn # c
    BY <1>1 DEF LockedByInsert, Owns
  <2>. HIDE DEF q
  <2>. QED BY <1>1, <1>4, <2>1, <2>2, <2>3 DEF Sound, Fallback, NameTaken
<1>7. RequestsInv'
  <2>1. Sound(req[r])'
    BY <1>3 DEF Sound, Idle, ScanPhases, HookPhases
  <2>2. ASSUME NEW s \in Requests, NEW t \in Requests, s # t PROVE Apart(req[s], req[t])'
    BY <1>3, <2>2, IdleIsSound DEF IntakeInv, RequestsInv, Apart, Fallback
  <2>. QED BY <1>6, <2>1, <2>2 DEF RequestsInv
<1>8. ReferencesAreLive'
  <2>1. \A n \in FullNames : repo[n] # None => repo[n].conn # c
    BY <1>1 DEF Referred
  <2>2. ASSUME NEW k \in Keys, sender'[k] # None PROVE k \in stored /\ sender'[k] \in Live'
    BY <1>1, <1>4, <2>2 DEF IntakeInv, ReferencesAreLive
  <2>. QED BY <1>1, <1>4, <2>1, <2>2 DEF IntakeInv, ReferencesAreLive
<1>9. NamesAreUnique'
  BY <1>4 DEF IntakeInv, NamesAreUnique
<1>10. Counted' /\ AcknowledgedIsStored'
  BY <1>1, <1>2, <1>3 DEF IntakeInv, Counted, AcknowledgedIsStored, Owns, Sound
<1>. QED BY <1>5, <1>7, <1>8, <1>9, <1>10 DEF IntakeInv

LEMMA RotateSecretInv ==
  ASSUME IntakeInv, NEW c \in Connections, RotateSecret(c) PROVE IntakeInv'
<1>1. /\ c \in Live /\ conn' = [conn EXCEPT ![c].keyed = TRUE]
      /\ UNCHANGED <<repo, stored, sender, accepts, acked, unsaved, req>>
  BY DEF RotateSecret, deliveryVars
<1>2. conn \in [Connections -> Connection] /\ conn[c] \in Connection /\ conn[c].st = "live"
  BY <1>1 DEF IntakeInv, TypeOK, Live
<1>3. conn[c] \in [st: {"live"}, name: Names, provider: Providers,
                   base: BaseHosts \cup {None}, keyed: BOOLEAN]
  BY <1>2 DEF Connection, Unused, Deleted
<1>4. conn'[c] \in Connection /\ conn'[c].st = "live" /\ conn'[c].name = conn[c].name
  <2>1. conn'[c] = [conn[c] EXCEPT !.keyed = TRUE]
    BY <1>1, <1>2
  <2>. QED BY <1>3, <2>1 DEF Connection
<1>5. \A d \in Connections \ {c} : conn'[d] = conn[d]
  BY <1>1, <1>2
<1>6. Live' = Live /\ \A d \in Live : conn'[d].name = conn[d].name
  BY <1>1, <1>4, <1>5 DEF Live
<1>7. TypeOK'
  <2>1. conn' \in [Connections -> Connection]
    BY <1>1, <1>2, <1>4, <1>5
  <2>. QED BY <1>1, <2>1 DEF IntakeInv, TypeOK
<1>8. ASSUME NEW s \in Requests PROVE Sound(req[s])'
  <2>. DEFINE q == req[s]
  <2>1. Sound(q) /\ req'[s] = q
    BY <1>1 DEF IntakeInv, RequestsInv
  <2>2. "conn" \in q.own => conn'[q.conn] = Unused
    BY <1>1, <1>5, <2>1 DEF Sound, Live, Unused
  <2>. HIDE DEF q
  <2>. QED BY <1>1, <1>6, <2>1, <2>2 DEF Sound, Fallback, NameTaken
<1>9. RequestsInv'
  BY <1>1, <1>8 DEF IntakeInv, RequestsInv, Apart, Fallback
<1>10. ReferencesAreLive' /\ NamesAreUnique' /\ Counted' /\ AcknowledgedIsStored'
  BY <1>1, <1>6 DEF IntakeInv, ReferencesAreLive, NamesAreUnique, Counted, AcknowledgedIsStored, Owns
<1>. QED BY <1>7, <1>9, <1>10 DEF IntakeInv

LEMMA CountInv ==
  ASSUME IntakeInv, NEW r \in Requests, NEW c \in Connections, CountRepositories(r, c)
  PROVE  IntakeInv'
<1>. DEFINE q == [Idle EXCEPT !.phase = "counted", !.conn = c]
<1>1. q \in Request /\ q.phase = "counted" /\ q.conn = c /\ q.own = {}
  BY DEF Idle, Request, AdminPhases
<1>2. Sound(q)
  BY <1>1 DEF Sound, ScanPhases, HookPhases
<1>3. Advance(r, q) /\ req[r].phase = "idle"
  BY DEF CountRepositories
<1>. HIDE DEF q
<1>. QED BY <1>1, <1>2, <1>3, AdvanceInv, NothingOwned

--------------------------------------------------------------------------------
(* The steps of a webhook delivery.                                        *)

LEMMA VerifyInv ==
  ASSUME IntakeInv, NEW r \in Requests, NEW c \in Connections, NEW k \in Keys, Verify(r, c, k)
  PROVE  IntakeInv'
<1>. DEFINE q == [Idle EXCEPT !.phase = "verified", !.conn = c, !.key = k]
<1>1. q \in Request /\ q.phase = "verified" /\ q.conn = c /\ q.key = k /\ q.own = {}
  BY DEF Idle, Request, HookPhases
<1>2. Sound(q)
  BY <1>1 DEF Sound, ScanPhases, HookPhases
<1>3. Advance(r, q) /\ req[r].phase = "idle"
  BY DEF Verify
<1>. HIDE DEF q
<1>. QED BY <1>1, <1>2, <1>3, AdvanceInv, NothingOwned

(* Steps that leave connections and repositories alone.                    *)
LEMMA DeliverySteps ==
  ASSUME IntakeInv, NEW r \in Requests,
         FindDelivery(r) \/ InsertDelivery(r) \/ CommitDelivery(r) \/ CommitDeliveryFails(r)
  PROVE  IntakeInv'
<1>1. /\ req[r] \in Request /\ Sound(req[r]) /\ req \in [Requests -> Request]
      /\ UNCHANGED <<conn, repo>>
      /\ req[r].phase \in HookPhases /\ req[r].key \in Keys /\ req[r].conn \in Connections
  BY DEF IntakeInv, TypeOK, RequestsInv, FindDelivery, InsertDelivery, CommitDelivery,
         CommitDeliveryFails, Sound, HookPhases
<1>2. Live' = Live /\ \A n : NameTaken(n)' = NameTaken(n)
  BY <1>1 DEF Live, NameTaken
<1>3. NamesAreUnique'
  BY <1>1, <1>2 DEF IntakeInv, NamesAreUnique
<1>4. CASE FindDelivery(r)
  <2>1. PICK q \in {Idle, [req[r] EXCEPT !.phase = "new"]} :
          /\ req' = [req EXCEPT ![r] = q] /\ req[r].phase = "verified"
          /\ \/ acked' = acked \cup {req[r].key} /\ req[r].key \in stored
             \/ acked' = acked
          /\ UNCHANGED <<stored, sender, accepts, unsaved>>
    BY <1>4 DEF FindDelivery
  <2>2. q \in Request /\ q.own = {} /\ Sound(q)
    BY <1>1, <2>1, IdleIsSound DEF Sound, Request, ScanPhases, HookPhases, Idle
  <2>3. \A s \in Requests : req'[s] = IF s = r THEN q ELSE req[s]
    BY <1>1, <2>1
  <2>4. TypeOK'
    BY <1>1, <2>1, <2>2 DEF IntakeInv, TypeOK
  <2>5. RequestsInv'
    <3>1. ASSUME NEW s \in Requests PROVE Sound(req[s])'
      BY <1>1, <1>2, <2>1, <2>2, <2>3 DEF IntakeInv, RequestsInv, Sound
    <3>2. ASSUME NEW s \in Requests, NEW t \in Requests, s # t PROVE Apart(req[s], req[t])'
      BY <2>2, <2>3, <3>2 DEF IntakeInv, RequestsInv, Apart, Fallback
    <3>. QED BY <3>1, <3>2 DEF RequestsInv
  <2>6. ReferencesAreLive' /\ Counted'
    BY <1>1, <1>2, <2>1 DEF IntakeInv, ReferencesAreLive, Counted
  <2>7. AcknowledgedIsStored'
    <3>1. \A s \in Requests : Owns(s, "delivery") => s # r
      BY <1>1, <2>1 DEF Owns, Sound
    <3>. QED BY <2>1, <2>3, <3>1 DEF IntakeInv, AcknowledgedIsStored, Owns
  <2>. QED BY <1>3, <2>4, <2>5, <2>6, <2>7 DEF IntakeInv
<1>5. CASE InsertDelivery(r)
  <2>. DEFINE q == [req[r] EXCEPT !.phase = "answered", !.own = {"delivery"}]
  <2>1. /\ req[r].phase = "new" /\ req[r].key \notin stored /\ ~ KeyFlushed(req[r].key)
        /\ req[r].conn \in Live /\ acked' = acked \cup {req[r].key}
        /\ UNCHANGED <<stored, sender, accepts, unsaved>>
    BY <1>5 DEF InsertDelivery
  <2>2. \A s \in Requests : req'[s] = IF s = r THEN q ELSE req[s]
    BY <1>1, <1>5 DEF InsertDelivery
  <2>3. /\ q \in Request /\ q.phase = "answered" /\ q.own = {"delivery"}
        /\ q.key = req[r].key /\ q.conn = req[r].conn
    BY <1>1 DEF Request, HookPhases
  <2>4. TypeOK'
    <3>1. req' = [req EXCEPT ![r] = q]
      BY <1>1, <1>5, <2>2 DEF InsertDelivery
    <3>. HIDE DEF q
    <3>. QED BY <1>1, <2>1, <2>3, <3>1 DEF IntakeInv, TypeOK
  <2>. HIDE DEF q
  <2>5. Sound(q)
    BY <1>1, <2>1, <2>3 DEF Sound, ScanPhases, HookPhases
  <2>6. RequestsInv'
    <3>1. ASSUME NEW s \in Requests PROVE Sound(req[s])'
      BY <1>1, <1>2, <2>1, <2>2, <2>5 DEF IntakeInv, RequestsInv, Sound
    <3>2. ASSUME NEW s \in Requests \ {r} PROVE Apart(q, req[s]) /\ Apart(req[s], q)
      BY <2>1, <2>3 DEF Apart, KeyFlushed, Owns
    <3>3. ASSUME NEW s \in Requests, NEW t \in Requests, s # t PROVE Apart(req[s], req[t])'
      BY <2>2, <3>2, <3>3 DEF IntakeInv, RequestsInv, Apart, Fallback
    <3>. QED BY <3>1, <3>3 DEF RequestsInv
  <2>7. ReferencesAreLive' /\ Counted'
    BY <1>1, <1>2, <2>1 DEF IntakeInv, ReferencesAreLive, Counted
  <2>8. AcknowledgedIsStored'
    <3>1. \A s \in Requests : Owns(s, "delivery") => Owns(s, "delivery")' /\ req'[s].key = req[s].key
      BY <2>2, <2>3 DEF Owns
    <3>2. Owns(r, "delivery")' /\ req'[r].key = req[r].key
      BY <2>2, <2>3 DEF Owns
    <3>. QED BY <2>1, <3>1, <3>2 DEF IntakeInv, AcknowledgedIsStored
  <2>. QED BY <1>3, <2>4, <2>6, <2>7, <2>8 DEF IntakeInv
<1>6. CASE CommitDelivery(r) \/ CommitDeliveryFails(r)
  <2>. DEFINE k == req[r].key
  <2>1. /\ req[r].phase = "answered" /\ "delivery" \in req[r].own
        /\ k \in Keys /\ k \notin stored /\ req[r].conn \in Live
        /\ req' = [req EXCEPT ![r] = Idle] /\ acked' = acked
        /\ \/ /\ stored' = stored \cup {k} /\ sender' = [sender EXCEPT ![k] = req[r].conn]
              /\ accepts' = [accepts EXCEPT ![k] = @ + 1] /\ unsaved' = unsaved
           \/ unsaved' = unsaved \cup {k} /\ UNCHANGED <<stored, sender, accepts>>
    BY <1>1, <1>6 DEF CommitDelivery, CommitDeliveryFails, Sound
  <2>2. \A s \in Requests : req'[s] = IF s = r THEN Idle ELSE req[s]
    BY <1>1, <2>1
  <2>3. accepts \in [Keys -> Nat] /\ sender \in [Keys -> Connections \cup {None}] /\ accepts[k] = 0
    BY <2>1 DEF IntakeInv, TypeOK, Counted
  <2>4. TypeOK'
    <3>1. [accepts EXCEPT ![k] = @ + 1] \in [Keys -> Nat]
      BY <2>1, <2>3
    <3>. QED BY <1>1, <2>1, <2>3, <3>1, IdleIsSound DEF IntakeInv, TypeOK
  <2>5. RequestsInv'
    <3>1. ASSUME NEW s \in Requests \ {r} PROVE Sound(req[s])'
      <4>1. /\ Sound(req[s]) /\ Apart(req[r], req[s]) /\ req'[s] = req[s]
            /\ "delivery" \in req[s].own => req[s].key # k
        BY <2>1, <2>2 DEF IntakeInv, RequestsInv, Apart
      <4>. QED BY <1>1, <1>2, <2>1, <4>1 DEF Sound
    <3>2. Sound(req[r])'
      BY <2>2 DEF Sound, Idle, ScanPhases, HookPhases
    <3>3. ASSUME NEW s \in Requests, NEW t \in Requests, s # t PROVE Apart(req[s], req[t])'
      BY <2>2, <3>3, IdleIsSound DEF IntakeInv, RequestsInv, Apart, Fallback
    <3>. QED BY <3>1, <3>2, <3>3 DEF RequestsInv
  <2>6. ReferencesAreLive'
    BY <1>1, <1>2, <2>1, <2>3 DEF IntakeInv, ReferencesAreLive
  <2>7. Counted'
    BY <2>1, <2>3 DEF IntakeInv, Counted
  <2>8. AcknowledgedIsStored'
    BY <2>1, <2>2 DEF IntakeInv, AcknowledgedIsStored, Owns
  <2>. QED BY <1>3, <2>4, <2>5, <2>6, <2>7, <2>8 DEF IntakeInv
<1>. QED BY <1>4, <1>5, <1>6

--------------------------------------------------------------------------------
LEMMA IntakeStep == IntakeInv /\ [Next]_vars => IntakeInv'
<1>. SUFFICES ASSUME IntakeInv, [Next]_vars PROVE IntakeInv'
  OBVIOUS
<1>1. ASSUME NEW r \in Requests, Begin(r) PROVE IntakeInv'
  BY <1>1, TargetSteps, CountInv, VerifyInv DEF Begin
<1>2. ASSUME NEW r \in Requests, Proceed(r) PROVE IntakeInv'
  <2>1. CASE RefuseAdmin(r) \/ RefuseDelivery(r)
    BY <2>1, EndInv DEF RefuseAdmin, RefuseDelivery
  <2>. QED BY <1>2, <2>1, TargetSteps, CommitTargetInv, DeleteSourceInv, DeliverySteps DEF Proceed
<1>3. ASSUME NEW r \in Requests, Fail(r) \/ CommitDeliveryFails(r) PROVE IntakeInv'
  BY <1>3, EndInv, DeliverySteps DEF Fail
<1>4. CASE UNCHANGED vars
  <2>1. Live' = Live /\ \A n : NameTaken(n)' = NameTaken(n)
    BY <1>4 DEF vars, Live, NameTaken
  <2>. QED BY <1>4, <2>1 DEF vars, IntakeInv, TypeOK, RequestsInv, Sound, Apart, Fallback, ReferencesAreLive,
              NamesAreUnique, Counted, AcknowledgedIsStored, Owns
<1>. QED BY <1>1, <1>2, <1>3, <1>4, CreateSourceInv, RotateSecretInv DEF Next

LEMMA IntakeInvariant == Spec => []IntakeInv
  BY IntakeInit, IntakeStep, PTL DEF Spec

(* The rows and the requests have their types.                             *)
THEOREM IntakeTypeCorrect == Spec => []TypeOK
<1>1. IntakeInv => TypeOK
  BY DEF IntakeInv
<1>. QED BY <1>1, IntakeInvariant, PTL

(* No repository and no stored delivery refers to a connection that is     *)
(* gone, whatever comes between a check and its INSERT or DELETE.          *)
THEOREM NoDanglingReferences == Spec => []ReferencesAreLive
<1>1. IntakeInv => ReferencesAreLive
  BY DEF IntakeInv
<1>. QED BY <1>1, IntakeInvariant, PTL

(* A request that is about to commit a scan has a repository and a         *)
(* connection to commit it for.                                            *)
THEOREM TargetsExist == Spec => []ScanTargetExists
<1>1. IntakeInv => ScanTargetExists
  <2>. SUFFICES ASSUME IntakeInv, NEW r \in Requests, req[r].phase = "registered"
                PROVE  LET c == Target(r).conn IN c \in Live \/ (Owns(r, "conn") /\ c = req[r].conn)
    BY DEF ScanTargetExists
  <2>1. Sound(req[r]) /\ req[r].name \in FullNames
    BY DEF IntakeInv, RequestsInv, Sound, ScanPhases
  <2>. QED BY <2>1 DEF Sound, Target, Owns, IntakeInv, ReferencesAreLive
<1>. QED BY <1>1, IntakeInvariant, PTL

(* Whoever is waited for holds its repository or its delivery and waits    *)
(* for nobody, or holds a connection and waits at most for a repository.   *)
THEOREM NoCircularWait == Spec => []WaitsAreShort
<1>1. IntakeInv => WaitsAreShort
  <2>. SUFFICES ASSUME IntakeInv, NEW p \in Requests, NEW q \in Requests, NEW r \in Requests, NEW s \in Requests,
                       WaitsFor(p, q), WaitsFor(q, r), WaitsFor(r, s)
                PROVE  FALSE
    BY DEF WaitsAreShort
  <2>1. Sound(req[q]) /\ Sound(req[r])
    BY DEF IntakeInv, RequestsInv
  <2>2. req[q].phase = "missing"
    BY <2>1 DEF WaitsFor, Owns, Sound
  <2>3. req[r].phase = "registered"
    BY <2>1, <2>2 DEF WaitsFor, Owns, Sound
  <2>. QED BY <2>3 DEF WaitsFor
<1>. QED BY <1>1, IntakeInvariant, PTL

(* Where a guard of Proceed is in the way there is somebody to wait for,   *)
(* and that one is in the middle of its request.                           *)
LEMMA HeldUpWaits ==
  ASSUME IntakeInv, NEW r \in Requests, req[r].phase # "idle", ~ CanProceed(r)
  PROVE  \E s \in Requests : WaitsFor(r, s)
<1>1. req[r].phase \in {"counted", "no_default", "missing", "new"}
  BY DEF IntakeInv, TypeOK, Request, ScanPhases, AdminPhases, HookPhases, CanProceed
<1>2. CASE req[r].phase = "counted"
  BY <1>2 DEF CanProceed, LockedByInsert, WaitsFor
<1>3. CASE req[r].phase = "no_default"
  BY <1>3 DEF CanProceed, NameFlushed, WaitsFor
<1>4. CASE req[r].phase = "missing"
  BY <1>4 DEF CanProceed, RepoFlushed, WaitsFor
<1>5. CASE req[r].phase = "new"
  BY <1>5 DEF CanProceed, KeyFlushed, WaitsFor
<1>. QED BY <1>1, <1>2, <1>3, <1>4, <1>5

LEMMA WaitedForIsBusy ==
  ASSUME IntakeInv, NEW r \in Requests, NEW s \in Requests, WaitsFor(r, s)
  PROVE  req[s].phase # "idle"
<1>1. Sound(req[s]) /\ (Owns(s, "conn") \/ Owns(s, "repo") \/ Owns(s, "delivery"))
  BY DEF IntakeInv, RequestsInv, WaitsFor
<1>. QED BY <1>1 DEF Sound, Owns

(* However many requests race, they never all stand still: two waits away  *)
(* from a request that is held up, at most, one goes on.                   *)
THEOREM NobodyWaitsForNothing == Spec => []SomebodyGoesOn
<1>1. IntakeInv /\ WaitsAreShort => SomebodyGoesOn
  <2>. SUFFICES ASSUME IntakeInv, WaitsAreShort, NEW r \in Requests, req[r].phase # "idle", ~ CanProceed(r)
                PROVE  \E s \in Requests :
                         /\ WaitsFor(r, s)
                         /\ CanProceed(s) \/ \E t \in Requests : WaitsFor(s, t) /\ CanProceed(t)
    BY DEF SomebodyGoesOn
  <2>1. PICK s \in Requests : WaitsFor(r, s)
    BY HeldUpWaits
  <2>2. SUFFICES ASSUME ~ CanProceed(s)
                 PROVE  \E t \in Requests : WaitsFor(s, t) /\ CanProceed(t)
    BY <2>1
  <2>3. PICK t \in Requests : WaitsFor(s, t)
    BY <2>1, <2>2, WaitedForIsBusy, HeldUpWaits
  <2>4. CanProceed(t)
    <3>. SUFFICES ASSUME ~ CanProceed(t) PROVE FALSE
      OBVIOUS
    <3>1. PICK u \in Requests : WaitsFor(t, u)
      BY <2>3, WaitedForIsBusy, HeldUpWaits
    <3>. QED BY <2>1, <2>3, <3>1 DEF WaitsAreShort
  <2>. QED BY <2>3, <2>4
<1>. QED BY <1>1, NoCircularWait, IntakeInvariant, PTL

(* Two live connections never share a name.                                *)
THEOREM NamesStayUnique == Spec => []NamesAreUnique
<1>1. IntakeInv => NamesAreUnique
  BY DEF IntakeInv
<1>. QED BY <1>1, IntakeInvariant, PTL

(* However often a delivery is sent, one row is stored for it.             *)
THEOREM DeliveriesStoredOnce == Spec => []AcceptedOnce
<1>1. IntakeInv => AcceptedOnce
  BY DEF IntakeInv, Counted, AcceptedOnce
<1>. QED BY <1>1, IntakeInvariant, PTL

(* An acknowledged delivery is stored, about to be, or was lost by a       *)
(* failed commit and nothing else.                                         *)
THEOREM AcknowledgementsKept == Spec => []AcknowledgedIsStored
<1>1. IntakeInv => AcknowledgedIsStored
  BY DEF IntakeInv
<1>. QED BY <1>1, IntakeInvariant, PTL

--------------------------------------------------------------------------------
(* The committed rows alone.  What a request has flushed is what the       *)
(* constraints still allow when it commits: its id and its keys are free,  *)
(* and what its rows refer to is there (Sound).                            *)

LEMMA CommitTargetStores ==
  ASSUME IntakeInv, NEW r \in Requests, CommitTarget(r)
  PROVE  Store!StoreNext
<1>. DEFINE q == req[r]
<1>1. q.phase = "registered" /\ Sound(q) /\ TypeOK /\ q \in Request
  BY DEF CommitTarget, IntakeInv, RequestsInv, TypeOK
<1>2. q.conn \in Connections /\ q.host \in Hosts /\ q.name \in FullNames
  BY <1>1 DEF Sound, ScanPhases
<1>3. PICK c \in Connections, h \in Hosts, n \in FullNames : c = q.conn /\ h = q.host /\ n = q.name
  BY <1>2
<1>4. /\ conn' = IF Owns(r, "conn") THEN [conn EXCEPT ![c] = DefaultRow(GuessProvider[h])] ELSE conn
      /\ repo' = IF Owns(r, "repo") THEN [repo EXCEPT ![n] = [conn |-> c, host |-> h]] ELSE repo
      /\ stored' = stored /\ sender' = sender
  BY <1>3 DEF CommitTarget, deliveryVars
<1>5. \/ conn' = conn
      \/ Store!InsertConnection(c, DefaultName[GuessProvider[h]], GuessProvider[h], None, FALSE)
  <2>1. CASE Owns(r, "conn")
    <3>1. conn[c] = Unused /\ ~ NameTaken(DefaultName[GuessProvider[h]])
      BY <1>1, <1>3, <2>1 DEF Sound, Owns, Fallback
    <3>. QED BY <1>4, <2>1, <3>1
         DEF Store!InsertConnection, Store!NoRow, Store!Live, Unused, NameTaken, Live, DefaultRow
  <2>. QED BY <1>4, <2>1
<1>6. \/ repo[n] # None /\ repo' = repo
      \/ /\ repo[n] = None /\ conn'[c].st = "live"
         /\ repo' = [repo EXCEPT ![n] = [conn |-> c, host |-> h]]
  <2>1. CASE Owns(r, "repo")
    <3>1. repo[n] = None /\ (c \in Live \/ Owns(r, "conn"))
      BY <1>1, <1>3, <2>1 DEF Sound, Owns
    <3>2. conn'[c].st = "live"
      BY <1>1, <1>4, <3>1 DEF Live, DefaultRow, TypeOK
    <3>. QED BY <1>4, <2>1, <3>1, <3>2
  <2>2. CASE ~ Owns(r, "repo")
    BY <1>1, <1>3, <1>4, <2>2 DEF Sound, Owns
  <2>. QED BY <2>1, <2>2
<1>7. Store!RegisterTarget(c, h, n)
  BY <1>4, <1>5, <1>6 DEF Store!RegisterTarget
<1>. QED BY <1>7 DEF Store!StoreNext

LEMMA CommitDeliveryStores ==
  ASSUME IntakeInv, NEW r \in Requests, CommitDelivery(r)
  PROVE  Store!StoreNext
<1>. DEFINE q == req[r]
<1>1. q.phase = "answered" /\ Sound(q)
  BY DEF CommitDelivery, IntakeInv, RequestsInv
<1>2. q.conn \in Connections /\ q.key \in Keys /\ q.key \notin stored /\ q.conn \in Live
  BY <1>1 DEF Sound, HookPhases
<1>3. PICK c \in Connections, k \in Keys : c = q.conn /\ k = q.key
  BY <1>2
<1>4. Store!StoreDelivery(k, c)
  BY <1>2, <1>3 DEF CommitDelivery, Store!StoreDelivery, Store!Live, Live
<1>. QED BY <1>4 DEF Store!StoreNext

LEMMA DeleteSourceStores ==
  ASSUME IntakeInv, NEW r \in Requests, DeleteSource(r)
  PROVE  Store!StoreNext
<1>1. PICK c \in Connections : c = req[r].conn
  BY DEF DeleteSource, Live
<1>2. Deleted = Store!NoRow("deleted")
  <2>. DEFINE Blank == [st: {"unused"}, name: {None}, provider: {None}, base: {None}, keyed: {FALSE}]
  <2>1. \A x \in Blank : [x EXCEPT !.st = "deleted"] =
          [st |-> "deleted", name |-> x.name, provider |-> x.provider, base |-> x.base, keyed |-> x.keyed]
    OBVIOUS
  <2>2. Unused \in Blank
    BY DEF Unused
  <2>. QED BY <2>1, <2>2 DEF Deleted, Unused, Store!NoRow
<1>3. c \in Live /\ \A n \in FullNames : repo[n] # None => repo[n].conn # c
  BY <1>1 DEF DeleteSource, Referred
<1>4. /\ conn' = [conn EXCEPT ![c] = Deleted] /\ UNCHANGED <<repo, stored>>
      /\ sender' = [k \in Keys |-> IF sender[k] = c THEN None ELSE sender[k]]
  BY <1>1 DEF DeleteSource
<1>5. Store!DeleteSource(c)
  BY <1>2, <1>3, <1>4 DEF Store!DeleteSource, Store!Live, Live
<1>. QED BY <1>5 DEF Store!StoreNext

LEMMA StoreSteps ==
  ASSUME IntakeInv, [Next]_vars
  PROVE  [Store!StoreNext]_Store!storeVars
<1>1. ASSUME NEW c \in Connections, NEW n \in Names, NEW p \in Providers,
             NEW b \in BaseHosts \cup {None}, CreateSource(c, n, p, b)
      PROVE  Store!StoreNext
  <2>1. Store!CreateSource(c, n, p, b)
    BY <1>1 DEF CreateSource, FreshId, NameTaken, Live, Unused, deliveryVars,
       Store!CreateSource, Store!InsertConnection, Store!NoRow, Store!Live
  <2>. QED BY <2>1 DEF Store!StoreNext
<1>2. ASSUME NEW c \in Connections, RotateSecret(c)
      PROVE  Store!StoreNext
  <2>1. Store!RotateSecret(c)
    BY <1>2 DEF RotateSecret, Live, deliveryVars, Store!RotateSecret, Store!Live
  <2>. QED BY <2>1 DEF Store!StoreNext
<1>3. ASSUME NEW r \in Requests, NEW next, Advance(r, next)
      PROVE  UNCHANGED Store!storeVars
  BY <1>3 DEF Advance, deliveryVars, Store!storeVars
<1>4. ASSUME NEW r \in Requests, Begin(r)
      PROVE  UNCHANGED Store!storeVars
  BY <1>3, <1>4 DEF Begin, CountRepositories, ResolveByHost, ResolveExplicit, Verify
<1>5. ASSUME NEW r \in Requests,
             \/ RefuseAdmin(r) \/ FindDefault(r) \/ (\E c \in Connections : InsertDefault(r, c))
             \/ FindRepository(r) \/ InsertRepository(r) \/ RefuseTarget(r) \/ RefuseDelivery(r)
             \/ Fail(r)
      PROVE  UNCHANGED Store!storeVars
  BY <1>3, <1>5 DEF RefuseAdmin, FindDefault, InsertDefault, FindRepository, InsertRepository,
     RefuseTarget, RefuseDelivery, Fail, EndUnchanged
<1>6. ASSUME NEW r \in Requests, FindDelivery(r) \/ InsertDelivery(r) \/ CommitDeliveryFails(r)
      PROVE  UNCHANGED Store!storeVars
  BY <1>6 DEF FindDelivery, InsertDelivery, CommitDeliveryFails, Store!storeVars
<1>7. CASE UNCHANGED vars
  BY <1>7 DEF vars, deliveryVars, Store!storeVars
<1>. QED
  BY <1>1, <1>2, <1>4, <1>5, <1>6, <1>7, CommitTargetStores, CommitDeliveryStores, DeleteSourceStores
     DEF Next, Proceed

(* Flushing rows first and committing them later is as good as inserting   *)
(* them at the commit: each transaction takes effect at once, within the   *)
(* constraints of the schema.                                              *)
THEOREM TransactionsAreAtomic == Spec => ImplementsStore
<1>1. Init => Store!StoreInit
  BY DEF Init, Unused, Store!StoreInit, Store!NoRow
<1>. QED BY <1>1, IntakeInvariant, StoreSteps, PTL DEF Spec, ImplementsStore, Store!StoreSpec
================================================================================
