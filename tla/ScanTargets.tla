------------------------------ MODULE ScanTargets ------------------------------
(***************************************************************************)
(* resolve_scan_target, as POST scans calls it: a clone URL, and perhaps a *)
(* connection id, become a connection and a repository of the organisation. *)
(* Both are looked up and, on first sight, inserted, in steps that other   *)
(* requests can come between.                                              *)
(***************************************************************************)
EXTENDS SourceConnections

(* Names that start with "default-": the anonymous fallback connections,   *)
(* and whatever connection a user gives such a name.                       *)
Reserved == {DefaultName[p] : p \in Providers}

HostOf(c) == IF conn[c].base # None THEN conn[c].base ELSE CloudHost[conn[c].provider]

Matches(h)     == {c \in Live : HostOf(c) = h}
RealMatches(h) == {c \in Matches(h) : conn[c].name \notin Reserved}

Scan(phase, c, h, n) == [Idle EXCEPT !.phase = phase, !.conn = c, !.host = h, !.name = n]

ResolveExplicit(r, c, h, n) ==
  /\ req[r].phase = "idle"
  /\ c \in Live
  /\ Advance(r, Scan("sourced", c, h, n))

(* One query reads the connections.  Several real matches are answered 409. *)
ResolveByHost(r, h, n) ==
  /\ req[r].phase = "idle"
  /\ \/ \E c \in Live : RealMatches(h) = {c} /\ Advance(r, Scan("sourced", c, h, n))
     \/ /\ RealMatches(h) = {}
        /\ \E c \in Live : Matches(h) = {c} /\ Advance(r, Scan("sourced", c, h, n))
     \/ /\ RealMatches(h) = {}
        /\ \A c \in Live : Matches(h) # {c}
        /\ Advance(r, Scan("fallback", None, h, n))

(* get_or_create_default_source selects by name, so it may return a        *)
(* connection that a user has given the reserved name ...                  *)
FindDefault(r) ==
  /\ req[r].phase = "fallback"
  /\ \/ \E c \in Live :
          /\ conn[c].name = FallbackName(r)
          /\ Advance(r, [req[r] EXCEPT !.phase = "sourced", !.conn = c])
     \/ /\ ~ NameTaken(FallbackName(r))
        /\ Advance(r, [req[r] EXCEPT !.phase = "no_default"])

(* Mutant: the new row is looked up again, in a session that does not see  *)
(* it.                                                                     *)
InsertDefaultAndSelect(r, c) ==
  /\ req[r].phase = "no_default"
  /\ ~ NameTaken(FallbackName(r)) /\ ~ NameFlushed(FallbackName(r))
  /\ FreshId(c)
  /\ Advance(r, [req[r] EXCEPT !.phase = "fallback", !.conn = c, !.own = {"conn"}])

(* ... or flushes a new row.                                               *)
InsertDefault(r, c) ==
  /\ req[r].phase = "no_default"
  /\ ~ NameTaken(FallbackName(r)) /\ ~ NameFlushed(FallbackName(r))
  /\ FreshId(c)
  /\ Advance(r, [req[r] EXCEPT !.phase = "sourced", !.conn = c, !.own = {"conn"}])

(* get_or_create_repository selects by full_name alone: the row it finds   *)
(* may belong to another connection and another host.                      *)
FindRepository(r) ==
  /\ req[r].phase = "sourced"
  /\ Advance(r, [req[r] EXCEPT !.phase =
                   IF repo[req[r].name] # None THEN "registered" ELSE "missing"])

RepoFlushed(n) == \E s \in Requests : Owns(s, "repo") /\ req[s].name = n

SourceExists(r) == req[r].conn \in Live \/ Owns(r, "conn")

(* Mutant: no unique constraint on full names; the last commit wins.       *)
InsertRepositoryAnyway(r) ==
  /\ req[r].phase = "missing"
  /\ SourceExists(r)
  /\ Advance(r, [req[r] EXCEPT !.phase = "registered", !.own = @ \cup {"repo"}])

InsertRepository(r) ==
  /\ req[r].phase = "missing"
  /\ repo[req[r].name] = None /\ ~ RepoFlushed(req[r].name)
  /\ SourceExists(r)
  /\ Advance(r, [req[r] EXCEPT !.phase = "registered", !.own = @ \cup {"repo"}])

(* Mutant: the fallback is named after the provider alone.                 *)
DefaultRowUnprefixed(p) ==
  [st |-> "live", name |-> p, provider |-> p, base |-> None, keyed |-> FALSE]

DefaultRow(p) ==
  [st |-> "live", name |-> DefaultName[p], provider |-> p, base |-> None, keyed |-> FALSE]

(* The repository a registered request will have its scan clone.           *)
Target(r) ==
  IF Owns(r, "repo") THEN [conn |-> req[r].conn, host |-> req[r].host] ELSE repo[req[r].name]

(* The scan_jobs row is inserted and the request commits (what happens to  *)
(* the scan from there on is ScanOrchestration).                           *)
CommitTarget(r) ==
  LET q == req[r] IN
  /\ q.phase = "registered"
  /\ conn' = IF Owns(r, "conn")
               THEN [conn EXCEPT ![q.conn] = DefaultRow(GuessProvider[q.host])] ELSE conn
  /\ repo' = IF Owns(r, "repo")
               THEN [repo EXCEPT ![q.name] = [conn |-> q.conn, host |-> q.host]] ELSE repo
  /\ req' = [req EXCEPT ![r] = Idle]
  /\ UNCHANGED deliveryVars

(* The flush of a row whose key or parent another request has settled      *)
(* meanwhile raises an IntegrityError: a 500, and everything is rolled back. *)
(* A request that the bound on connections leaves no id for ends here too. *)
RefuseTarget(r) ==
  /\ \/ /\ req[r].phase = "no_default"
        /\ NameTaken(FallbackName(r)) \/ \A c \in Connections : ~ FreshId(c)
     \/ req[r].phase = "missing" /\ (repo[req[r].name] # None \/ ~ SourceExists(r))
  /\ EndUnchanged(r)
================================================================================
