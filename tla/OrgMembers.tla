------------------------------ MODULE OrgMembers ------------------------------
(***************************************************************************)
(* Organisations, their members and their API tokens, under concurrent     *)
(* requests.  A request is one READ COMMITTED transaction that commits when *)
(* the handler ends.  What it reads first (the caller's role, the target's *)
(* role, the number of owners) can be out of date when it writes.  A       *)
(* handler whose reads only choose between two errors is one action; one   *)
(* that reads, decides and then writes is a step per read and a commit.    *)
(*                                                                         *)
(* A token request stamps last_used_at, and so holds the row lock of its   *)
(* token from its first query to its end: requests of one token follow     *)
(* each other, and who wants to change that row waits.                     *)
(***************************************************************************)
EXTENDS Integers, FiniteSets

CONSTANTS
  Orgs,         \* slugs: at most one org row has each
  Users,        \* rows of the users table
  DirectUsers,  \* users who authenticate as themselves (today the dev identity)
  Tokens,       \* token rows, each minted at most once
  Requests,     \* requests in flight at a time
  BodyRoles,    \* roles that request bodies name in this instance
  None          \* no row, no role, no caller

Rank == [viewer |-> 0, member |-> 1, admin |-> 2, owner |-> 3]
Roles == DOMAIN Rank
RoleAtLeast(role, minimum) == Rank[role] >= Rank[minimum]

ASSUME CallersAssumption ==
  /\ IsFiniteSet(Users)
  /\ DirectUsers \subseteq Users
  /\ Users \cap Tokens = {}
ASSUME RolesAssumption == BodyRoles \subseteq Roles
ASSUME NoneAssumption  ==
  None \notin Orgs \cup Users \cup Tokens \cup Requests \cup Roles

VARIABLES
  orgs,      \* slugs with an org row
  member,    \* org_members: the role of each user in each org, None if no row
  token,     \* api_tokens
  req,       \* the requests in flight
  peak,      \* history: the rank of the highest role a user has held in the org
  overtaken  \* history: requests that a membership write of another one overtook

vars == <<orgs, member, token, req, peak, overtaken>>

Callers == DirectUsers \cup Tokens

(* "auth": the token row is read, its lock not yet held.  "ctx": the       *)
(* OrgContext exists.  "loaded", "checked": update_member / remove_member  *)
(* have loaded the target, have passed the owner count.  "revoking",       *)
(* "deleting": the UPDATE or DELETE statement is sent and may wait.        *)
InContext == {"ctx", "loaded", "checked", "revoking", "deleting"}
Phases    == {"idle", "auth"} \cup InContext

RequestFields ==
  [phase: Phases, who: Callers \cup {None}, org: Orgs \cup {None},
   ctx: Roles \cup {None},              \* OrgContext.role
   target: Users \cup Tokens \cup {None},
   seen: Roles \cup {None},             \* the loaded role of the target
   body: Roles \cup {None},             \* the role to write; None removes the row
   lost: SUBSET {"org", "row"}]         \* rows it relies on that were deleted since

Request ==
  {q \in RequestFields :
     /\ q.phase # "idle" => q.who # None /\ q.ctx # None
     /\ q.phase = "auth" => q.who \in Tokens
     /\ q.phase \in InContext => q.org # None
     /\ q.phase \in {"loaded", "checked"} => q.target \in Users /\ q.seen # None
     /\ q.phase = "revoking" => q.target \in Tokens}

Idle == [phase |-> "idle", who |-> None, org |-> None, ctx |-> None,
         target |-> None, seen |-> None, body |-> None, lost |-> {}]

Unminted == [st |-> "unminted", org |-> None, by |-> None, role |-> None]
Token == {Unminted} \cup
  [st: {"live", "revoked", "deleted"}, org: Orgs, by: Users \cup {None}, role: Roles]

TypeOK ==
  /\ orgs \subseteq Orgs
  /\ member \in [Orgs -> [Users -> Roles \cup {None}]]
  /\ token \in [Tokens -> Token]
  /\ req \in [Requests -> Request]
  /\ peak \in [Orgs -> [Users -> -1 .. 3]]
  /\ overtaken \subseteq Requests

Init ==
  /\ orgs = {}
  /\ member = [o \in Orgs |-> [u \in Users |-> None]]
  /\ token = [t \in Tokens |-> Unminted]
  /\ req = [r \in Requests |-> Idle]
  /\ peak = [o \in Orgs |-> [u \in Users |-> -1]]
  /\ overtaken = {}

-----------------------------------------------------------------------------
Owners(o) == {u \in Users : member[o][u] = "owner"}
UserOf(c) == IF c \in Tokens THEN token[c].by ELSE c

(* The lock on a token row is held from the flush of last_used_at on.      *)
Holds(r, t) == req[r].who = t /\ req[r].phase \in InContext

WaitsFor(r, s) ==
  /\ r # s
  /\ \/ req[r].phase = "auth" /\ Holds(s, req[r].who)
     \/ req[r].phase = "revoking" /\ Holds(s, req[r].target)
     \/ /\ req[r].phase = "deleting" /\ "org" \notin req[r].lost
        /\ \E t \in Tokens : token[t].org = req[r].org /\ Holds(s, t)

Waiting(r)    == \E s \in Requests : WaitsFor(r, s)
Deadlocked(r) ==
  \E W \in SUBSET Requests :
    r \in W /\ \A s \in W : \E t \in W : WaitsFor(s, t)

RelyingOn(o) == {r \in Requests : req[r].org = o /\ req[r].phase \in InContext}

(* The request r (None: the bootstrap) commits role as the role of user u  *)
(* in org o; role None deletes the row.                                    *)
WriteMember(r, o, u, role) ==
  /\ member' = [member EXCEPT ![o][u] = role]
  /\ peak' = [peak EXCEPT ![o][u] =
                IF role # None /\ Rank[role] > @ THEN Rank[role] ELSE @]
  /\ overtaken' = (overtaken \cup RelyingOn(o)) \ {r}
  /\ req' = [s \in Requests |->
       IF s = r THEN Idle
       ELSE IF role = None /\ s \in RelyingOn(o) /\ req[s].target = u
       THEN [req[s] EXCEPT !.lost = @ \cup {"row"}] ELSE req[s]]

(* The request ends with nothing written.                                  *)
EndUnchanged(r) ==
  /\ req' = [req EXCEPT ![r] = Idle]
  /\ overtaken' = overtaken \ {r}
  /\ UNCHANGED <<orgs, member, token, peak>>

Advance(r, next) ==
  /\ req' = [req EXCEPT ![r] = next]
  /\ UNCHANGED <<orgs, member, token, peak, overtaken>>

-----------------------------------------------------------------------------
(* Authentication and the organisation context.                            *)

(* Mutant: revoked_at is not looked at.                                    *)
AuthenticateRevoked(r, t) ==
  /\ req[r].phase = "idle"
  /\ token[t].st \in {"live", "revoked"}
  /\ Advance(r, [Idle EXCEPT !.phase = "auth", !.who = t, !.ctx = token[t].role])

AuthenticateToken(r, t) ==
  /\ req[r].phase = "idle"
  /\ token[t].st = "live"
  /\ Advance(r, [Idle EXCEPT !.phase = "auth", !.who = t, !.ctx = token[t].role])

(* The flush of last_used_at waits for the row lock, and finds no row if   *)
(* the org was deleted.  A token is answered 404 in every org but its own. *)
AdmitToken(r, o) ==
  /\ req[r].phase = "auth"
  /\ ~Waiting(r)
  /\ token[req[r].who].st # "deleted"
  /\ o \in orgs
  /\ token[req[r].who].org = o
  /\ Advance(r, [req[r] EXCEPT !.phase = "ctx", !.org = o])

AdmitUser(r, u, o) ==
  /\ req[r].phase = "idle"
  /\ o \in orgs
  /\ member[o][u] # None
  /\ Advance(r, [Idle EXCEPT !.phase = "ctx", !.who = u, !.org = o,
                             !.ctx = member[o][u]])

-----------------------------------------------------------------------------
(* Organisations.                                                          *)

(* The caller becomes the owner of the new org.  Only authentication is    *)
(* asked for: a token of another org acts for the user who minted it.      *)
CreateOrg(r, u, o) ==
  /\ \/ req[r].phase = "idle" /\ u \in DirectUsers
     \/ req[r].phase = "ctx" /\ req[r].who \in Tokens /\ u = UserOf(req[r].who)
  /\ o \notin orgs
  /\ orgs' = orgs \cup {o}
  /\ WriteMember(r, o, u, "owner")
  /\ UNCHANGED token

StartDeleteOrg(r) ==
  /\ req[r].phase = "ctx"
  /\ RoleAtLeast(req[r].ctx, "owner")
  /\ "org" \notin req[r].lost
  /\ Advance(r, [req[r] EXCEPT !.phase = "deleting"])

(* Mutant: tokens have no cascade of their own.                            *)
DeleteOrgKeepsTokens(r) ==
  LET o == req[r].org IN
  /\ req[r].phase = "deleting"
  /\ ~Waiting(r)
  /\ "org" \notin req[r].lost
  /\ orgs' = orgs \ {o}
  /\ member' = [member EXCEPT ![o] = [u \in Users |-> None]]
  /\ peak' = [peak EXCEPT ![o] = [u \in Users |-> -1]]
  /\ overtaken' = (overtaken \cup RelyingOn(o)) \ {r}
  /\ req' = [s \in Requests |->
       IF s = r THEN Idle
       ELSE IF s \in RelyingOn(o) THEN [req[s] EXCEPT !.lost = {"org", "row"}]
       ELSE req[s]]
  /\ UNCHANGED token

(* The cascade deletes members and tokens.  A DELETE that finds no row     *)
(* (the org was deleted meanwhile) is only a warning of the ORM.           *)
DeleteOrg(r) ==
  LET o == req[r].org IN
  /\ req[r].phase = "deleting"
  /\ ~Waiting(r)
  /\ "org" \notin req[r].lost
  /\ orgs' = orgs \ {o}
  /\ member' = [member EXCEPT ![o] = [u \in Users |-> None]]
  /\ peak' = [peak EXCEPT ![o] = [u \in Users |-> -1]]
  /\ token' = [t \in Tokens |->
                 IF token[t].org = o THEN [token[t] EXCEPT !.st = "deleted"] ELSE token[t]]
  /\ overtaken' = (overtaken \cup RelyingOn(o)) \ {r}
  /\ req' = [s \in Requests |->
       IF s = r THEN Idle
       ELSE IF s \in RelyingOn(o) THEN [req[s] EXCEPT !.lost = {"org", "row"}]
       ELSE req[s]]

(* ensure_dev_identity and the bootstrap script: an owner row for a user   *)
(* who has none, in an org that is created if need be.                     *)
Bootstrap(o, u) ==
  /\ member[o][u] = None
  /\ orgs' = orgs \cup {o}
  /\ WriteMember(None, o, u, "owner")
  /\ UNCHANGED token

-----------------------------------------------------------------------------
(* Members.                                                                *)

(* Mutant: any admin may add an owner.                                     *)
AddMemberUnranked(r, u, role) ==
  LET o == req[r].org IN
  /\ req[r].phase = "ctx"
  /\ RoleAtLeast(req[r].ctx, "admin")
  /\ "org" \notin req[r].lost
  /\ member[o][u] = None
  /\ WriteMember(r, o, u, role)
  /\ UNCHANGED <<orgs, token>>

(* Inserting needs the org row and no row of that user: a look-up before   *)
(* the insert, foreign key and unique constraint at the commit.            *)
AddMember(r, u, role) ==
  LET o == req[r].org IN
  /\ req[r].phase = "ctx"
  /\ RoleAtLeast(req[r].ctx, "admin")
  /\ role = "owner" => req[r].ctx = "owner"
  /\ "org" \notin req[r].lost
  /\ member[o][u] = None
  /\ WriteMember(r, o, u, role)
  /\ UNCHANGED <<orgs, token>>

(* Mutant: only the new role is compared with owner.                       *)
LoadMemberBodyOnly(r, u, role) ==
  LET seen == member[req[r].org][u] IN
  /\ req[r].phase = "ctx"
  /\ RoleAtLeast(req[r].ctx, "admin")
  /\ "org" \notin req[r].lost
  /\ seen # None
  /\ role = "owner" => req[r].ctx = "owner"
  /\ Advance(r, [req[r] EXCEPT
       !.phase = IF seen = "owner" /\ role # "owner" THEN "loaded" ELSE "checked",
       !.target = u, !.seen = seen, !.body = role])

(* update_member (role) and remove_member (None) load the target.  The 403 *)
(* is decided at once; the owners are counted when one may be lost.        *)
LoadMember(r, u, role) ==
  LET seen == member[req[r].org][u] IN
  /\ req[r].phase = "ctx"
  /\ RoleAtLeast(req[r].ctx, "admin")
  /\ "org" \notin req[r].lost
  /\ seen # None
  /\ "owner" \in {seen, role} => req[r].ctx = "owner"
  /\ Advance(r, [req[r] EXCEPT
       !.phase = IF seen = "owner" /\ role # "owner" THEN "loaded" ELSE "checked",
       !.target = u, !.seen = seen, !.body = role])

(* Mutant: one owner is enough.                                            *)
CountOwnersAtLeastOne(r) ==
  /\ req[r].phase = "loaded"
  /\ "org" \notin req[r].lost
  /\ Cardinality(Owners(req[r].org)) >= 1
  /\ Advance(r, [req[r] EXCEPT !.phase = "checked"])

CountOwners(r) ==
  /\ req[r].phase = "loaded"
  /\ "org" \notin req[r].lost
  /\ Cardinality(Owners(req[r].org)) > 1
  /\ Advance(r, [req[r] EXCEPT !.phase = "checked"])

(* The statement names the loaded row by its id, and sets the role only if *)
(* it differs from the loaded one.  When the row is gone, UPDATE raises    *)
(* and DELETE warns: nothing is written either way.                        *)
CommitMember(r) ==
  /\ req[r].phase = "checked"
  /\ req[r].body # req[r].seen
  /\ req[r].lost = {}
  /\ WriteMember(r, req[r].org, req[r].target, req[r].body)
  /\ UNCHANGED <<orgs, token>>

-----------------------------------------------------------------------------
(* Tokens.                                                                 *)

(* Mutant: the minter is the presented credential, not its user.           *)
CreateTokenByCaller(r, t, role) ==
  /\ req[r].phase = "ctx"
  /\ RoleAtLeast(req[r].ctx, "admin")
  /\ RoleAtLeast(req[r].ctx, role)
  /\ "org" \notin req[r].lost
  /\ token[t].st = "unminted"
  /\ token' = [token EXCEPT ![t] = [st |-> "live", org |-> req[r].org,
                                    by |-> req[r].who, role |-> role]]
  /\ req' = [req EXCEPT ![r] = Idle]
  /\ overtaken' = overtaken \ {r}
  /\ UNCHANGED <<orgs, member, peak>>

(* Mutant: the role of a token is not capped by the caller's.              *)
CreateTokenUncapped(r, t, role) ==
  /\ req[r].phase = "ctx"
  /\ RoleAtLeast(req[r].ctx, "admin")
  /\ "org" \notin req[r].lost
  /\ token[t].st = "unminted"
  /\ token' = [token EXCEPT ![t] = [st |-> "live", org |-> req[r].org,
                                    by |-> UserOf(req[r].who), role |-> role]]
  /\ req' = [req EXCEPT ![r] = Idle]
  /\ overtaken' = overtaken \ {r}
  /\ UNCHANGED <<orgs, member, peak>>

CreateToken(r, t, role) ==
  /\ req[r].phase = "ctx"
  /\ RoleAtLeast(req[r].ctx, "admin")
  /\ RoleAtLeast(req[r].ctx, role)
  /\ "org" \notin req[r].lost
  /\ token[t].st = "unminted"
  /\ token' = [token EXCEPT ![t] = [st |-> "live", org |-> req[r].org,
                                    by |-> UserOf(req[r].who), role |-> role]]
  /\ req' = [req EXCEPT ![r] = Idle]
  /\ overtaken' = overtaken \ {r}
  /\ UNCHANGED <<orgs, member, peak>>

StartRevoke(r, t) ==
  /\ req[r].phase = "ctx"
  /\ RoleAtLeast(req[r].ctx, "admin")
  /\ "org" \notin req[r].lost
  /\ token[t].st = "live" /\ token[t].org = req[r].org
  /\ Advance(r, [req[r] EXCEPT !.phase = "revoking", !.target = t])

RevokeToken(r) ==
  LET t == req[r].target IN
  /\ req[r].phase = "revoking"
  /\ ~Waiting(r)
  /\ token[t].st \in {"live", "revoked"}
  /\ token' = [token EXCEPT ![t].st = "revoked"]
  /\ req' = [req EXCEPT ![r] = Idle]
  /\ overtaken' = overtaken \ {r}
  /\ UNCHANGED <<orgs, member, peak>>

-----------------------------------------------------------------------------
(* The ends without a write.                                               *)

(* Mutant: an UPDATE of a deleted token row never returns.                 *)
AnswerUnlessRevoking(r) ==
  /\ \/ req[r].phase \in {"auth", "ctx"} /\ ~Waiting(r)
     \/ /\ req[r].phase = "loaded"
        /\ "org" \in req[r].lost \/ Cardinality(Owners(req[r].org)) <= 1
     \/ /\ req[r].phase = "checked"
        /\ req[r].lost # {} \/ req[r].body = req[r].seen
     \/ req[r].phase = "deleting" /\ "org" \in req[r].lost
  /\ EndUnchanged(r)

(* A read-only route, a refusal (403, 404, 409), a statement that finds its *)
(* row deleted, or a role that is already as asked.                        *)
Answer(r) ==
  /\ \/ req[r].phase \in {"auth", "ctx"} /\ ~Waiting(r)
     \/ /\ req[r].phase = "loaded"
        /\ "org" \in req[r].lost \/ Cardinality(Owners(req[r].org)) <= 1
     \/ /\ req[r].phase = "checked"
        /\ req[r].lost # {} \/ req[r].body = req[r].seen
     \/ /\ req[r].phase = "revoking" /\ ~Waiting(r)
        /\ token[req[r].target].st = "deleted"
     \/ req[r].phase = "deleting" /\ "org" \in req[r].lost
  /\ EndUnchanged(r)

(* Rolled back: an error of the database, a lost client, a dead process.   *)
Fail(r) == req[r].phase # "idle" /\ EndUnchanged(r)

(* Postgres aborts a transaction that waits in a cycle.                    *)
AbortDeadlocked(r) == Deadlocked(r) /\ EndUnchanged(r)

Begin(r) ==
  \/ \E t \in Tokens : AuthenticateToken(r, t)
  \/ \E u \in DirectUsers, o \in Orgs : AdmitUser(r, u, o)

Proceed(r) ==
  \/ \E o \in Orgs : AdmitToken(r, o)
  \/ StartDeleteOrg(r) \/ DeleteOrg(r)
  \/ \E u \in Users, role \in BodyRoles : AddMember(r, u, role)
  \/ \E u \in Users, role \in BodyRoles \cup {None} : LoadMember(r, u, role)
  \/ CountOwners(r) \/ CommitMember(r)
  \/ \E t \in Tokens, role \in BodyRoles : CreateToken(r, t, role)
  \/ \E t \in Tokens : StartRevoke(r, t)
  \/ RevokeToken(r)
  \/ Answer(r)

Next ==
  \/ \E r \in Requests :
       \/ Begin(r) \/ Proceed(r) \/ Fail(r) \/ AbortDeadlocked(r)
       \/ \E u \in Users, o \in Orgs : CreateOrg(r, u, o)
  \/ \E o \in Orgs, u \in Users : Bootstrap(o, u)

Spec == Init /\ [][Next]_vars

(* A request that can go on does: the event loop runs it, and a row lock is *)
(* granted in the order of the waiters.  Postgres looks for deadlocks.     *)
Fairness ==
  \A r \in Requests : SF_vars(Proceed(r)) /\ WF_vars(AbortDeadlocked(r))

FairSpec == Spec /\ Fairness

-----------------------------------------------------------------------------
(* Properties.                                                             *)

Ends(r) == req[r].phase # "idle" /\ req'[r] = Idle

(* A live org loses its last owner only through a request that another      *)
(* membership write of the org overtook between its first read and its      *)
(* commit: one request at a time, update_member and remove_member keep      *)
(* the rule that the last owner stays.                                     *)
LastOwnerLostInARace ==
  [][\A o \in orgs \cap orgs' :
       Owners(o) # {} /\ Owners(o)' = {} =>
         \E r \in overtaken : req[r].org = o /\ Ends(r)]_vars

(* The authority its caller has now, not when the request began.           *)
Authority(r) ==
  IF req[r].who \in Tokens THEN token[req[r].who].role
                            ELSE member[req[r].org][req[r].who]

(* A membership of a live org is changed by the bootstrap, by the creation  *)
(* of the org, or by a request whose caller has the rank for it at the      *)
(* moment of the commit (owner, where an owner is made or unmade): only an  *)
(* overtaken request acts on a rank that is gone.                          *)
WritersAreAuthorised ==
  [][\A o \in orgs \cap orgs', u \in Users :
       member[o][u] # member'[o][u] =>
         \/ req' = req
         \/ \E r \in Requests :
              /\ Ends(r) /\ req[r].org = o
              /\ \/ r \in overtaken
                 \/ /\ Authority(r) \in Roles
                    /\ RoleAtLeast(Authority(r), "admin")
                    /\ "owner" \in {member[o][u], member'[o][u]} =>
                         Authority(r) = "owner"]_vars

(* Nobody has or is about to use owner rights in o: no member, no token, no *)
(* request.                                                                *)
ActsIn(r, o) ==
  \/ req[r].phase \in InContext /\ req[r].org = o
  \/ req[r].phase = "auth" /\ token[req[r].who].org = o

Ownerless(o) ==
  /\ o \in orgs
  /\ Owners(o) = {}
  /\ \A t \in Tokens : ~(/\ token[t].st = "live" /\ token[t].org = o
                          /\ token[t].role = "owner")
  /\ \A r \in Requests : ~(ActsIn(r, o) /\ req[r].ctx = "owner")

(* Owner rights come from owner rights only: no request gives an org        *)
(* without any of them an owner again, or deletes it.  The bootstrap, which *)
(* is no request and leaves the requests alone, is the only way out.       *)
OwnerlessForGood ==
  [][\A o \in Orgs : Ownerless(o) /\ req' # req => Ownerless(o)']_vars

(* A token never outranks everything its minter has been in the org, along  *)
(* every chain of tokens minted with tokens, whatever roles were read late. *)
TokensWithinLineage ==
  \A t \in Tokens :
    token[t].st \in {"live", "revoked"} =>
      Rank[token[t].role] <= peak[token[t].org][token[t].by]

(* An insert that races the deletion of its org leaves no row behind: what  *)
(* is not an org has no members and no usable token.                       *)
NoOrphanRows ==
  \A o \in Orgs \ orgs :
    /\ \A u \in Users : member[o][u] = None
    /\ \A t \in Tokens : token[t].org = o => token[t].st = "deleted"

(* Every request is answered: waiting for the lock of a token row ends,     *)
(* also when two tokens revoke each other.                                 *)
EveryRequestEnds ==
  \A r \in Requests : req[r].phase # "idle" ~> req[r].phase = "idle"

(* Every route takes effect as if it had run alone at the instant of its    *)
(* commit, although it read its authority, its target and the owners in     *)
(* earlier statements: a token's authority always, a user's, and what was   *)
(* read of the target, unless memberships were written in between.          *)
Registry == INSTANCE OrgRegistry WITH
  who   <- [r \in Requests |-> req[r].who],
  stale <- {<<r, req[r].org>> : r \in overtaken}

ImplementsRegistry == Registry!RegistrySpec

(* members.py promises that an org always keeps an owner.                  *)
LiveOrgHasOwner == \A o \in orgs : Owners(o) # {}
=============================================================================
