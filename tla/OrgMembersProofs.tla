--------------------------- MODULE OrgMembersProofs ---------------------------
(***************************************************************************)
(* Theorems about OrgMembers: its type invariant, what the context of a    *)
(* request says of the rows it was read from, and the lineage of tokens.   *)
(***************************************************************************)
EXTENDS OrgMembers, TLAPS

(* The ranks are ordered as the code orders them.                          *)
LEMMA Ranks ==
  /\ Roles = {"viewer", "member", "admin", "owner"}
  /\ \A role \in Roles : Rank[role] \in 0 .. 3
  /\ \A role \in Roles : RoleAtLeast(role, "owner") <=> role = "owner"
  /\ \A role \in Roles : RoleAtLeast(role, "admin") <=> role \in {"admin", "owner"}
BY DEF Roles, Rank, RoleAtLeast

(* A step that only moves one request on keeps the types.                  *)
LEMMA AdvanceType ==
  ASSUME TypeOK, NEW r \in Requests, NEW next \in Request, Advance(r, next)
  PROVE  TypeOK'
BY DEF TypeOK, Advance

LEMMA IdleType == Idle \in Request
BY DEF Idle, Request, RequestFields, Phases, InContext

LEMMA EndUnchangedType ==
  ASSUME TypeOK, NEW r \in Requests, EndUnchanged(r)
  PROVE  TypeOK'
BY IdleType DEF TypeOK, EndUnchanged

(* So does the commit of a membership.                                     *)
LEMMA WriteMemberType ==
  ASSUME TypeOK, NEW r \in Requests \cup {None}, NEW o \in Orgs, NEW u \in Users,
         NEW role \in Roles \cup {None}, WriteMember(r, o, u, role),
         orgs' \in SUBSET Orgs, token' = token
  PROVE  TypeOK'
<1>1. member' \in [Orgs -> [Users -> Roles \cup {None}]]
  BY DEF TypeOK, WriteMember
<1>2. peak' \in [Orgs -> [Users -> -1 .. 3]]
  <2>1. role # None => Rank[role] \in -1 .. 3
    BY Ranks
  <2>. QED  BY <2>1 DEF TypeOK, WriteMember
<1>3. overtaken' \subseteq Requests
  BY DEF TypeOK, WriteMember, RelyingOn
<1>4. req' \in [Requests -> Request]
  <2>1. ASSUME NEW s \in Requests
        PROVE  [req[s] EXCEPT !.lost = @ \cup {"row"}] \in Request
    BY DEF TypeOK, Request, RequestFields
  <2>. QED  BY <2>1, IdleType DEF TypeOK, WriteMember
<1>. QED  BY <1>1, <1>2, <1>3, <1>4 DEF TypeOK

LEMMA TypeInit == Init => TypeOK
BY IdleType DEF Init, TypeOK, Token

LEMMA TypeNext ==
  ASSUME TypeOK, [Next]_vars
  PROVE  TypeOK'
<1>. USE CallersAssumption, RolesAssumption, NoneAssumption
<1>1. ASSUME NEW r \in Requests, NEW t \in Tokens, AuthenticateToken(r, t)
      PROVE  TypeOK'
  <2>1. token[t].role \in Roles
    BY <1>1 DEF AuthenticateToken, TypeOK, Token, Unminted
  <2>2. [Idle EXCEPT !.phase = "auth", !.who = t, !.ctx = token[t].role] \in Request
    BY <2>1 DEF Idle, Request, RequestFields, Phases, InContext, Callers
  <2>. QED  BY <1>1, <2>2, AdvanceType DEF AuthenticateToken
<1>2. ASSUME NEW r \in Requests, NEW u \in DirectUsers, NEW o \in Orgs, AdmitUser(r, u, o)
      PROVE  TypeOK'
  <2>1. member[o][u] \in Roles
    BY <1>2 DEF AdmitUser, TypeOK
  <2>2. [Idle EXCEPT !.phase = "ctx", !.who = u, !.org = o, !.ctx = member[o][u]] \in Request
    BY <2>1 DEF Idle, Request, RequestFields, Phases, InContext, Callers
  <2>. QED  BY <1>2, <2>2, AdvanceType DEF AdmitUser
<1>3. ASSUME NEW r \in Requests, NEW o \in Orgs, AdmitToken(r, o)
      PROVE  TypeOK'
  <2>1. req[r] \in Request /\ req[r].phase = "auth"
    BY <1>3 DEF TypeOK, AdmitToken
  <2>2. [req[r] EXCEPT !.phase = "ctx", !.org = o] \in Request
    BY <2>1 DEF Request, RequestFields, Phases, InContext
  <2>. QED  BY <1>3, <2>2, AdvanceType DEF AdmitToken
<1>4. ASSUME NEW r \in Requests, StartDeleteOrg(r)
      PROVE  TypeOK'
  <2>1. req[r] \in Request /\ req[r].phase = "ctx"
    BY <1>4 DEF TypeOK, StartDeleteOrg
  <2>2. [req[r] EXCEPT !.phase = "deleting"] \in Request
    BY <2>1 DEF Request, RequestFields, Phases, InContext
  <2>. QED  BY <1>4, <2>2, AdvanceType DEF StartDeleteOrg
<1>5. ASSUME NEW r \in Requests, DeleteOrg(r)
      PROVE  TypeOK'
  <2>1. \A q \in Request : [q EXCEPT !.lost = {"org", "row"}] \in Request
    BY DEF Request, RequestFields
  <2>2. \A t \in Tokens : token[t].org = req[r].org => [token[t] EXCEPT !.st = "deleted"] \in Token
    <3>1. req[r] \in Request /\ req[r].phase = "deleting"
      BY <1>5 DEF DeleteOrg, TypeOK
    <3>2. req[r].org \in Orgs
      BY <3>1 DEF Request, RequestFields, InContext
    <3>3. \A k \in Token : k.org \in Orgs => [k EXCEPT !.st = "deleted"] \in Token
      BY DEF Token, Unminted
    <3>. QED  BY <3>2, <3>3 DEF TypeOK
  <2>3. token' \in [Tokens -> Token] /\ orgs' \subseteq Orgs
    BY <1>5, <2>2 DEF TypeOK, DeleteOrg
  <2>4. /\ member' \in [Orgs -> [Users -> Roles \cup {None}]]
        /\ peak' \in [Orgs -> [Users -> -1 .. 3]]
    <3>1. [u \in Users |-> -1] \in [Users -> -1 .. 3]
      OBVIOUS
    <3>2. [u \in Users |-> None] \in [Users -> Roles \cup {None}]
      OBVIOUS
    <3>. QED  BY <1>5, <3>1, <3>2 DEF TypeOK, DeleteOrg
  <2>5. req' \in [Requests -> Request] /\ overtaken' \subseteq Requests
    BY <1>5, <2>1, IdleType DEF TypeOK, DeleteOrg, RelyingOn
  <2>. QED  BY <2>3, <2>4, <2>5 DEF TypeOK
<1>6. ASSUME NEW r \in Requests, NEW u \in Users, NEW o \in Orgs, CreateOrg(r, u, o)
      PROVE  TypeOK'
  <2>1. orgs' \in SUBSET Orgs /\ token' = token /\ WriteMember(r, o, u, "owner")
    BY <1>6 DEF CreateOrg, TypeOK
  <2>. QED  BY <2>1, Ranks, WriteMemberType
<1>7. ASSUME NEW o \in Orgs, NEW u \in Users, Bootstrap(o, u)
      PROVE  TypeOK'
  <2>1. orgs' \in SUBSET Orgs /\ token' = token /\ WriteMember(None, o, u, "owner")
    BY <1>7 DEF Bootstrap, TypeOK
  <2>. QED  BY <2>1, Ranks, WriteMemberType
<1>8. ASSUME NEW r \in Requests, NEW u \in Users, NEW role \in BodyRoles,
             AddMember(r, u, role)
      PROVE  TypeOK'
  <2>1. orgs' \in SUBSET Orgs /\ token' = token /\ WriteMember(r, req[r].org, u, role)
    BY <1>8 DEF AddMember, TypeOK
  <2>2. req[r].org \in Orgs
    BY <1>8 DEF AddMember, TypeOK, Request, RequestFields, InContext
  <2>. QED  BY <2>1, <2>2, WriteMemberType
<1>9. ASSUME NEW r \in Requests, NEW u \in Users, NEW role \in BodyRoles \cup {None},
             LoadMember(r, u, role)
      PROVE  TypeOK'
  <2>1. req[r].org \in Orgs /\ req[r].phase = "ctx"
    BY <1>9 DEF LoadMember, TypeOK, Request, RequestFields, InContext
  <2>2. member[req[r].org][u] \in Roles /\ req[r] \in Request
    BY <1>9, <2>1 DEF LoadMember, TypeOK
  <2>3. \A p \in {"loaded", "checked"} :
          [req[r] EXCEPT !.phase = p, !.target = u, !.seen = member[req[r].org][u],
                         !.body = role] \in Request
    BY <2>1, <2>2 DEF Request, RequestFields, Phases, InContext
  <2>. QED  BY <1>9, <2>3, AdvanceType DEF LoadMember
<1>10. ASSUME NEW r \in Requests, CountOwners(r)
       PROVE  TypeOK'
  <2>1. req[r] \in Request /\ req[r].phase = "loaded"
    BY <1>10 DEF TypeOK, CountOwners
  <2>2. [req[r] EXCEPT !.phase = "checked"] \in Request
    BY <2>1 DEF Request, RequestFields, Phases, InContext
  <2>. QED  BY <1>10, <2>2, AdvanceType DEF CountOwners
<1>11. ASSUME NEW r \in Requests, CommitMember(r)
       PROVE  TypeOK'
  <2>1. orgs' \in SUBSET Orgs /\ token' = token
        /\ WriteMember(r, req[r].org, req[r].target, req[r].body)
    BY <1>11 DEF CommitMember, TypeOK
  <2>2. req[r].org \in Orgs /\ req[r].target \in Users /\ req[r].body \in Roles \cup {None}
    BY <1>11 DEF CommitMember, TypeOK, Request, RequestFields, InContext
  <2>. QED  BY <2>1, <2>2, WriteMemberType
<1>12. ASSUME NEW r \in Requests, NEW t \in Tokens, NEW role \in BodyRoles,
              CreateToken(r, t, role)
       PROVE  TypeOK'
  <2>1. req[r].org \in Orgs /\ UserOf(req[r].who) \in Users \cup {None}
    <3>1. req[r] \in Request /\ req[r].phase = "ctx"
      BY <1>12 DEF CreateToken, TypeOK
    <3>2. req[r].who \in Callers /\ req[r].org \in Orgs
      BY <3>1 DEF Request, RequestFields, InContext
    <3>3. \A k \in Token : k.by \in Users \cup {None}
      BY DEF Token, Unminted
    <3>. QED  BY <3>2, <3>3 DEF TypeOK, UserOf, Callers
  <2>2. [st |-> "live", org |-> req[r].org, by |-> UserOf(req[r].who), role |-> role] \in Token
    BY <2>1, NoneAssumption DEF Token
  <2>. QED  BY <1>12, <2>2, IdleType DEF TypeOK, CreateToken
<1>13. ASSUME NEW r \in Requests, NEW t \in Tokens, StartRevoke(r, t)
       PROVE  TypeOK'
  <2>1. req[r] \in Request /\ req[r].phase = "ctx"
    BY <1>13 DEF TypeOK, StartRevoke
  <2>2. [req[r] EXCEPT !.phase = "revoking", !.target = t] \in Request
    BY <2>1 DEF Request, RequestFields, Phases, InContext
  <2>. QED  BY <1>13, <2>2, AdvanceType DEF StartRevoke
<1>14. ASSUME NEW r \in Requests, RevokeToken(r)
       PROVE  TypeOK'
  <2>1. \A t \in Tokens : token[t].st # "unminted" => [token[t] EXCEPT !.st = "revoked"] \in Token
    BY DEF Token, Unminted, TypeOK
  <2>. QED  BY <1>14, <2>1, IdleType DEF TypeOK, RevokeToken
<1>15. ASSUME NEW r \in Requests, Answer(r) \/ Fail(r) \/ AbortDeadlocked(r)
       PROVE  TypeOK'
  BY <1>15, EndUnchangedType DEF Answer, Fail, AbortDeadlocked
<1>16. CASE UNCHANGED vars
  BY <1>16 DEF TypeOK, vars
<1>. QED
  BY <1>1, <1>2, <1>3, <1>4, <1>5, <1>6, <1>7, <1>8, <1>9, <1>10, <1>11, <1>12, <1>13,
     <1>14, <1>15, <1>16 DEF Next, Begin, Proceed

(* The variables always have their types.                                  *)
THEOREM TypeCorrect == Spec => []TypeOK
<1>. QED  BY TypeInit, TypeNext, PTL DEF Spec
-----------------------------------------------------------------------------
(* The lineage of tokens.  A rank is bounded by what its holder has been,  *)
(* for the rows, and for the contexts read from them as long as the org    *)
(* they were read in exists.  The row lock enters here: the token of a     *)
(* request in context cannot be deleted under it.                          *)

MembersWithinPeak ==
  \A o \in Orgs, u \in Users :
    member[o][u] # None => o \in orgs /\ Rank[member[o][u]] <= peak[o][u]

TokensWithinPeak ==
  \A t \in Tokens :
    token[t].st \in {"live", "revoked"} =>
      /\ token[t].org \in orgs /\ token[t].by \in Users
      /\ Rank[token[t].role] <= peak[token[t].org][token[t].by]

Backed(q) ==
  /\ q.phase = "auth" => q.ctx = token[q.who].role /\ token[q.who].st # "unminted"
  /\ q.phase \in InContext =>
       /\ "org" \notin q.lost => q.org \in orgs
       /\ q.who \in Tokens =>
            /\ token[q.who].st \in {"live", "revoked"}
            /\ token[q.who].org = q.org /\ q.ctx = token[q.who].role
       /\ q.who \notin Tokens /\ "org" \notin q.lost =>
            Rank[q.ctx] <= peak[q.org][q.who]

LineageInv ==
  TypeOK /\ MembersWithinPeak /\ TokensWithinPeak /\ \A r \in Requests : Backed(req[r])

LEMMA LineageGivesProperties == LineageInv => TokensWithinLineage /\ NoOrphanRows
<1>. SUFFICES ASSUME LineageInv
              PROVE  TokensWithinLineage /\ NoOrphanRows
  OBVIOUS
<1>1. TokensWithinLineage
  BY DEF LineageInv, TokensWithinPeak, TokensWithinLineage
<1>2. NoOrphanRows
  <2>1. \A t \in Tokens : token[t].org \in Orgs => token[t].st \in {"live", "revoked", "deleted"}
    BY NoneAssumption DEF LineageInv, TypeOK, Token, Unminted
  <2>. QED  BY <2>1 DEF LineageInv, MembersWithinPeak, TokensWithinPeak, NoOrphanRows
<1>. QED  BY <1>1, <1>2

LEMMA IdleBacked == Backed(Idle)
BY DEF Backed, Idle, InContext

LEMMA AdvanceLineage ==
  ASSUME LineageInv, NEW r \in Requests, NEW next \in Request, Advance(r, next), Backed(next)
  PROVE  LineageInv'
<1>1. TypeOK'
  BY AdvanceType DEF LineageInv
<1>2. MembersWithinPeak' /\ TokensWithinPeak'
  BY DEF LineageInv, MembersWithinPeak, TokensWithinPeak, Advance
<1>3. ASSUME NEW s \in Requests PROVE Backed(req[s])'
  BY DEF LineageInv, TypeOK, Advance, Backed
<1>. QED  BY <1>1, <1>2, <1>3 DEF LineageInv

LEMMA EndUnchangedLineage ==
  ASSUME LineageInv, NEW r \in Requests, EndUnchanged(r)
  PROVE  LineageInv'
<1>1. TypeOK'
  BY EndUnchangedType DEF LineageInv
<1>2. MembersWithinPeak' /\ TokensWithinPeak'
  BY DEF LineageInv, MembersWithinPeak, TokensWithinPeak, EndUnchanged
<1>3. ASSUME NEW s \in Requests PROVE Backed(req[s])'
  BY IdleBacked DEF LineageInv, TypeOK, EndUnchanged, Backed
<1>. QED  BY <1>1, <1>2, <1>3 DEF LineageInv

(* The commit of a membership only raises peaks.                           *)
LEMMA PeaksGrow ==
  ASSUME TypeOK, NEW r \in Requests \cup {None}, NEW o \in Orgs, NEW u \in Users,
         NEW role \in Roles \cup {None}, WriteMember(r, o, u, role)
  PROVE  /\ \A p \in Orgs, v \in Users : peak[p][v] <= peak'[p][v]
         /\ role # None => Rank[role] <= peak'[o][u]
<1>1. role # None => Rank[role] \in 0 .. 3
  BY Ranks
<1>2. \A p \in Orgs, v \in Users : peak[p][v] \in -1 .. 3
  BY DEF TypeOK
<1>. QED  BY <1>1, <1>2 DEF TypeOK, WriteMember

LEMMA WriteMemberLineage ==
  ASSUME LineageInv, NEW r \in Requests \cup {None}, NEW o \in Orgs, NEW u \in Users,
         NEW role \in Roles \cup {None}, WriteMember(r, o, u, role),
         token' = token, orgs \subseteq orgs', orgs' \in SUBSET Orgs, o \in orgs'
  PROVE  LineageInv'
<1>1. TypeOK'
  BY WriteMemberType DEF LineageInv
<1>2. /\ \A p \in Orgs, v \in Users : peak[p][v] <= peak'[p][v]
      /\ role # None => Rank[role] <= peak'[o][u]
  BY PeaksGrow DEF LineageInv
<1>3. \A p \in Orgs, v \in Users :
        /\ peak[p][v] \in Int /\ peak'[p][v] \in Int
        /\ member'[p][v] = IF p = o /\ v = u THEN role ELSE member[p][v]
  BY <1>1 DEF LineageInv, TypeOK, WriteMember
<1>4. \A x \in Roles : Rank[x] \in Int
  BY Ranks
<1>5. MembersWithinPeak'
  <2>. SUFFICES ASSUME NEW p \in Orgs, NEW v \in Users, member'[p][v] # None
                PROVE  p \in orgs' /\ Rank[member'[p][v]] <= peak'[p][v]
    BY DEF MembersWithinPeak
  <2>1. CASE p = o /\ v = u
    BY <2>1, <1>2, <1>3
  <2>2. CASE ~(p = o /\ v = u)
    <3>1. member'[p][v] = member[p][v] /\ member[p][v] \in Roles
      BY <2>2, <1>3 DEF LineageInv, TypeOK
    <3>2. p \in orgs /\ Rank[member[p][v]] <= peak[p][v]
      BY <3>1 DEF LineageInv, MembersWithinPeak
    <3>. QED  BY <3>1, <3>2, <1>2, <1>3, <1>4
  <2>. QED  BY <2>1, <2>2
<1>6. TokensWithinPeak'
  <2>. SUFFICES ASSUME NEW t \in Tokens, token[t].st \in {"live", "revoked"}
                PROVE  /\ token[t].org \in orgs' /\ token[t].by \in Users
                       /\ Rank[token[t].role] <= peak'[token[t].org][token[t].by]
    BY DEF TokensWithinPeak
  <2>1. /\ token[t].org \in orgs /\ token[t].by \in Users
        /\ Rank[token[t].role] <= peak[token[t].org][token[t].by]
    BY DEF LineageInv, TokensWithinPeak
  <2>2. token[t].org \in Orgs /\ token[t].role \in Roles
    BY <2>1 DEF LineageInv, TypeOK, Token, Unminted
  <2>. QED  BY <2>1, <2>2, <1>2, <1>3, <1>4
<1>7. ASSUME NEW s \in Requests PROVE Backed(req[s])'
  <2>1. CASE req'[s] = Idle
    BY <2>1 DEF Backed, Idle, InContext
  <2>2. CASE req'[s] # Idle
    <3>. DEFINE q == req[s]
    <3>1. /\ q \in Request /\ Backed(q)
          /\ req'[s] \in {q, [q EXCEPT !.lost = @ \cup {"row"}]}
      BY <2>2 DEF LineageInv, TypeOK, WriteMember
    <3>2. /\ req'[s].phase = q.phase /\ req'[s].who = q.who /\ req'[s].ctx = q.ctx
          /\ req'[s].org = q.org /\ ("org" \in req'[s].lost <=> "org" \in q.lost)
      BY <3>1 DEF Request, RequestFields
    <3>3. q.phase \in InContext /\ q.who \notin Tokens /\ "org" \notin q.lost =>
            Rank[q.ctx] <= peak'[q.org][q.who]
      <4>1. SUFFICES ASSUME q.phase \in InContext, q.who \notin Tokens, "org" \notin q.lost
                     PROVE  Rank[q.ctx] <= peak'[q.org][q.who]
        OBVIOUS
      <4>2. q.org \in Orgs /\ q.who \in Users /\ q.ctx \in Roles
        BY <3>1, <4>1, CallersAssumption DEF Request, RequestFields, Callers, InContext
      <4>3. Rank[q.ctx] <= peak[q.org][q.who]
        BY <3>1, <4>1 DEF Backed
      <4>. QED  BY <4>2, <4>3, <1>2, <1>3, <1>4
    <3>. QED  BY <3>1, <3>2, <3>3 DEF Backed
  <2>. QED  BY <2>1, <2>2
<1>. QED  BY <1>1, <1>5, <1>6, <1>7 DEF LineageInv

LEMMA LineageInit == Init => LineageInv
<1>. SUFFICES ASSUME Init PROVE LineageInv
  OBVIOUS
<1>1. \A r \in Requests : Backed(req[r])
  BY IdleBacked DEF Init
<1>2. MembersWithinPeak /\ TokensWithinPeak
  BY DEF Init, MembersWithinPeak, TokensWithinPeak, Unminted
<1>. QED  BY <1>1, <1>2, TypeInit DEF LineageInv

LEMMA DeleteOrgLineage ==
  ASSUME LineageInv, NEW r \in Requests, DeleteOrg(r)
  PROVE  LineageInv'
<1>. DEFINE o == req[r].org
<1>1. TypeOK'
  BY TypeNext DEF LineageInv, Next, Proceed
<1>2. req[r] \in Request /\ req[r].phase = "deleting" /\ "org" \notin req[r].lost
  BY DEF LineageInv, TypeOK, DeleteOrg
<1>3. o \in Orgs
  BY <1>2 DEF Request, RequestFields, InContext
<1>4. MembersWithinPeak'
  BY <1>3 DEF LineageInv, TypeOK, MembersWithinPeak, DeleteOrg
<1>5. TokensWithinPeak'
  <2>. SUFFICES ASSUME NEW t \in Tokens, token'[t].st \in {"live", "revoked"}
                PROVE  /\ token'[t].org \in orgs' /\ token'[t].by \in Users
                       /\ Rank[token'[t].role] <= peak'[token'[t].org][token'[t].by]
    BY DEF TokensWithinPeak
  <2>1. token[t].org # o /\ token'[t] = token[t]
    <3>1. CASE token[t].org = o
      <4>1. token'[t] = [token[t] EXCEPT !.st = "deleted"] /\ token[t] \in Token
        BY <3>1 DEF LineageInv, TypeOK, DeleteOrg
      <4>2. token'[t].st = "deleted"
        BY <4>1 DEF Token, Unminted
      <4>. QED  BY <4>2
    <3>2. CASE token[t].org # o
      BY <3>2 DEF LineageInv, TypeOK, DeleteOrg
    <3>. QED  BY <3>1, <3>2
  <2>2. /\ token[t].org \in orgs /\ token[t].by \in Users
        /\ Rank[token[t].role] <= peak[token[t].org][token[t].by]
    BY <2>1 DEF LineageInv, TokensWithinPeak
  <2>. QED  BY <2>1, <2>2 DEF LineageInv, TypeOK, DeleteOrg
<1>6. ASSUME NEW s \in Requests PROVE Backed(req[s])'
  <2>. DEFINE q == req[s]
  <2>1. CASE s = r
    BY <2>1 DEF DeleteOrg, Backed, Idle, InContext
  <2>2. CASE s # r /\ s \in RelyingOn(o)
    <3>1. q \in Request /\ Backed(q) /\ q.org = o /\ q.phase \in InContext
      BY <2>2 DEF LineageInv, TypeOK, RelyingOn
    <3>2. req'[s] = [q EXCEPT !.lost = {"org", "row"}]
      BY <2>2 DEF DeleteOrg
    <3>3. q.who \notin Tokens
      <4>1. SUFFICES ASSUME q.who \in Tokens PROVE FALSE
        OBVIOUS
      <4>2. token[q.who].org = o
        BY <3>1, <4>1 DEF Backed
      <4>3. WaitsFor(r, s)
        BY <1>2, <2>2, <3>1, <4>1, <4>2 DEF WaitsFor, Holds
      <4>. QED  BY <4>3 DEF DeleteOrg, Waiting
    <3>4. /\ req'[s].phase = q.phase /\ req'[s].who = q.who
          /\ req'[s].lost = {"org", "row"}
      BY <3>1, <3>2 DEF Request, RequestFields
    <3>. QED  BY <3>1, <3>3, <3>4 DEF Backed, InContext
  <2>3. CASE s # r /\ s \notin RelyingOn(o)
    <3>1. req'[s] = q /\ q \in Request /\ Backed(q)
      BY <2>3 DEF LineageInv, TypeOK, DeleteOrg
    <3>2. CASE q.phase \in InContext
      <4>1. q.org # o
        BY <2>3, <3>2 DEF RelyingOn
      <4>2. q.who \in Tokens => token'[q.who] = token[q.who]
        BY <3>1, <3>2, <4>1 DEF LineageInv, TypeOK, DeleteOrg, Backed
      <4>3. q.org \in orgs => q.org \in orgs'
        BY <4>1 DEF DeleteOrg
      <4>4. q.org \in Orgs /\ peak'[q.org] = peak[q.org]
        BY <3>1, <3>2, <4>1 DEF LineageInv, TypeOK, DeleteOrg, Request, RequestFields, InContext
      <4>5. q.phase # "auth"
        BY <3>2 DEF InContext
      <4>. QED  BY <3>1, <3>2, <4>2, <4>3, <4>4, <4>5 DEF Backed
    <3>3. CASE q.phase = "auth"
      <4>1. q.who \in Tokens /\ q.ctx = token[q.who].role /\ token[q.who].st # "unminted"
        BY <3>1, <3>3 DEF Backed, Request
      <4>2. token[q.who] \in Token
        BY <4>1 DEF LineageInv, TypeOK
      <4>3. token'[q.who] \in {token[q.who], [token[q.who] EXCEPT !.st = "deleted"]}
        BY <4>1 DEF LineageInv, TypeOK, DeleteOrg
      <4>4. token'[q.who].role = token[q.who].role /\ token'[q.who].st # "unminted"
        BY <4>1, <4>2, <4>3 DEF Token, Unminted
      <4>. QED  BY <3>1, <3>3, <4>1, <4>4 DEF Backed, InContext
    <3>4. CASE q.phase = "idle"
      BY <3>1, <3>4 DEF Backed, InContext
    <3>. QED  BY <3>1, <3>2, <3>3, <3>4 DEF Request, RequestFields, Phases
  <2>. QED  BY <2>1, <2>2, <2>3
<1>. QED  BY <1>1, <1>4, <1>5, <1>6 DEF LineageInv

LEMMA CreateTokenLineage ==
  ASSUME LineageInv, NEW r \in Requests, NEW t \in Tokens, NEW role \in BodyRoles,
         CreateToken(r, t, role)
  PROVE  LineageInv'
<1>. DEFINE q == req[r]  by == UserOf(q.who)
<1>1. TypeOK'
  BY TypeNext DEF LineageInv, Next, Proceed
<1>2. q \in Request /\ Backed(q) /\ q.phase = "ctx" /\ "org" \notin q.lost /\ role \in Roles
  BY RolesAssumption DEF LineageInv, TypeOK, CreateToken
<1>3. q.org \in orgs /\ q.org \in Orgs /\ q.ctx \in Roles /\ q.who \in Callers
  BY <1>2 DEF Backed, Request, RequestFields, InContext
<1>4. by \in Users /\ Rank[q.ctx] <= peak[q.org][by]
  <2>1. CASE q.who \in Tokens
    <3>1. /\ token[q.who].st \in {"live", "revoked"}
          /\ token[q.who].org = q.org /\ q.ctx = token[q.who].role
      BY <1>2, <2>1 DEF Backed, InContext
    <3>. QED  BY <2>1, <3>1 DEF LineageInv, TokensWithinPeak, UserOf
  <2>2. CASE q.who \notin Tokens
    BY <1>2, <1>3, <2>2, CallersAssumption DEF Backed, InContext, UserOf, Callers
  <2>. QED  BY <2>1, <2>2
<1>5. Rank[role] <= peak[q.org][by]
  <2>1. Rank[role] <= Rank[q.ctx]
    BY DEF CreateToken, RoleAtLeast
  <2>2. Rank[role] \in Int /\ Rank[q.ctx] \in Int /\ peak[q.org][by] \in Int
    BY <1>2, <1>3, <1>4, Ranks DEF LineageInv, TypeOK
  <2>. QED  BY <1>4, <2>1, <2>2
<1>6. /\ token' = [token EXCEPT ![t] = [st |-> "live", org |-> q.org, by |-> by, role |-> role]]
      /\ req' = [req EXCEPT ![r] = Idle] /\ UNCHANGED <<orgs, member, peak>>
      /\ token[t].st = "unminted"
  BY DEF CreateToken
<1>. HIDE DEF q, by
<1>7. MembersWithinPeak'
  BY <1>6 DEF LineageInv, MembersWithinPeak
<1>8. TokensWithinPeak'
  <2>. SUFFICES ASSUME NEW k \in Tokens, token'[k].st \in {"live", "revoked"}
                PROVE  /\ token'[k].org \in orgs /\ token'[k].by \in Users
                       /\ Rank[token'[k].role] <= peak[token'[k].org][token'[k].by]
    BY <1>6 DEF TokensWithinPeak
  <2>1. CASE k = t
    BY <1>3, <1>4, <1>5, <1>6, <2>1 DEF LineageInv, TypeOK
  <2>2. CASE k # t
    BY <1>6, <2>2 DEF LineageInv, TypeOK, TokensWithinPeak
  <2>. QED  BY <2>1, <2>2
<1>9. ASSUME NEW s \in Requests PROVE Backed(req[s])'
  <2>1. CASE s = r
    BY <1>6, <2>1 DEF LineageInv, TypeOK, Backed, Idle, InContext
  <2>2. CASE s # r
    <3>1. req'[s] = req[s] /\ Backed(req[s]) /\ req[s] \in Request
      BY <1>6, <2>2 DEF LineageInv, TypeOK
    <3>2. req[s].who # t \/ req[s].phase = "idle"
      BY <3>1, <1>6 DEF Backed, Request, RequestFields, Phases
    <3>3. req[s].who \in Tokens /\ req[s].phase # "idle" => token'[req[s].who] = token[req[s].who]
      BY <1>6, <3>2 DEF LineageInv, TypeOK
    <3>4. req[s].phase = "auth" => req[s].who \in Tokens
      BY <3>1 DEF Request
    <3>. QED  BY <1>6, <3>1, <3>3, <3>4 DEF Backed, InContext
  <2>. QED  BY <2>1, <2>2
<1>. QED  BY <1>1, <1>7, <1>8, <1>9 DEF LineageInv

LEMMA RevokeTokenLineage ==
  ASSUME LineageInv, NEW r \in Requests, RevokeToken(r)
  PROVE  LineageInv'
<1>. DEFINE t == req[r].target
<1>1. TypeOK'
  BY TypeNext DEF LineageInv, Next, Proceed
<1>2. t \in Tokens
  <2>1. req[r] \in Request /\ req[r].phase = "revoking"
    BY DEF LineageInv, TypeOK, RevokeToken
  <2>. QED  BY <2>1 DEF Request
<1>3. /\ token' = [token EXCEPT ![t].st = "revoked"] /\ token[t].st \in {"live", "revoked"}
      /\ req' = [req EXCEPT ![r] = Idle] /\ UNCHANGED <<orgs, member, peak>>
  BY DEF RevokeToken
<1>. HIDE DEF t
<1>4. \A k \in Tokens :
        /\ token'[k].org = token[k].org /\ token'[k].by = token[k].by
        /\ token'[k].role = token[k].role
        /\ k # t => token'[k].st = token[k].st
        /\ k = t => token'[k].st = "revoked"
  <2>1. \A k \in Tokens : token[k] \in Token
    BY DEF LineageInv, TypeOK
  <2>. QED  BY <1>2, <1>3, <2>1 DEF LineageInv, TypeOK, Token, Unminted
<1>5. MembersWithinPeak'
  BY <1>3 DEF LineageInv, MembersWithinPeak
<1>6. TokensWithinPeak'
  BY <1>2, <1>3, <1>4 DEF LineageInv, TokensWithinPeak
<1>7. ASSUME NEW s \in Requests PROVE Backed(req[s])'
  <2>1. CASE s = r
    BY <1>3, <2>1 DEF LineageInv, TypeOK, Backed, Idle, InContext
  <2>2. CASE s # r
    <3>1. req'[s] = req[s] /\ Backed(req[s]) /\ req[s] \in Request
      BY <1>3, <2>2 DEF LineageInv, TypeOK
    <3>2. req[s].phase = "auth" => req[s].who \in Tokens
      BY <3>1 DEF Request
    <3>. QED  BY <1>3, <1>4, <3>1, <3>2 DEF Backed
  <2>. QED  BY <2>1, <2>2
<1>. QED  BY <1>1, <1>5, <1>6, <1>7 DEF LineageInv

LEMMA LineageNext ==
  ASSUME LineageInv, [Next]_vars
  PROVE  LineageInv'
<1>. USE CallersAssumption, RolesAssumption, NoneAssumption
<1>1. ASSUME NEW r \in Requests, NEW t \in Tokens, AuthenticateToken(r, t)
      PROVE  LineageInv'
  <2>1. token[t].role \in Roles
    BY <1>1 DEF AuthenticateToken, LineageInv, TypeOK, Token, Unminted
  <2>. DEFINE next == [Idle EXCEPT !.phase = "auth", !.who = t, !.ctx = token[t].role]
  <2>2. next \in Request
    BY <2>1 DEF Idle, Request, RequestFields, Phases, InContext, Callers
  <2>3. Backed(next)
    BY <1>1 DEF AuthenticateToken, Backed, Idle, InContext
  <2>. QED  BY <1>1, <2>2, <2>3, AdvanceLineage DEF AuthenticateToken
<1>2. ASSUME NEW r \in Requests, NEW u \in DirectUsers, NEW o \in Orgs, AdmitUser(r, u, o)
      PROVE  LineageInv'
  <2>1. member[o][u] \in Roles
    BY <1>2 DEF AdmitUser, LineageInv, TypeOK
  <2>. DEFINE next == [Idle EXCEPT !.phase = "ctx", !.who = u, !.org = o, !.ctx = member[o][u]]
  <2>2. next \in Request
    BY <2>1 DEF Idle, Request, RequestFields, Phases, InContext, Callers
  <2>3. Backed(next)
    BY <1>2, <2>1 DEF AdmitUser, LineageInv, MembersWithinPeak, Backed, Idle, InContext
  <2>. QED  BY <1>2, <2>2, <2>3, AdvanceLineage DEF AdmitUser
<1>3. ASSUME NEW r \in Requests, NEW o \in Orgs, AdmitToken(r, o)
      PROVE  LineageInv'
  <2>. DEFINE q == req[r]  next == [q EXCEPT !.phase = "ctx", !.org = o]
  <2>1. q \in Request /\ Backed(q) /\ q.phase = "auth"
    BY <1>3 DEF LineageInv, TypeOK, AdmitToken
  <2>2. next \in Request
    BY <2>1 DEF Request, RequestFields, Phases, InContext
  <2>3. /\ next.who = q.who /\ next.ctx = q.ctx /\ next.phase = "ctx" /\ next.org = o
        /\ q.who \in Tokens
    BY <2>1 DEF Request, RequestFields
  <2>4. token[q.who].st \in {"live", "revoked"}
    <3>1. \A k \in Token : k.st \in {"unminted", "live", "revoked", "deleted"}
      BY DEF Token, Unminted
    <3>2. token[q.who].st # "unminted" /\ token[q.who].st # "deleted"
      BY <1>3, <2>1 DEF AdmitToken, Backed
    <3>. QED  BY <2>3, <3>1, <3>2 DEF LineageInv, TypeOK
  <2>5. Backed(next)
    BY <1>3, <2>1, <2>3, <2>4 DEF AdmitToken, Backed
  <2>. QED  BY <1>3, <2>2, <2>5, AdvanceLineage DEF AdmitToken
<1>4. ASSUME NEW r \in Requests,
             \/ StartDeleteOrg(r) \/ CountOwners(r)
             \/ \E u \in Users, role \in BodyRoles \cup {None} : LoadMember(r, u, role)
             \/ \E t \in Tokens : StartRevoke(r, t)
      PROVE  LineageInv'
  <2>. DEFINE q == req[r]
  <2>1. PICK next \in Request :
          /\ Advance(r, next) /\ q.phase \in InContext /\ next.phase \in InContext
          /\ next.who = q.who /\ next.org = q.org /\ next.ctx = q.ctx /\ next.lost = q.lost
    <3>1. q \in Request
      BY DEF LineageInv, TypeOK
    <3>2. CASE StartDeleteOrg(r)
      <4>1. [q EXCEPT !.phase = "deleting"] \in Request
        BY <3>1, <3>2 DEF StartDeleteOrg, Request, RequestFields, Phases, InContext
      <4>. QED  BY <3>1, <3>2, <4>1 DEF StartDeleteOrg, Request, RequestFields, InContext
    <3>3. CASE CountOwners(r)
      <4>1. [q EXCEPT !.phase = "checked"] \in Request
        BY <3>1, <3>3 DEF CountOwners, Request, RequestFields, Phases, InContext
      <4>. QED  BY <3>1, <3>3, <4>1 DEF CountOwners, Request, RequestFields, InContext
    <3>4. ASSUME NEW u \in Users, NEW role \in BodyRoles \cup {None}, LoadMember(r, u, role)
          PROVE  \E next \in Request :
                   /\ Advance(r, next) /\ q.phase \in InContext /\ next.phase \in InContext
                   /\ next.who = q.who /\ next.org = q.org /\ next.ctx = q.ctx
                   /\ next.lost = q.lost
      <4>. DEFINE seen == member[q.org][u]
      <4>1. q.org \in Orgs /\ q.phase = "ctx" /\ seen # None
        BY <3>1, <3>4 DEF LoadMember, Request, RequestFields, InContext
      <4>2. seen \in Roles
        BY <4>1 DEF LineageInv, TypeOK
      <4>. DEFINE p == IF seen = "owner" /\ role # "owner" THEN "loaded" ELSE "checked"
                  next == [q EXCEPT !.phase = p, !.target = u, !.seen = seen, !.body = role]
      <4>3. p \in {"loaded", "checked"}
        OBVIOUS
      <4>. HIDE DEF seen, p
      <4>4. next \in Request
        BY <3>1, <4>1, <4>2, <4>3 DEF Request, RequestFields, Phases, InContext
      <4>5. Advance(r, next)
        BY <3>4 DEF LoadMember, seen, p
      <4>. QED  BY <3>1, <4>1, <4>3, <4>4, <4>5 DEF Request, RequestFields, InContext
    <3>5. ASSUME NEW t \in Tokens, StartRevoke(r, t)
          PROVE  \E next \in Request :
                   /\ Advance(r, next) /\ q.phase \in InContext /\ next.phase \in InContext
                   /\ next.who = q.who /\ next.org = q.org /\ next.ctx = q.ctx
                   /\ next.lost = q.lost
      <4>1. [q EXCEPT !.phase = "revoking", !.target = t] \in Request
        BY <3>1, <3>5 DEF StartRevoke, Request, RequestFields, Phases, InContext
      <4>. QED  BY <3>1, <3>5, <4>1 DEF StartRevoke, Request, RequestFields, InContext
    <3>. QED  BY <1>4, <3>2, <3>3, <3>4, <3>5
  <2>2. Backed(q) /\ q.phase # "auth" /\ next.phase # "auth"
    BY <2>1 DEF LineageInv, InContext
  <2>3. Backed(next)
    BY <2>1, <2>2 DEF Backed
  <2>. QED  BY <2>1, <2>3, AdvanceLineage
<1>5. ASSUME NEW r \in Requests, NEW u \in Users, NEW o \in Orgs, CreateOrg(r, u, o)
      PROVE  LineageInv'
  <2>1. /\ orgs' \in SUBSET Orgs /\ orgs \subseteq orgs' /\ o \in orgs' /\ token' = token
        /\ WriteMember(r, o, u, "owner")
    BY <1>5 DEF CreateOrg, LineageInv, TypeOK
  <2>. QED  BY <2>1, Ranks, WriteMemberLineage
<1>6. ASSUME NEW o \in Orgs, NEW u \in Users, Bootstrap(o, u)
      PROVE  LineageInv'
  <2>1. /\ orgs' \in SUBSET Orgs /\ orgs \subseteq orgs' /\ o \in orgs' /\ token' = token
        /\ WriteMember(None, o, u, "owner")
    BY <1>6 DEF Bootstrap, LineageInv, TypeOK
  <2>. QED  BY <2>1, Ranks, WriteMemberLineage
<1>7. ASSUME NEW r \in Requests, NEW u \in Users, NEW role \in BodyRoles,
             AddMember(r, u, role)
      PROVE  LineageInv'
  <2>1. req[r].phase \in InContext /\ "org" \notin req[r].lost
    BY <1>7 DEF AddMember, InContext
  <2>2. req[r].org \in orgs
    BY <2>1 DEF LineageInv, Backed
  <2>3. /\ orgs' \in SUBSET Orgs /\ orgs \subseteq orgs' /\ token' = token
        /\ req[r].org \in Orgs /\ req[r].org \in orgs' /\ WriteMember(r, req[r].org, u, role)
    BY <1>7, <2>2 DEF AddMember, LineageInv, TypeOK
  <2>. QED  BY <2>3, WriteMemberLineage
<1>8. ASSUME NEW r \in Requests, CommitMember(r)
      PROVE  LineageInv'
  <2>1. /\ req[r].phase \in InContext /\ req[r].phase = "checked" /\ "org" \notin req[r].lost
        /\ req[r] \in Request
    BY <1>8 DEF CommitMember, InContext, LineageInv, TypeOK
  <2>2. req[r].org \in orgs
    BY <2>1 DEF LineageInv, Backed
  <2>3. req[r].target \in Users /\ req[r].body \in Roles \cup {None}
    BY <2>1 DEF Request, RequestFields
  <2>4. /\ orgs' \in SUBSET Orgs /\ orgs \subseteq orgs' /\ token' = token
        /\ req[r].org \in Orgs /\ req[r].org \in orgs'
        /\ WriteMember(r, req[r].org, req[r].target, req[r].body)
    BY <1>8, <2>2 DEF CommitMember, LineageInv, TypeOK
  <2>. QED  BY <2>3, <2>4, WriteMemberLineage
<1>9. ASSUME NEW r \in Requests,
             \/ DeleteOrg(r) \/ RevokeToken(r)
             \/ \E t \in Tokens, role \in BodyRoles : CreateToken(r, t, role)
             \/ Answer(r) \/ Fail(r) \/ AbortDeadlocked(r)
      PROVE  LineageInv'
  BY <1>9, DeleteOrgLineage, RevokeTokenLineage, CreateTokenLineage, EndUnchangedLineage
     DEF Answer, Fail, AbortDeadlocked
<1>10. CASE UNCHANGED vars
  <2>1. \A r \in Requests : Backed(req[r])'
    BY <1>10 DEF LineageInv, Backed, vars
  <2>. QED  BY <1>10, <2>1, TypeNext DEF LineageInv, MembersWithinPeak, TokensWithinPeak, vars
<1>. QED
  BY <1>1, <1>2, <1>3, <1>4, <1>5, <1>6, <1>7, <1>8, <1>9, <1>10 DEF Next, Begin, Proceed

THEOREM LineageHolds == Spec => []LineageInv
<1>. QED  BY LineageInit, LineageNext, PTL DEF Spec

(* No token outranks what its minter has been in the org, however many     *)
(* tokens were minted with tokens and whatever was read too early.         *)
THEOREM TokensKeepLineage == Spec => []TokensWithinLineage
<1>. QED  BY LineageHolds, LineageGivesProperties, PTL

(* Neither an insert nor a mint that races a deletion leaves a row behind. *)
THEOREM NothingOutlivesItsOrg == Spec => []NoOrphanRows
<1>. QED  BY LineageHolds, LineageGivesProperties, PTL
=============================================================================
