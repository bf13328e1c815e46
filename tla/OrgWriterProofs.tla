---------------------------- MODULE OrgWriterProofs ----------------------------
(***************************************************************************)
(* Who may write a membership, and on what knowledge.  A request that no   *)
(* other membership write of its org has overtaken sees the table as it    *)
(* is: then the owner guards and the owner count mean what they say, and   *)
(* every route takes effect as if it had run alone (OrgRegistry).          *)
(***************************************************************************)
EXTENDS OrgMembersProofs, FiniteSetTheorems

(* What the guards passed so far say of the caller.                        *)
Entitled(q) ==
  /\ q.phase \in InContext \ {"ctx"} => RoleAtLeast(q.ctx, "admin")
  /\ q.phase \in {"loaded", "checked"} /\ "owner" \in {q.seen, q.body} => q.ctx = "owner"
  /\ q.phase = "deleting" => q.ctx = "owner"

(* What was read is what is there.                                         *)
UpToDate(q) ==
  q.phase \in InContext =>
    /\ q.who \notin Tokens => member[q.org][q.who] = q.ctx
    /\ q.phase \in {"loaded", "checked"} => member[q.org][q.target] = q.seen
    /\ q.phase = "checked" /\ q.seen = "owner" /\ q.body # "owner" =>
         Cardinality(Owners(q.org)) > 1

WriterInv ==
  /\ LineageInv
  /\ \A r \in Requests : Entitled(req[r]) /\ (r \in overtaken \/ UpToDate(req[r]))

LEMMA IdleKnows == Entitled(Idle) /\ UpToDate(Idle)
BY DEF Entitled, UpToDate, Idle, InContext

(* A step within one request, the table unchanged.                         *)
LEMMA AdvanceWriter ==
  ASSUME WriterInv, LineageInv', NEW r \in Requests, NEW next, Advance(r, next),
         Entitled(next), r \in overtaken \/ UpToDate(next)
  PROVE  WriterInv'
<1>1. ASSUME NEW s \in Requests
      PROVE  Entitled(req'[s]) /\ (s \in overtaken \/ UpToDate(req'[s]))
  BY DEF WriterInv, LineageInv, TypeOK, Advance
<1>2. \A s \in Requests : UpToDate(req'[s]) => UpToDate(req[s])'
  BY DEF Advance, UpToDate, Owners
<1>3. \A s \in Requests : Entitled(req'[s]) => Entitled(req[s])'
  BY DEF Entitled
<1>. QED  BY <1>1, <1>2, <1>3 DEF WriterInv, Advance

(* The end of a request that leaves the table alone.                       *)
LEMMA EndWriter ==
  ASSUME WriterInv, LineageInv', NEW r \in Requests, member' = member,
         req' = [req EXCEPT ![r] = Idle], overtaken' = overtaken \ {r}
  PROVE  WriterInv'
<1>1. ASSUME NEW s \in Requests
      PROVE  Entitled(req'[s]) /\ (s \in overtaken' \/ UpToDate(req'[s]))
  BY IdleKnows DEF WriterInv, LineageInv, TypeOK
<1>2. \A s \in Requests : UpToDate(req'[s]) => UpToDate(req[s])'
  BY DEF UpToDate, Owners
<1>3. \A s \in Requests : Entitled(req'[s]) => Entitled(req[s])'
  BY DEF Entitled
<1>. QED  BY <1>1, <1>2, <1>3 DEF WriterInv

(* The end of a request that writes the table of o overtakes the others    *)
(* there, and nobody elsewhere.                                            *)
LEMMA OvertakeWriter ==
  ASSUME WriterInv, LineageInv', NEW r, NEW o \in Orgs,
         \A p \in Orgs : p # o => member'[p] = member[p],
         overtaken' = (overtaken \cup RelyingOn(o)) \ {r},
         \A s \in Requests :
           \/ req'[s] = Idle
           \/ s # r /\ \E l \in SUBSET {"org", "row"} : req'[s] = [req[s] EXCEPT !.lost = l]
  PROVE  WriterInv'
<1>1. ASSUME NEW s \in Requests
      PROVE  (Entitled(req[s]) /\ (s \in overtaken \/ UpToDate(req[s])))'
  <2>1. CASE req'[s] = Idle
    BY <2>1 DEF Entitled, UpToDate, Idle, InContext
  <2>2. CASE req'[s] # Idle
    <3>. DEFINE q == req[s]
    <3>1. q \in Request /\ s # r
      BY <2>2 DEF WriterInv, LineageInv, TypeOK
    <3>2. /\ req'[s].phase = q.phase /\ req'[s].who = q.who /\ req'[s].org = q.org
          /\ req'[s].ctx = q.ctx /\ req'[s].target = q.target /\ req'[s].seen = q.seen
          /\ req'[s].body = q.body
      BY <2>2, <3>1 DEF Request, RequestFields
    <3>3. Entitled(req[s])'
      BY <3>2 DEF WriterInv, Entitled
    <3>4. ASSUME s \notin overtaken', q.phase \in InContext
          PROVE  UpToDate(req[s])'
      <4>1. UpToDate(q) /\ q.org # o /\ q.org \in Orgs
        BY <3>1, <3>4 DEF WriterInv, RelyingOn, Request, RequestFields
      <4>2. member'[q.org] = member[q.org]
        BY <4>1
      <4>. QED  BY <3>2, <4>1, <4>2 DEF UpToDate, Owners
    <3>. QED  BY <3>2, <3>3, <3>4 DEF UpToDate
  <2>. QED  BY <2>1, <2>2
<1>. QED  BY <1>1 DEF WriterInv

LEMMA WriteMemberWriter ==
  ASSUME WriterInv, LineageInv', NEW r \in Requests \cup {None}, NEW o \in Orgs, NEW u \in Users,
         NEW role \in Roles \cup {None}, WriteMember(r, o, u, role)
  PROVE  WriterInv'
<1>1. \A p \in Orgs : p # o => member'[p] = member[p]
  BY DEF WriterInv, LineageInv, TypeOK, WriteMember
<1>2. ASSUME NEW s \in Requests
      PROVE  \/ req'[s] = Idle
             \/ s # r /\ \E l \in SUBSET {"org", "row"} : req'[s] = [req[s] EXCEPT !.lost = l]
  <2>1. req[s] \in RequestFields
    BY DEF WriterInv, LineageInv, TypeOK, Request
  <2>2. \A q \in RequestFields :
          /\ q.lost \cup {"row"} \in SUBSET {"org", "row"} /\ q.lost \in SUBSET {"org", "row"}
          /\ q = [q EXCEPT !.lost = q.lost]
    BY DEF RequestFields
  <2>3. \/ req'[s] = Idle
        \/ s # r /\ req'[s] \in {req[s], [req[s] EXCEPT !.lost = req[s].lost \cup {"row"}]}
    BY DEF WriteMember
  <2>. QED  BY <2>1, <2>2, <2>3
<1>3. overtaken' = (overtaken \cup RelyingOn(o)) \ {r}
  BY DEF WriteMember
<1>. QED  BY <1>1, <1>2, <1>3, OvertakeWriter

LEMMA WriterNext ==
  ASSUME WriterInv, [Next]_vars
  PROVE  WriterInv'
<1>. USE CallersAssumption, RolesAssumption, NoneAssumption
<1>0. LineageInv'
  BY LineageNext DEF WriterInv
<1>1. ASSUME NEW r \in Requests, NEW t \in Tokens, AuthenticateToken(r, t)
      PROVE  WriterInv'
  <2>. DEFINE next == [Idle EXCEPT !.phase = "auth", !.who = t, !.ctx = token[t].role]
  <2>1. Entitled(next) /\ UpToDate(next)
    BY DEF Entitled, UpToDate, Idle, InContext
  <2>. QED  BY <1>0, <1>1, <2>1, AdvanceWriter DEF AuthenticateToken
<1>2. ASSUME NEW r \in Requests, NEW u \in DirectUsers, NEW o \in Orgs, AdmitUser(r, u, o)
      PROVE  WriterInv'
  <2>. DEFINE next == [Idle EXCEPT !.phase = "ctx", !.who = u, !.org = o, !.ctx = member[o][u]]
  <2>1. Entitled(next) /\ UpToDate(next)
    BY DEF Entitled, UpToDate, Idle, InContext
  <2>. QED  BY <1>0, <1>2, <2>1, AdvanceWriter DEF AdmitUser
<1>3. ASSUME NEW r \in Requests, NEW o \in Orgs, AdmitToken(r, o)
      PROVE  WriterInv'
  <2>. DEFINE next == [req[r] EXCEPT !.phase = "ctx", !.org = o]
  <2>1. req[r] \in Request /\ req[r].phase = "auth"
    BY <1>3 DEF AdmitToken, WriterInv, LineageInv, TypeOK
  <2>2. next.phase = "ctx" /\ next.who \in Tokens
    BY <2>1 DEF Request, RequestFields
  <2>3. Entitled(next) /\ UpToDate(next)
    BY <2>2 DEF Entitled, UpToDate
  <2>. QED  BY <1>0, <1>3, <2>3, AdvanceWriter DEF AdmitToken
<1>4. ASSUME NEW r \in Requests, StartDeleteOrg(r)
      PROVE  WriterInv'
  <2>. DEFINE next == [req[r] EXCEPT !.phase = "deleting"]
  <2>1. req[r] \in Request /\ req[r].phase = "ctx" /\ RoleAtLeast(req[r].ctx, "owner")
    BY <1>4 DEF StartDeleteOrg, WriterInv, LineageInv, TypeOK
  <2>2. req[r].ctx = "owner"
    BY <2>1, Ranks DEF Request, RequestFields, InContext
  <2>3. /\ next.phase = "deleting" /\ next.ctx = "owner" /\ next.who = req[r].who
        /\ next.org = req[r].org
    BY <2>1, <2>2 DEF Request, RequestFields
  <2>4. Entitled(next) /\ (UpToDate(req[r]) => UpToDate(next))
    BY <2>1, <2>2, <2>3, Ranks DEF Entitled, UpToDate, InContext
  <2>. QED  BY <1>0, <1>4, <2>4, AdvanceWriter DEF StartDeleteOrg, WriterInv
<1>5. ASSUME NEW r \in Requests, NEW u \in Users, NEW role \in BodyRoles \cup {None},
             LoadMember(r, u, role)
      PROVE  WriterInv'
  <2>. DEFINE q == req[r]  seen == member[q.org][u]
              p == IF seen = "owner" /\ role # "owner" THEN "loaded" ELSE "checked"
              next == [q EXCEPT !.phase = p, !.target = u, !.seen = seen, !.body = role]
  <2>1. /\ q \in Request /\ q.phase = "ctx" /\ RoleAtLeast(q.ctx, "admin")
        /\ "owner" \in {seen, role} => q.ctx = "owner"
    BY <1>5 DEF LoadMember, WriterInv, LineageInv, TypeOK
  <2>2. Advance(r, next)
    BY <1>5 DEF LoadMember
  <2>3. /\ p \in {"loaded", "checked"}
        /\ p = "checked" => ~(seen = "owner" /\ role # "owner")
    OBVIOUS
  <2>. HIDE DEF p
  <2>4. /\ next.phase = p /\ next.who = q.who /\ next.org = q.org /\ next.ctx = q.ctx
        /\ next.target = u /\ next.seen = seen /\ next.body = role
    BY <2>1 DEF Request, RequestFields
  <2>. HIDE DEF next
  <2>5. Entitled(next)
    BY <2>1, <2>3, <2>4 DEF Entitled
  <2>6. UpToDate(q) => UpToDate(next)
    BY <2>1, <2>3, <2>4 DEF UpToDate, InContext
  <2>. QED  BY <1>0, <2>2, <2>5, <2>6, AdvanceWriter DEF WriterInv
<1>6. ASSUME NEW r \in Requests, CountOwners(r)
      PROVE  WriterInv'
  <2>. DEFINE q == req[r]  next == [q EXCEPT !.phase = "checked"]
  <2>1. q \in Request /\ q.phase = "loaded" /\ Cardinality(Owners(q.org)) > 1
    BY <1>6 DEF CountOwners, WriterInv, LineageInv, TypeOK
  <2>2. /\ next.phase = "checked" /\ next.who = q.who /\ next.org = q.org /\ next.ctx = q.ctx
        /\ next.target = q.target /\ next.seen = q.seen /\ next.body = q.body
    BY <2>1 DEF Request, RequestFields
  <2>3. Advance(r, next)
    BY <1>6 DEF CountOwners
  <2>. HIDE DEF next
  <2>4. Entitled(q) => Entitled(next)
    BY <2>1, <2>2 DEF Entitled, InContext
  <2>5. UpToDate(q) => UpToDate(next)
    BY <2>1, <2>2 DEF UpToDate, InContext
  <2>. QED  BY <1>0, <2>3, <2>4, <2>5, AdvanceWriter DEF WriterInv
<1>7. ASSUME NEW r \in Requests, NEW t \in Tokens, StartRevoke(r, t)
      PROVE  WriterInv'
  <2>. DEFINE q == req[r]  next == [q EXCEPT !.phase = "revoking", !.target = t]
  <2>1. q \in Request /\ q.phase = "ctx" /\ RoleAtLeast(q.ctx, "admin")
    BY <1>7 DEF StartRevoke, WriterInv, LineageInv, TypeOK
  <2>2. next.phase = "revoking" /\ next.who = q.who /\ next.org = q.org /\ next.ctx = q.ctx
    BY <2>1 DEF Request, RequestFields
  <2>3. Advance(r, next)
    BY <1>7 DEF StartRevoke
  <2>. HIDE DEF next
  <2>4. Entitled(next) /\ (UpToDate(q) => UpToDate(next))
    BY <2>1, <2>2 DEF Entitled, UpToDate, InContext
  <2>. QED  BY <1>0, <2>3, <2>4, AdvanceWriter DEF WriterInv
<1>8. ASSUME NEW r \in Requests, NEW u \in Users, NEW o \in Orgs, CreateOrg(r, u, o)
      PROVE  WriterInv'
  BY <1>0, <1>8, Ranks, WriteMemberWriter DEF CreateOrg
<1>9. ASSUME NEW o \in Orgs, NEW u \in Users, Bootstrap(o, u)
      PROVE  WriterInv'
  BY <1>0, <1>9, Ranks, WriteMemberWriter DEF Bootstrap
<1>10. ASSUME NEW r \in Requests, NEW u \in Users, NEW role \in BodyRoles,
              AddMember(r, u, role)
       PROVE  WriterInv'
  <2>1. req[r] \in Request /\ req[r].phase = "ctx" /\ WriteMember(r, req[r].org, u, role)
    BY <1>10 DEF AddMember, WriterInv, LineageInv, TypeOK
  <2>2. req[r].org \in Orgs
    BY <2>1 DEF Request, RequestFields, InContext
  <2>. QED  BY <1>0, <2>1, <2>2, WriteMemberWriter
<1>11. ASSUME NEW r \in Requests, CommitMember(r)
       PROVE  WriterInv'
  <2>1. /\ req[r] \in Request /\ req[r].phase = "checked"
        /\ WriteMember(r, req[r].org, req[r].target, req[r].body)
    BY <1>11 DEF CommitMember, WriterInv, LineageInv, TypeOK
  <2>2. req[r].org \in Orgs /\ req[r].target \in Users /\ req[r].body \in Roles \cup {None}
    BY <2>1 DEF Request, RequestFields, InContext
  <2>. QED  BY <1>0, <2>1, <2>2, WriteMemberWriter
<1>12. ASSUME NEW r \in Requests, DeleteOrg(r)
       PROVE  WriterInv'
  <2>. DEFINE o == req[r].org
  <2>1. req[r] \in Request /\ req[r].phase = "deleting"
    BY <1>12 DEF DeleteOrg, WriterInv, LineageInv, TypeOK
  <2>2. o \in Orgs
    BY <2>1 DEF Request, RequestFields, InContext
  <2>3. \A p \in Orgs : p # o => member'[p] = member[p]
    BY <1>12 DEF DeleteOrg, WriterInv, LineageInv, TypeOK
  <2>4. overtaken' = (overtaken \cup RelyingOn(o)) \ {r}
    BY <1>12 DEF DeleteOrg
  <2>5. ASSUME NEW s \in Requests
        PROVE  \/ req'[s] = Idle
               \/ s # r /\ \E l \in SUBSET {"org", "row"} : req'[s] = [req[s] EXCEPT !.lost = l]
    <3>1. req[s] \in RequestFields
      BY DEF WriterInv, LineageInv, TypeOK, Request
    <3>2. \A q \in RequestFields :
            q.lost \in SUBSET {"org", "row"} /\ q = [q EXCEPT !.lost = q.lost]
      BY DEF RequestFields
    <3>3. \/ req'[s] = Idle
          \/ s # r /\ req'[s] \in {req[s], [req[s] EXCEPT !.lost = {"org", "row"}]}
      BY <1>12 DEF DeleteOrg
    <3>. QED  BY <3>1, <3>2, <3>3
  <2>. HIDE DEF o
  <2>. QED  BY <1>0, <2>2, <2>3, <2>4, <2>5, OvertakeWriter
<1>13. ASSUME NEW r \in Requests,
              \/ RevokeToken(r) \/ Answer(r) \/ Fail(r) \/ AbortDeadlocked(r)
              \/ \E t \in Tokens, role \in BodyRoles : CreateToken(r, t, role)
       PROVE  WriterInv'
  BY <1>0, <1>13, EndWriter
     DEF RevokeToken, CreateToken, Answer, Fail, AbortDeadlocked, EndUnchanged
<1>14. CASE UNCHANGED vars
  <2>1. \A s \in Requests : UpToDate(req[s]) => UpToDate(req[s])'
    BY <1>14 DEF UpToDate, Owners, vars
  <2>2. \A s \in Requests : Entitled(req[s]) => Entitled(req[s])'
    BY <1>14 DEF Entitled, vars
  <2>. QED  BY <1>0, <1>14, <2>1, <2>2 DEF WriterInv, vars
<1>. QED
  BY <1>1, <1>2, <1>3, <1>4, <1>5, <1>6, <1>7, <1>8, <1>9, <1>10, <1>11, <1>12, <1>13, <1>14
     DEF Next, Begin, Proceed

LEMMA WriterInit == Init => WriterInv
<1>1. Init => \A r \in Requests : Entitled(req[r]) /\ UpToDate(req[r])
  BY IdleKnows DEF Init
<1>. QED  BY <1>1, LineageInit DEF WriterInv

THEOREM WriterHolds == Spec => []WriterInv
<1>. QED  BY WriterInit, WriterNext, PTL DEF Spec

-----------------------------------------------------------------------------
(* Which steps change the membership of an org that is there before and    *)
(* after: an insert for a user who has no row, or the commit of a change.  *)
Inserts(r, o, u) ==
  \E role \in BodyRoles : AddMember(r, u, role) /\ req[r].org = o /\ member'[o][u] = role
Changes(r, o, u) ==
  CommitMember(r) /\ req[r].org = o /\ req[r].target = u /\ member'[o][u] = req[r].body

LEMMA WriteMemberChanges ==
  ASSUME TypeOK, NEW r \in Requests \cup {None}, NEW p \in Orgs, NEW v \in Users,
         NEW role \in Roles \cup {None}, WriteMember(r, p, v, role)
  PROVE  \A o \in Orgs, u \in Users :
           member'[o][u] = IF o = p /\ u = v THEN role ELSE member[o][u]
BY DEF TypeOK, WriteMember

LEMMA MembershipWriters ==
  ASSUME WriterInv, Next, NEW o \in orgs \cap orgs', NEW u \in Users,
         member'[o][u] # member[o][u]
  PROVE  \/ Bootstrap(o, u) /\ member[o][u] = None /\ req' = req
         \/ \E r \in Requests : Inserts(r, o, u) \/ Changes(r, o, u)
<1>. USE RolesAssumption, NoneAssumption
<1>. DEFINE Goal == \/ Bootstrap(o, u) /\ member[o][u] = None /\ req' = req
                    \/ \E r \in Requests : Inserts(r, o, u) \/ Changes(r, o, u)
<1>0. o \in Orgs /\ TypeOK
  BY DEF WriterInv, LineageInv, TypeOK
<1>1. ASSUME NEW r \in Requests, NEW v \in Users, NEW p \in Orgs, CreateOrg(r, v, p)
      PROVE  Goal
  <2>1. WriteMember(r, p, v, "owner") /\ p \notin orgs
    BY <1>1 DEF CreateOrg
  <2>2. o = p
    BY <1>0, <2>1, WriteMemberChanges, Ranks
  <2>. QED  BY <2>1, <2>2
<1>2. ASSUME NEW p \in Orgs, NEW v \in Users, Bootstrap(p, v)
      PROVE  Goal
  <2>1. WriteMember(None, p, v, "owner") /\ member[p][v] = None
    BY <1>2 DEF Bootstrap
  <2>2. o = p /\ u = v
    BY <1>0, <2>1, WriteMemberChanges, Ranks
  <2>3. req' = req
    <3>1. "owner" # None
      BY Ranks
    <3>. QED  BY <1>0, <2>1, <3>1 DEF WriteMember, TypeOK
  <2>. QED  BY <1>2, <2>1, <2>2, <2>3
<1>3. ASSUME NEW r \in Requests, NEW v \in Users, NEW role \in BodyRoles, AddMember(r, v, role)
      PROVE  Goal
  <2>1. req[r] \in Request /\ req[r].phase = "ctx" /\ WriteMember(r, req[r].org, v, role)
    BY <1>0, <1>3 DEF AddMember, TypeOK
  <2>2. req[r].org \in Orgs
    BY <2>1 DEF Request, RequestFields, InContext
  <2>3. o = req[r].org /\ u = v /\ member'[o][u] = role
    BY <1>0, <2>1, <2>2, WriteMemberChanges
  <2>. QED  BY <1>3, <2>3 DEF Inserts
<1>4. ASSUME NEW r \in Requests, CommitMember(r)
      PROVE  Goal
  <2>1. /\ req[r] \in Request /\ req[r].phase = "checked"
        /\ WriteMember(r, req[r].org, req[r].target, req[r].body)
    BY <1>0, <1>4 DEF CommitMember, TypeOK
  <2>2. req[r].org \in Orgs /\ req[r].target \in Users /\ req[r].body \in Roles \cup {None}
    BY <2>1 DEF Request, RequestFields, InContext
  <2>3. o = req[r].org /\ u = req[r].target /\ member'[o][u] = req[r].body
    BY <1>0, <2>1, <2>2, WriteMemberChanges
  <2>. QED  BY <1>4, <2>3 DEF Changes
<1>5. ASSUME NEW r \in Requests, DeleteOrg(r)
      PROVE  Goal
  BY <1>0, <1>5 DEF DeleteOrg, TypeOK
<1>6. ASSUME NEW r \in Requests,
             \/ Begin(r) \/ StartDeleteOrg(r) \/ CountOwners(r) \/ RevokeToken(r)
             \/ \E p \in Orgs : AdmitToken(r, p)
             \/ \E v \in Users, role \in BodyRoles \cup {None} : LoadMember(r, v, role)
             \/ \E t \in Tokens, role \in BodyRoles : CreateToken(r, t, role)
             \/ \E t \in Tokens : StartRevoke(r, t)
             \/ Answer(r) \/ Fail(r) \/ AbortDeadlocked(r)
      PROVE  member' = member
  BY <1>6 DEF Begin, AuthenticateToken, AdmitUser, StartDeleteOrg, CountOwners, RevokeToken,
     AdmitToken, LoadMember, CreateToken, StartRevoke, Answer, Fail, AbortDeadlocked,
     EndUnchanged, Advance
<1>. HIDE DEF Goal
<1>. QED
  <2>1. Goal
    BY <1>1, <1>2, <1>3, <1>4, <1>5, <1>6 DEF Next, Proceed
  <2>. QED  BY <2>1 DEF Goal

LEMMA WriterEnds ==
  ASSUME WriterInv, NEW r \in Requests, NEW o, NEW u, Inserts(r, o, u) \/ Changes(r, o, u)
  PROVE  Ends(r) /\ req[r].org = o
BY DEF Inserts, Changes, AddMember, CommitMember, WriteMember, Ends

LEMMA OneOfSeveral ==
  ASSUME NEW S, IsFiniteSet(S), Cardinality(S) > 1, NEW x
  PROVE  \E y \in S : y # x
<1>. SUFFICES ASSUME \A y \in S : y = x PROVE FALSE
  OBVIOUS
<1>1. S \subseteq {x}
  OBVIOUS
<1>2. IsFiniteSet({x}) /\ Cardinality({x}) = 1
  BY FS_Singleton
<1>3. Cardinality(S) <= 1
  BY <1>1, <1>2, FS_Subset
<1>. QED  BY <1>3, FS_CardinalityType

(* The last owner of an org goes only in a race: the request that removes  *)
(* or demotes it was overtaken after it had read.                          *)
THEOREM LastOwnerNeedsRace == Spec => LastOwnerLostInARace
<1>1. ASSUME WriterInv, [Next]_vars, NEW o \in orgs \cap orgs', Owners(o) # {},
             {u \in Users : member'[o][u] = "owner"} = {}
      PROVE  \E r \in overtaken : req[r].org = o /\ Ends(r)
  <2>1. PICK w \in Users : member[o][w] = "owner" /\ member'[o][w] # "owner"
    BY <1>1 DEF Owners
  <2>2. Next
    BY <1>1, <2>1 DEF vars
  <2>3. "owner" # None
    BY Ranks, NoneAssumption
  <2>4. PICK r \in Requests : Changes(r, o, w)
    BY <1>1, <2>1, <2>2, <2>3, MembershipWriters DEF Inserts, AddMember
  <2>5. Ends(r) /\ req[r].org = o
    BY <1>1, <2>4, WriterEnds
  <2>6. r \in overtaken
    <3>1. SUFFICES ASSUME r \notin overtaken PROVE FALSE
      OBVIOUS
    <3>2. /\ req[r].phase = "checked" /\ req[r].target = w /\ req[r].body # req[r].seen
          /\ UpToDate(req[r]) /\ req[r] \in Request /\ o \in Orgs
      BY <1>1, <2>4, <3>1 DEF Changes, CommitMember, WriterInv, LineageInv, TypeOK
    <3>3. req[r].seen = "owner"
      BY <2>1, <2>5, <3>2 DEF UpToDate, InContext
    <3>4. Cardinality(Owners(o)) > 1
      BY <2>5, <3>2, <3>3 DEF UpToDate, InContext
    <3>5. IsFiniteSet(Owners(o))
      BY CallersAssumption, FS_Subset DEF Owners
    <3>6. PICK v \in Owners(o) : v # w
      BY <3>4, <3>5, OneOfSeveral
    <3>7. req[r].body \in Roles \cup {None}
      BY <3>2 DEF Request, RequestFields
    <3>8. member'[o][v] = "owner"
      BY <1>1, <2>1, <2>4, <3>2, <3>6, <3>7, WriteMemberChanges
         DEF Changes, CommitMember, Owners, WriterInv, LineageInv
    <3>. QED  BY <1>1, <3>6, <3>8 DEF Owners
  <2>. QED  BY <2>5, <2>6
<1>2. WriterInv /\ [Next]_vars =>
        [\A o \in orgs \cap orgs' :
           Owners(o) # {} /\ Owners(o)' = {} =>
             \E r \in overtaken : req[r].org = o /\ Ends(r)]_vars
  BY <1>1 DEF Owners
<1>. QED  BY <1>2, WriterHolds, PTL DEF Spec, LastOwnerLostInARace

(* Unless it was overtaken, the writer of a membership still has the rank  *)
(* for it when it commits.                                                 *)
THEOREM WritersKeepAuthority == Spec => WritersAreAuthorised
<1>1. ASSUME WriterInv, Next, NEW r \in Requests, r \notin overtaken,
             NEW o \in Orgs, NEW u \in Users, Inserts(r, o, u) \/ Changes(r, o, u)
      PROVE  /\ Authority(r) \in Roles /\ RoleAtLeast(Authority(r), "admin")
             /\ "owner" \in {member[o][u], member'[o][u]} => Authority(r) = "owner"
  <2>. DEFINE q == req[r]
  <2>1. /\ q \in Request /\ q.phase \in {"ctx", "checked"} /\ q.org = o
        /\ UpToDate(q) /\ Backed(q) /\ Entitled(q)
    BY <1>1 DEF WriterInv, LineageInv, TypeOK, Inserts, Changes, AddMember, CommitMember
  <2>2. Authority(r) = q.ctx /\ q.ctx \in Roles
    BY <2>1 DEF Authority, UpToDate, Backed, Request, RequestFields, InContext
  <2>3. CASE Inserts(r, o, u)
    <3>1. /\ RoleAtLeast(q.ctx, "admin") /\ member[o][u] = None
          /\ member'[o][u] = "owner" => q.ctx = "owner"
      BY <2>3 DEF Inserts, AddMember
    <3>. QED  BY <2>2, <3>1, Ranks, NoneAssumption
  <2>4. CASE Changes(r, o, u)
    <3>1. q.phase = "checked" /\ q.target = u /\ member'[o][u] = q.body
      BY <2>4 DEF Changes, CommitMember
    <3>2. RoleAtLeast(q.ctx, "admin") /\ ("owner" \in {q.seen, q.body} => q.ctx = "owner")
      BY <2>1, <3>1 DEF Entitled, InContext
    <3>3. member[o][u] = q.seen
      BY <2>1, <3>1 DEF UpToDate, InContext
    <3>. QED  BY <2>2, <3>1, <3>2, <3>3
  <2>. QED  BY <1>1, <2>3, <2>4
<1>2. ASSUME WriterInv, [Next]_vars, NEW o \in orgs \cap orgs', NEW u \in Users,
             member[o][u] # member'[o][u]
      PROVE  \/ req' = req
             \/ \E r \in Requests :
                  /\ Ends(r) /\ req[r].org = o
                  /\ \/ r \in overtaken
                     \/ /\ Authority(r) \in Roles
                        /\ RoleAtLeast(Authority(r), "admin")
                        /\ "owner" \in {member[o][u], member'[o][u]} =>
                             Authority(r) = "owner"
  <2>1. Next /\ o \in Orgs
    BY <1>2 DEF vars, WriterInv, LineageInv, TypeOK
  <2>2. CASE req' = req
    BY <2>2
  <2>3. CASE \E r \in Requests : Inserts(r, o, u) \/ Changes(r, o, u)
    <3>1. PICK r \in Requests : Inserts(r, o, u) \/ Changes(r, o, u)
      BY <2>3
    <3>2. Ends(r) /\ req[r].org = o
      BY <1>2, <3>1, WriterEnds
    <3>. QED  BY <1>1, <1>2, <2>1, <3>1, <3>2
  <2>. QED  BY <1>2, <2>1, <2>2, <2>3, MembershipWriters
<1>3. WriterInv /\ [Next]_vars =>
        [\A o \in orgs \cap orgs', u \in Users :
           member[o][u] # member'[o][u] =>
             \/ req' = req
             \/ \E r \in Requests :
                  /\ Ends(r) /\ req[r].org = o
                  /\ \/ r \in overtaken
                     \/ /\ Authority(r) \in Roles
                        /\ RoleAtLeast(Authority(r), "admin")
                        /\ "owner" \in {member[o][u], member'[o][u]} =>
                             Authority(r) = "owner"]_vars
  BY <1>2
<1>. QED  BY <1>3, WriterHolds, PTL DEF Spec, WritersAreAuthorised

-----------------------------------------------------------------------------
(* An org without owner rights.  A step keeps it so when it adds no owner  *)
(* row, no owner token and no request that acts in it as an owner.         *)

LEMMA StaysOwnerless ==
  ASSUME TypeOK, NEW o \in Orgs, Ownerless(o), o \in orgs',
         \A u \in Users : member'[o][u] = "owner" => member[o][u] = "owner",
         \A t \in Tokens :
           token'[t].st = "live" /\ token'[t].org = o /\ token'[t].role = "owner" =>
             token[t].st = "live" /\ token[t].org = o /\ token[t].role = "owner",
         \A r \in Requests : ActsIn(r, o)' /\ req'[r].ctx = "owner" =>
                               ActsIn(r, o) /\ req[r].ctx = "owner"
  PROVE  Ownerless(o)'
BY DEF Ownerless, Owners

(* In such an org no request in flight acts as an owner.                   *)
LEMMA NoOwnerActs ==
  ASSUME NEW o \in Orgs, Ownerless(o), NEW r \in Requests,
         req[r].phase \in InContext, req[r].org = o
  PROVE  req[r].ctx # "owner"
BY DEF Ownerless, ActsIn

(* A step of one request that writes no table: only that request matters.  *)
LEMMA AdvanceOwnerless ==
  ASSUME TypeOK, NEW o \in Orgs, Ownerless(o), NEW r \in Requests, NEW next, Advance(r, next),
         next.ctx = "owner" =>
           ~ \/ next.phase \in InContext /\ next.org = o
             \/ next.phase = "auth" /\ token[next.who].org = o
  PROVE  Ownerless(o)'
<1>1. /\ UNCHANGED <<orgs, member, token>>
      /\ \A s \in Requests : req'[s] = IF s = r THEN next ELSE req[s]
  BY DEF Advance, TypeOK
<1>2. ASSUME NEW s \in Requests, ActsIn(s, o)', req'[s].ctx = "owner"
      PROVE  ActsIn(s, o) /\ req[s].ctx = "owner"
  BY <1>1, <1>2 DEF ActsIn
<1>3. o \in orgs'
  BY <1>1 DEF Ownerless
<1>. QED  BY <1>1, <1>2, <1>3, StaysOwnerless

(* The end of a request that changes tables elsewhere or not at all.       *)
LEMMA EndOwnerless ==
  ASSUME TypeOK, NEW o \in Orgs, Ownerless(o), o \in orgs',
         \A u \in Users : member'[o][u] = "owner" => member[o][u] = "owner",
         \A t \in Tokens :
           \/ token'[t] = token[t]
           \/ ~(token'[t].st = "live" /\ token'[t].org = o /\ token'[t].role = "owner")
               /\ (token[t].st = "unminted" \/ token'[t].org = token[t].org),
         \A s \in Requests :
           \/ req'[s] = Idle
           \/ \E l \in SUBSET {"org", "row"} : req'[s] = [req[s] EXCEPT !.lost = l],
         \A s \in Requests : req[s].phase = "auth" => token[req[s].who].st # "unminted"
  PROVE  Ownerless(o)'
<1>1. ASSUME NEW s \in Requests, ActsIn(s, o)', req'[s].ctx = "owner"
      PROVE  ActsIn(s, o) /\ req[s].ctx = "owner"
  <2>1. req'[s] # Idle
    BY <1>1 DEF ActsIn, Idle, InContext
  <2>2. req[s] \in Request
    BY DEF TypeOK
  <2>3. /\ req'[s].phase = req[s].phase /\ req'[s].org = req[s].org
        /\ req'[s].ctx = req[s].ctx /\ req'[s].who = req[s].who
    <3>1. PICK l \in SUBSET {"org", "row"} : req'[s] = [req[s] EXCEPT !.lost = l]
      BY <2>1
    <3>2. \A q \in RequestFields : LET d == [q EXCEPT !.lost = l] IN
            d.phase = q.phase /\ d.org = q.org /\ d.ctx = q.ctx /\ d.who = q.who
      BY DEF RequestFields
    <3>. QED  BY <2>2, <3>1, <3>2 DEF Request
  <2>4. CASE req[s].phase \in InContext
    BY <1>1, <2>3, <2>4 DEF ActsIn, InContext
  <2>5. CASE req[s].phase = "auth"
    <3>1. req[s].who \in Tokens
      BY <2>2, <2>5 DEF Request
    <3>2. token'[req[s].who].org = token[req[s].who].org
      BY <2>5, <3>1
    <3>. QED  BY <1>1, <2>3, <2>5, <3>2 DEF ActsIn, InContext
  <2>. QED  BY <1>1, <2>3, <2>4, <2>5 DEF ActsIn
<1>2. \A t \in Tokens :
        token'[t].st = "live" /\ token'[t].org = o /\ token'[t].role = "owner" =>
          token[t].st = "live" /\ token[t].org = o /\ token[t].role = "owner"
  OBVIOUS
<1>. QED  BY <1>1, <1>2, StaysOwnerless

LEMMA WriteMemberOwnerless ==
  ASSUME LineageInv, NEW o \in Orgs, Ownerless(o), NEW r \in Requests, NEW p \in Orgs,
         NEW u \in Users, NEW role \in Roles \cup {None}, WriteMember(r, p, u, role),
         orgs \subseteq orgs', token' = token, p # o \/ role # "owner"
  PROVE  Ownerless(o)'
<1>1. \A v \in Users : member'[o][v] = "owner" => member[o][v] = "owner"
  BY WriteMemberChanges DEF LineageInv
<1>2. ASSUME NEW s \in Requests
      PROVE  \/ req'[s] = Idle
             \/ \E l \in SUBSET {"org", "row"} : req'[s] = [req[s] EXCEPT !.lost = l]
  <2>1. req[s] \in RequestFields
    BY DEF LineageInv, TypeOK, Request
  <2>2. \A q \in RequestFields :
          /\ q.lost \cup {"row"} \in SUBSET {"org", "row"} /\ q.lost \in SUBSET {"org", "row"}
          /\ q = [q EXCEPT !.lost = q.lost]
    BY DEF RequestFields
  <2>3. req'[s] \in {Idle, req[s], [req[s] EXCEPT !.lost = req[s].lost \cup {"row"}]}
    BY DEF WriteMember
  <2>. QED  BY <2>1, <2>2, <2>3
<1>3. o \in orgs' /\ TypeOK /\ \A t \in Tokens : token'[t] = token[t]
  BY DEF Ownerless, LineageInv
<1>4. \A s \in Requests : req[s].phase = "auth" => token[req[s].who].st # "unminted"
  BY DEF LineageInv, Backed
<1>. QED  BY <1>1, <1>2, <1>3, <1>4, EndOwnerless

LEMMA OwnerlessNext ==
  ASSUME WriterInv, Next, req' # req, NEW o \in Orgs, Ownerless(o)
  PROVE  Ownerless(o)'
<1>. USE CallersAssumption, RolesAssumption, NoneAssumption
<1>0. TypeOK /\ LineageInv /\ o \in orgs
  BY DEF WriterInv, LineageInv, Ownerless
<1>1. ASSUME NEW r \in Requests, NEW t \in Tokens, AuthenticateToken(r, t)
      PROVE  Ownerless(o)'
  <2>. DEFINE next == [Idle EXCEPT !.phase = "auth", !.who = t, !.ctx = token[t].role]
  <2>1. next.phase = "auth" /\ next.who = t /\ next.ctx = token[t].role /\ next.phase \notin InContext
    BY DEF Idle, InContext
  <2>2. Advance(r, next) /\ token[t].st = "live"
    BY <1>1 DEF AuthenticateToken
  <2>3. token[t].org = o => next.ctx # "owner"
    BY <2>1, <2>2 DEF Ownerless
  <2>. HIDE DEF next
  <2>. QED  BY <1>0, <2>1, <2>2, <2>3, AdvanceOwnerless
<1>2. ASSUME NEW r \in Requests, NEW u \in DirectUsers, NEW p \in Orgs, AdmitUser(r, u, p)
      PROVE  Ownerless(o)'
  <2>. DEFINE next == [Idle EXCEPT !.phase = "ctx", !.who = u, !.org = p, !.ctx = member[p][u]]
  <2>1. next.phase = "ctx" /\ next.org = p /\ next.ctx = member[p][u]
    BY DEF Idle
  <2>2. Advance(r, next)
    BY <1>2 DEF AdmitUser
  <2>3. p = o => next.ctx # "owner"
    BY <2>1 DEF Ownerless, Owners
  <2>. HIDE DEF next
  <2>. QED  BY <1>0, <2>1, <2>2, <2>3, AdvanceOwnerless
<1>3. ASSUME NEW r \in Requests, NEW p \in Orgs, AdmitToken(r, p)
      PROVE  Ownerless(o)'
  <2>. DEFINE q == req[r]  next == [q EXCEPT !.phase = "ctx", !.org = p]
  <2>1. q \in Request /\ q.phase = "auth" /\ token[q.who].org = p /\ Advance(r, next)
    BY <1>0, <1>3 DEF AdmitToken, TypeOK
  <2>2. next.phase = "ctx" /\ next.org = p /\ next.ctx = q.ctx
    BY <2>1 DEF Request, RequestFields
  <2>3. p = o => q.ctx # "owner"
    BY <2>1 DEF Ownerless, ActsIn
  <2>. HIDE DEF next
  <2>. QED  BY <1>0, <2>1, <2>2, <2>3, AdvanceOwnerless
<1>4. ASSUME NEW r \in Requests, NEW next, Advance(r, next), req[r].phase \in InContext,
             next.phase \in InContext, next.org = req[r].org, next.ctx = req[r].ctx
      PROVE  Ownerless(o)'
  <2>1. req[r].org = o => req[r].ctx # "owner"
    BY <1>4 DEF Ownerless, ActsIn
  <2>2. next.phase # "auth"
    BY <1>4 DEF InContext
  <2>. QED  BY <1>0, <1>4, <2>1, <2>2, AdvanceOwnerless
<1>5. ASSUME NEW r \in Requests,
             \/ StartDeleteOrg(r) \/ CountOwners(r)
             \/ \E u \in Users, role \in BodyRoles \cup {None} : LoadMember(r, u, role)
             \/ \E t \in Tokens : StartRevoke(r, t)
      PROVE  Ownerless(o)'
  <2>1. req[r] \in RequestFields
    BY <1>0 DEF TypeOK, Request
  <2>2. CASE StartDeleteOrg(r) \/ CountOwners(r)
    BY <2>1, <2>2, <1>4 DEF StartDeleteOrg, CountOwners, RequestFields, InContext
  <2>3. CASE \E t \in Tokens : StartRevoke(r, t)
    BY <2>1, <2>3, <1>4 DEF StartRevoke, RequestFields, InContext
  <2>4. ASSUME NEW u \in Users, NEW role \in BodyRoles \cup {None}, LoadMember(r, u, role)
        PROVE  Ownerless(o)'
    <3>. DEFINE seen == member[req[r].org][u]
                p == IF seen = "owner" /\ role # "owner" THEN "loaded" ELSE "checked"
                next == [req[r] EXCEPT !.phase = p, !.target = u, !.seen = seen, !.body = role]
    <3>1. Advance(r, next) /\ req[r].phase = "ctx"
      BY <2>4 DEF LoadMember
    <3>2. p \in {"loaded", "checked"}
      OBVIOUS
    <3>. HIDE DEF p
    <3>3. next.phase = p /\ next.org = req[r].org /\ next.ctx = req[r].ctx
      BY <2>1 DEF RequestFields
    <3>. HIDE DEF next
    <3>. QED  BY <3>1, <3>2, <3>3, <1>4 DEF InContext
  <2>. QED  BY <1>5, <2>2, <2>3, <2>4
<1>6. ASSUME NEW r \in Requests, NEW u \in Users, NEW p \in Orgs, CreateOrg(r, u, p)
      PROVE  Ownerless(o)'
  <2>1. /\ p \notin orgs /\ orgs \subseteq orgs' /\ token' = token
        /\ WriteMember(r, p, u, "owner")
    BY <1>6 DEF CreateOrg
  <2>. QED  BY <1>0, <2>1, Ranks, WriteMemberOwnerless
<1>7. ASSUME NEW p \in Orgs, NEW u \in Users, Bootstrap(p, u)
      PROVE  FALSE
  <2>1. "owner" # None
    BY Ranks
  <2>2. req' = req
    BY <1>0, <1>7, <2>1 DEF Bootstrap, WriteMember, TypeOK
  <2>. QED  BY <2>2
<1>8. ASSUME NEW r \in Requests, NEW u \in Users, NEW role \in BodyRoles, AddMember(r, u, role)
      PROVE  Ownerless(o)'
  <2>1. /\ req[r] \in Request /\ req[r].phase = "ctx" /\ WriteMember(r, req[r].org, u, role)
        /\ orgs' = orgs /\ token' = token
        /\ role = "owner" => req[r].ctx = "owner"
    BY <1>0, <1>8 DEF AddMember, TypeOK
  <2>2. req[r].org \in Orgs /\ req[r].phase \in InContext
    BY <2>1 DEF Request, RequestFields, InContext
  <2>3. req[r].org # o \/ role # "owner"
    BY <2>1, <2>2, NoOwnerActs
  <2>. QED  BY <1>0, <2>1, <2>2, <2>3, WriteMemberOwnerless
<1>9. ASSUME NEW r \in Requests, CommitMember(r)
      PROVE  Ownerless(o)'
  <2>. DEFINE q == req[r]
  <2>1. /\ q \in Request /\ q.phase = "checked" /\ WriteMember(r, q.org, q.target, q.body)
        /\ orgs' = orgs /\ token' = token
    BY <1>0, <1>9 DEF CommitMember, TypeOK
  <2>2. /\ q.org \in Orgs /\ q.phase \in InContext /\ q.target \in Users
        /\ q.body \in Roles \cup {None}
    BY <2>1 DEF Request, RequestFields, InContext
  <2>3. q.body = "owner" => q.ctx = "owner"
    BY <2>1 DEF WriterInv, Entitled
  <2>4. q.org # o \/ q.body # "owner"
    BY <2>2, <2>3, NoOwnerActs
  <2>. QED  BY <1>0, <2>1, <2>2, <2>4, WriteMemberOwnerless
<1>10. \A s \in Requests : req[s].phase = "auth" => token[req[s].who].st # "unminted"
  BY <1>0 DEF LineageInv, Backed
<1>11. ASSUME NEW r \in Requests, DeleteOrg(r)
       PROVE  Ownerless(o)'
  <2>1. req[r].phase = "deleting" /\ req[r].phase \in InContext
    BY <1>11 DEF DeleteOrg, InContext
  <2>2. req[r].org # o
    BY <2>1, NoOwnerActs DEF WriterInv, Entitled
  <2>3. o \in orgs' /\ member'[o] = member[o]
    BY <1>0, <1>11, <2>2 DEF DeleteOrg, TypeOK
  <2>4. ASSUME NEW t \in Tokens
        PROVE  \/ token'[t] = token[t]
               \/ token'[t].st # "live" /\ token'[t].org = token[t].org
    <3>1. \A k \in Token : LET d == [k EXCEPT !.st = "deleted"] IN d.st # "live" /\ d.org = k.org
      BY DEF Token, Unminted
    <3>2. token'[t] \in {token[t], [token[t] EXCEPT !.st = "deleted"]}
      BY <1>11 DEF DeleteOrg
    <3>. QED  BY <1>0, <3>1, <3>2 DEF TypeOK
  <2>5. ASSUME NEW s \in Requests
        PROVE  \/ req'[s] = Idle
               \/ \E l \in SUBSET {"org", "row"} : req'[s] = [req[s] EXCEPT !.lost = l]
    <3>1. req[s] \in RequestFields
      BY <1>0 DEF TypeOK, Request
    <3>2. \A q \in RequestFields :
            q.lost \in SUBSET {"org", "row"} /\ q = [q EXCEPT !.lost = q.lost]
      BY DEF RequestFields
    <3>3. req'[s] \in {Idle, req[s], [req[s] EXCEPT !.lost = {"org", "row"}]}
      BY <1>11 DEF DeleteOrg
    <3>. QED  BY <3>1, <3>2, <3>3
  <2>. QED  BY <1>0, <1>10, <2>3, <2>4, <2>5, EndOwnerless
<1>12. ASSUME NEW r \in Requests, orgs' = orgs, member' = member, req' = [req EXCEPT ![r] = Idle],
              \A t \in Tokens :
                \/ token'[t] = token[t]
                \/ ~(token'[t].st = "live" /\ token'[t].org = o /\ token'[t].role = "owner")
                    /\ (token[t].st = "unminted" \/ token'[t].org = token[t].org)
       PROVE  Ownerless(o)'
  <2>1. ASSUME NEW s \in Requests
        PROVE  \/ req'[s] = Idle
               \/ \E l \in SUBSET {"org", "row"} : req'[s] = [req[s] EXCEPT !.lost = l]
    <3>1. req[s] \in RequestFields
      BY <1>0 DEF TypeOK, Request
    <3>2. \A q \in RequestFields :
            q.lost \in SUBSET {"org", "row"} /\ q = [q EXCEPT !.lost = q.lost]
      BY DEF RequestFields
    <3>3. req'[s] \in {Idle, req[s]}
      BY <1>0, <1>12 DEF TypeOK
    <3>. QED  BY <3>1, <3>2, <3>3
  <2>. QED  BY <1>0, <1>10, <1>12, <2>1, EndOwnerless
<1>13. ASSUME NEW r \in Requests, NEW t \in Tokens, NEW role \in BodyRoles, CreateToken(r, t, role)
       PROVE  Ownerless(o)'
  <2>1. /\ req[r] \in Request /\ req[r].phase = "ctx" /\ RoleAtLeast(req[r].ctx, role)
        /\ token[t].st = "unminted"
        /\ token' = [token EXCEPT ![t] = [st |-> "live", org |-> req[r].org,
                                          by |-> UserOf(req[r].who), role |-> role]]
    BY <1>0, <1>13 DEF CreateToken, TypeOK
  <2>2. req[r].ctx \in Roles /\ req[r].phase \in InContext
    BY <2>1 DEF Request, RequestFields, InContext
  <2>3. req[r].org # o \/ role # "owner"
    BY <2>1, <2>2, Ranks, NoOwnerActs
  <2>4. ASSUME NEW k \in Tokens
        PROVE  \/ token'[k] = token[k]
               \/ ~(token'[k].st = "live" /\ token'[k].org = o /\ token'[k].role = "owner")
                   /\ (token[k].st = "unminted" \/ token'[k].org = token[k].org)
    BY <1>0, <2>1, <2>3 DEF TypeOK
  <2>. QED  BY <1>12, <1>13, <2>4 DEF CreateToken
<1>14. ASSUME NEW r \in Requests, RevokeToken(r)
       PROVE  Ownerless(o)'
  <2>1. ASSUME NEW k \in Tokens
        PROVE  token'[k] = token[k] \/ (token'[k].st # "live" /\ token'[k].org = token[k].org)
    <3>1. \A x \in Token : LET d == [x EXCEPT !.st = "revoked"] IN d.st # "live" /\ d.org = x.org
      BY DEF Token, Unminted
    <3>2. token'[k] \in {token[k], [token[k] EXCEPT !.st = "revoked"]}
      BY <1>0, <1>14 DEF RevokeToken, TypeOK
    <3>. QED  BY <1>0, <3>1, <3>2 DEF TypeOK
  <2>. QED  BY <1>12, <1>14, <2>1 DEF RevokeToken
<1>15. ASSUME NEW r \in Requests, Answer(r) \/ Fail(r) \/ AbortDeadlocked(r)
       PROVE  Ownerless(o)'
  BY <1>12, <1>15 DEF Answer, Fail, AbortDeadlocked, EndUnchanged
<1>. QED
  BY <1>1, <1>2, <1>3, <1>5, <1>6, <1>7, <1>8, <1>9, <1>11, <1>13, <1>14, <1>15
     DEF Next, Begin, Proceed

(* Once nobody has owner rights in an org, no request brings them back.    *)
THEOREM OwnerRightsNeedOwners == Spec => OwnerlessForGood
<1>1. WriterInv /\ [Next]_vars =>
        [\A o \in Orgs : Ownerless(o) /\ req' # req => Ownerless(o)']_vars
  BY OwnerlessNext DEF vars
<1>. QED  BY <1>1, WriterHolds, PTL DEF Spec, OwnerlessForGood

-----------------------------------------------------------------------------
(* Every route takes effect at one instant.  What a commit rests on beside *)
(* the roles that were read: the row it names is there, in the org of the  *)
(* request, unless the request was told otherwise.                         *)
Anchored(q) ==
  /\ q.phase = "idle" => q = Idle
  /\ q.phase = "revoking" => token[q.target].st # "unminted" /\ token[q.target].org = q.org
  /\ q.phase \in {"loaded", "checked"} =>
       q.body \in BodyRoles \cup {None} /\ (q.lost = {} => member[q.org][q.target] # None)

CallInv ==
  /\ WriterInv
  /\ \A r \in Requests : Anchored(req[r]) /\ (r \in overtaken => req[r].phase \in InContext)

LEMMA AdvanceCall ==
  ASSUME CallInv, WriterInv', NEW r \in Requests, NEW next, Advance(r, next), Anchored(next),
         next.phase \in InContext \/ req[r].phase \notin InContext
  PROVE  CallInv'
<1>1. \A s \in Requests : req'[s] = IF s = r THEN next ELSE req[s]
  BY DEF Advance, CallInv, WriterInv, LineageInv, TypeOK
<1>2. \A s \in Requests : Anchored(req'[s]) => Anchored(req[s])'
  BY DEF Advance, Anchored
<1>3. overtaken' = overtaken
  BY DEF Advance
<1>. QED  BY <1>1, <1>2, <1>3 DEF CallInv

LEMMA EndCall ==
  ASSUME CallInv, WriterInv', NEW r \in Requests, member' = member,
         req' = [req EXCEPT ![r] = Idle], overtaken' = overtaken \ {r},
         \A t \in Tokens : token[t].st # "unminted" =>
           token'[t].st # "unminted" /\ token'[t].org = token[t].org
  PROVE  CallInv'
<1>1. ASSUME NEW s \in Requests
      PROVE  Anchored(req[s])' /\ (s \in overtaken' => req'[s].phase \in InContext)
  <2>1. CASE s = r
    BY <2>1 DEF CallInv, WriterInv, LineageInv, TypeOK, Anchored, Idle
  <2>2. CASE s # r
    <3>1. req'[s] = req[s] /\ req[s] \in Request
      BY <2>2 DEF CallInv, WriterInv, LineageInv, TypeOK
    <3>. QED  BY <2>2, <3>1 DEF CallInv, Anchored, Request
  <2>. QED  BY <2>1, <2>2
<1>. QED  BY <1>1 DEF CallInv

(* A write of memberships tells the requests whose row it deletes.         *)
Told(s, r, o) ==
  \/ s = r /\ req'[s] = Idle
  \/ /\ s # r /\ req'[s] = req[s]
     /\ member[req[s].org][req[s].target] # None =>
          \/ member'[req[s].org][req[s].target] # None
          \/ req[s].phase \notin {"loaded", "checked"} \/ req[s].lost # {}
  \/ /\ s # r /\ s \in RelyingOn(o)
     /\ \E l \in SUBSET {"org", "row"} : l # {} /\ req'[s] = [req[s] EXCEPT !.lost = l]

LEMMA OvertakeCall ==
  ASSUME CallInv, WriterInv', NEW r, NEW o \in Orgs,
         overtaken' = (overtaken \cup RelyingOn(o)) \ {r},
         \A t \in Tokens : token[t].st # "unminted" =>
           token'[t].st # "unminted" /\ token'[t].org = token[t].org,
         \A s \in Requests : Told(s, r, o)
  PROVE  CallInv'
<1>1. ASSUME NEW s \in Requests
      PROVE  Anchored(req[s])' /\ (s \in overtaken' => req'[s].phase \in InContext)
  <2>0. req[s] \in Request
    BY DEF CallInv, WriterInv, LineageInv, TypeOK
  <2>1. CASE s = r /\ req'[s] = Idle
    BY <2>1 DEF Anchored, Idle
  <2>2. CASE s # r /\ req'[s] = req[s] /\ (member[req[s].org][req[s].target] # None =>
                   \/ member'[req[s].org][req[s].target] # None
                   \/ req[s].phase \notin {"loaded", "checked"} \/ req[s].lost # {})
    <3>1. Anchored(req[s])'
      BY <2>0, <2>2 DEF CallInv, Anchored, Request
    <3>2. s \in overtaken' => req'[s].phase \in InContext
      BY <2>2 DEF CallInv, RelyingOn
    <3>. QED  BY <3>1, <3>2
  <2>3. ASSUME s # r, s \in RelyingOn(o), NEW l \in SUBSET {"org", "row"}, l # {},
               req'[s] = [req[s] EXCEPT !.lost = l]
        PROVE  Anchored(req[s])' /\ (s \in overtaken' => req'[s].phase \in InContext)
    <3>1. /\ req'[s].phase = req[s].phase /\ req'[s].org = req[s].org
          /\ req'[s].target = req[s].target /\ req'[s].lost = l
      BY <2>0, <2>3 DEF Request, RequestFields
    <3>2. req[s].phase \in InContext
      BY <2>3 DEF RelyingOn
    <3>. QED  BY <2>0, <2>3, <3>1, <3>2 DEF CallInv, Anchored, Request, InContext
  <2>. QED  BY <2>1, <2>2, <2>3 DEF Told
<1>. QED  BY <1>1 DEF CallInv

LEMMA WriteMemberCall ==
  ASSUME CallInv, WriterInv', NEW r \in Requests \cup {None}, NEW o \in Orgs, NEW u \in Users,
         NEW role \in Roles \cup {None}, WriteMember(r, o, u, role), token' = token
  PROVE  CallInv'
<1>0. TypeOK
  BY DEF CallInv, WriterInv, LineageInv
<1>1. ASSUME NEW s \in Requests
      PROVE  Told(s, r, o)
  <2>. DEFINE q == req[s]
  <2>1. q \in Request
    BY <1>0 DEF TypeOK
  <2>2. CASE s # r /\ req'[s] = q
    <3>1. ASSUME q.phase \in {"loaded", "checked"}, member[q.org][q.target] # None,
                 member'[q.org][q.target] = None
          PROVE  q.lost # {}
      <4>1. q.org \in Orgs /\ q.target \in Users
        BY <2>1, <3>1 DEF Request, RequestFields, InContext
      <4>2. q.org = o /\ q.target = u /\ role = None
        BY <1>0, <3>1, <4>1, WriteMemberChanges
      <4>3. s \in RelyingOn(o)
        BY <3>1, <4>2 DEF RelyingOn, InContext
      <4>4. q = [q EXCEPT !.lost = @ \cup {"row"}]
        BY <2>2, <4>2, <4>3 DEF WriteMember
      <4>5. [q EXCEPT !.lost = @ \cup {"row"}].lost = q.lost \cup {"row"}
        BY <2>1 DEF Request, RequestFields
      <4>. QED  BY <4>4, <4>5
    <3>. QED  BY <2>2, <3>1 DEF Told
  <2>3. CASE s = r
    BY <2>3 DEF WriteMember, Told
  <2>4. CASE s # r /\ req'[s] # q
    <3>1. s \in RelyingOn(o) /\ req'[s] = [q EXCEPT !.lost = q.lost \cup {"row"}]
      BY <2>4 DEF WriteMember
    <3>2. q.lost \cup {"row"} \in SUBSET {"org", "row"} /\ q.lost \cup {"row"} # {}
      BY <2>1 DEF Request, RequestFields
    <3>. QED  BY <2>4, <3>1, <3>2 DEF Told
  <2>. QED  BY <2>2, <2>3, <2>4
<1>2. overtaken' = (overtaken \cup RelyingOn(o)) \ {r}
  BY DEF WriteMember
<1>. QED  BY <1>1, <1>2, OvertakeCall

LEMMA DeleteOrgCall ==
  ASSUME CallInv, WriterInv', NEW r \in Requests, DeleteOrg(r)
  PROVE  CallInv'
<1>. DEFINE o == req[r].org
<1>0. TypeOK /\ o \in Orgs /\ req[r].phase \in InContext
  <2>1. req[r] \in Request /\ req[r].phase = "deleting"
    BY DEF CallInv, WriterInv, LineageInv, TypeOK, DeleteOrg
  <2>. QED  BY <2>1 DEF CallInv, WriterInv, LineageInv, Request, RequestFields, InContext
<1>1. \A t \in Tokens : token[t].st # "unminted" =>
        token'[t].st # "unminted" /\ token'[t].org = token[t].org
  <2>1. \A k \in Token : LET d == [k EXCEPT !.st = "deleted"] IN
          k.st # "unminted" => d.st = "deleted" /\ d.org = k.org
    BY DEF Token, Unminted
  <2>2. \A t \in Tokens : token'[t] \in {token[t], [token[t] EXCEPT !.st = "deleted"]}
    BY DEF DeleteOrg
  <2>. QED  BY <1>0, <2>1, <2>2 DEF TypeOK
<1>2. ASSUME NEW s \in Requests
      PROVE  Told(s, r, o)
  <2>1. CASE s = r
    BY <2>1 DEF DeleteOrg, Told
  <2>2. CASE s # r /\ s \in RelyingOn(o)
    <3>1. req'[s] = [req[s] EXCEPT !.lost = {"org", "row"}]
      BY <2>2 DEF DeleteOrg
    <3>. QED  BY <2>2, <3>1 DEF Told
  <2>3. CASE s # r /\ s \notin RelyingOn(o)
    <3>1. req'[s] = req[s]
      BY <2>3 DEF DeleteOrg
    <3>2. ASSUME req[s].phase \in {"loaded", "checked"}
          PROVE  member'[req[s].org] = member[req[s].org]
      <4>1. req[s] \in Request
        BY <1>0 DEF TypeOK
      <4>2. req[s].org # o /\ req[s].org \in Orgs
        BY <2>3, <3>2, <4>1 DEF RelyingOn, Request, RequestFields, InContext
      <4>. QED  BY <1>0, <4>2 DEF DeleteOrg, TypeOK
    <3>. QED  BY <2>3, <3>1, <3>2 DEF Told
  <2>. QED  BY <2>1, <2>2, <2>3
<1>3. overtaken' = (overtaken \cup RelyingOn(o)) \ {r}
  BY DEF DeleteOrg
<1>. HIDE DEF o
<1>. QED  BY <1>0, <1>1, <1>2, <1>3, OvertakeCall

LEMMA CallInit == Init => CallInv
<1>1. Init => \A r \in Requests : Anchored(req[r]) /\ r \notin overtaken
  BY DEF Init, Anchored, Idle
<1>. QED  BY <1>1, WriterInit DEF CallInv

LEMMA CallNext ==
  ASSUME CallInv, [Next]_vars
  PROVE  CallInv'
<1>. USE CallersAssumption, RolesAssumption, NoneAssumption
<1>0. WriterInv' /\ TypeOK
  BY WriterNext DEF CallInv, WriterInv, LineageInv
<1>1. ASSUME NEW r \in Requests, Begin(r) \/ \E o \in Orgs : AdmitToken(r, o)
      PROVE  CallInv'
  <2>1. ASSUME NEW next, Advance(r, next), next.phase \in {"auth", "ctx"},
               req[r].phase \in {"idle", "auth"}
        PROVE  CallInv'
    <3>1. Anchored(next)
      BY <2>1 DEF Anchored
    <3>. QED  BY <1>0, <2>1, <3>1, AdvanceCall DEF InContext
  <2>2. ASSUME NEW t \in Tokens, AuthenticateToken(r, t)
        PROVE  CallInv'
    BY <2>1, <2>2 DEF AuthenticateToken, Idle
  <2>3. ASSUME NEW u \in DirectUsers, NEW o \in Orgs, AdmitUser(r, u, o)
        PROVE  CallInv'
    BY <2>1, <2>3 DEF AdmitUser, Idle
  <2>4. ASSUME NEW o \in Orgs, AdmitToken(r, o)
        PROVE  CallInv'
    <3>1. req[r] \in RequestFields
      BY <1>0 DEF TypeOK, Request
    <3>. QED  BY <2>1, <2>4, <3>1 DEF AdmitToken, RequestFields
  <2>. QED  BY <1>1, <2>2, <2>3, <2>4 DEF Begin
<1>2. ASSUME NEW r \in Requests, StartDeleteOrg(r) \/ CountOwners(r)
      PROVE  CallInv'
  <2>. DEFINE q == req[r]
  <2>1. q \in Request /\ q.phase \in InContext /\ Anchored(q)
    BY <1>0, <1>2 DEF StartDeleteOrg, CountOwners, InContext, CallInv, TypeOK
  <2>2. CASE StartDeleteOrg(r)
    <3>. DEFINE next == [q EXCEPT !.phase = "deleting"]
    <3>1. Advance(r, next) /\ next.phase = "deleting"
      BY <2>1, <2>2 DEF StartDeleteOrg, Request, RequestFields
    <3>. HIDE DEF next
    <3>2. Anchored(next)
      BY <3>1 DEF Anchored
    <3>. QED  BY <1>0, <3>1, <3>2, AdvanceCall DEF InContext
  <2>3. CASE CountOwners(r)
    <3>. DEFINE next == [q EXCEPT !.phase = "checked"]
    <3>1. /\ Advance(r, next) /\ next.phase = "checked" /\ q.phase = "loaded"
          /\ next.target = q.target /\ next.org = q.org /\ next.lost = q.lost
          /\ next.body = q.body
      BY <2>1, <2>3 DEF CountOwners, Request, RequestFields
    <3>. HIDE DEF next
    <3>2. Anchored(next)
      BY <2>1, <3>1 DEF Anchored
    <3>. QED  BY <1>0, <3>1, <3>2, AdvanceCall DEF InContext
  <2>. QED  BY <1>2, <2>2, <2>3
<1>3. ASSUME NEW r \in Requests, NEW u \in Users, NEW role \in BodyRoles \cup {None},
             LoadMember(r, u, role)
      PROVE  CallInv'
  <2>. DEFINE q == req[r]  seen == member[q.org][u]
              p == IF seen = "owner" /\ role # "owner" THEN "loaded" ELSE "checked"
              next == [q EXCEPT !.phase = p, !.target = u, !.seen = seen, !.body = role]
  <2>1. q \in Request /\ Advance(r, next) /\ seen # None
    BY <1>0, <1>3 DEF LoadMember, TypeOK
  <2>2. p \in {"loaded", "checked"}
    OBVIOUS
  <2>. HIDE DEF p
  <2>3. next.phase = p /\ next.target = u /\ next.org = q.org /\ next.body = role
    BY <2>1 DEF Request, RequestFields
  <2>. HIDE DEF next
  <2>4. Anchored(next)
    BY <2>1, <2>2, <2>3 DEF Anchored
  <2>. QED  BY <1>0, <2>1, <2>2, <2>3, <2>4, AdvanceCall DEF InContext
<1>4. ASSUME NEW r \in Requests, NEW t \in Tokens, StartRevoke(r, t)
      PROVE  CallInv'
  <2>. DEFINE q == req[r]  next == [q EXCEPT !.phase = "revoking", !.target = t]
  <2>1. q \in Request /\ Advance(r, next) /\ token[t].st = "live" /\ token[t].org = q.org
    BY <1>0, <1>4 DEF StartRevoke, TypeOK
  <2>2. next.phase = "revoking" /\ next.target = t /\ next.org = q.org
    BY <2>1 DEF Request, RequestFields
  <2>. HIDE DEF next
  <2>3. Anchored(next)
    BY <2>1, <2>2 DEF Anchored
  <2>. QED  BY <1>0, <2>1, <2>2, <2>3, AdvanceCall DEF InContext
<1>5. ASSUME NEW r \in Requests, NEW u \in Users, NEW o \in Orgs, CreateOrg(r, u, o)
      PROVE  CallInv'
  BY <1>0, <1>5, Ranks, WriteMemberCall DEF CreateOrg
<1>6. ASSUME NEW o \in Orgs, NEW u \in Users, Bootstrap(o, u)
      PROVE  CallInv'
  BY <1>0, <1>6, Ranks, WriteMemberCall DEF Bootstrap
<1>7. ASSUME NEW r \in Requests, NEW u \in Users, NEW role \in BodyRoles, AddMember(r, u, role)
      PROVE  CallInv'
  <2>1. /\ req[r] \in Request /\ req[r].phase = "ctx" /\ WriteMember(r, req[r].org, u, role)
        /\ token' = token
    BY <1>0, <1>7 DEF AddMember, TypeOK
  <2>2. req[r].org \in Orgs
    BY <2>1 DEF Request, RequestFields, InContext
  <2>. QED  BY <1>0, <2>1, <2>2, WriteMemberCall
<1>8. ASSUME NEW r \in Requests, CommitMember(r)
      PROVE  CallInv'
  <2>1. /\ req[r] \in Request /\ req[r].phase = "checked" /\ token' = token
        /\ WriteMember(r, req[r].org, req[r].target, req[r].body)
    BY <1>0, <1>8 DEF CommitMember, TypeOK
  <2>2. req[r].org \in Orgs /\ req[r].target \in Users /\ req[r].body \in Roles \cup {None}
    BY <2>1 DEF Request, RequestFields, InContext
  <2>. QED  BY <1>0, <2>1, <2>2, WriteMemberCall
<1>9. ASSUME NEW r \in Requests, DeleteOrg(r)
      PROVE  CallInv'
  BY <1>0, <1>9, DeleteOrgCall
<1>10. ASSUME NEW r \in Requests, NEW t \in Tokens, NEW role \in BodyRoles, CreateToken(r, t, role)
       PROVE  CallInv'
  <2>1. \A k \in Tokens : token[k].st # "unminted" => token'[k] = token[k]
    BY <1>0, <1>10 DEF CreateToken, TypeOK
  <2>. QED  BY <1>0, <1>10, <2>1, EndCall DEF CreateToken
<1>11. ASSUME NEW r \in Requests, RevokeToken(r)
       PROVE  CallInv'
  <2>1. \A k \in Token : LET d == [k EXCEPT !.st = "revoked"] IN
          k.st # "unminted" => d.st # "unminted" /\ d.org = k.org
    BY DEF Token, Unminted
  <2>2. \A t \in Tokens : token'[t] \in {token[t], [token[t] EXCEPT !.st = "revoked"]}
    BY <1>0, <1>11 DEF RevokeToken, TypeOK
  <2>3. \A t \in Tokens : token[t].st # "unminted" =>
          token'[t].st # "unminted" /\ token'[t].org = token[t].org
    BY <1>0, <2>1, <2>2 DEF TypeOK
  <2>. QED  BY <1>0, <1>11, <2>3, EndCall DEF RevokeToken
<1>12. ASSUME NEW r \in Requests, Answer(r) \/ Fail(r) \/ AbortDeadlocked(r)
       PROVE  CallInv'
  BY <1>0, <1>12, EndCall DEF Answer, Fail, AbortDeadlocked, EndUnchanged
<1>13. CASE UNCHANGED vars
  <2>1. \A s \in Requests : Anchored(req[s]) => Anchored(req[s])'
    BY <1>13 DEF Anchored, vars
  <2>. QED  BY <1>0, <1>13, <2>1 DEF CallInv, vars
<1>. QED
  BY <1>1, <1>2, <1>3, <1>4, <1>5, <1>6, <1>7, <1>8, <1>9, <1>10, <1>11, <1>12, <1>13
     DEF Next, Proceed

THEOREM CallHolds == Spec => []CallInv
<1>. QED  BY CallInit, CallNext, PTL DEF Spec

-----------------------------------------------------------------------------
(* The mapping to OrgRegistry.                                             *)

(* The steps of a request before its last are not seen.                    *)
LEMMA AdvanceStutters ==
  ASSUME CallInv, NEW r \in Requests, NEW next, Advance(r, next), next.who = req[r].who,
         r \in overtaken => next.org = req[r].org
  PROVE  UNCHANGED Registry!registryVars
<1>1. \A s \in Requests : req'[s] = IF s = r THEN next ELSE req[s]
  BY DEF Advance, CallInv, WriterInv, LineageInv, TypeOK
<1>2. overtaken' = overtaken /\ overtaken \subseteq Requests
  BY DEF Advance, CallInv, WriterInv, LineageInv, TypeOK
<1>3. \A s \in Requests : req'[s].who = req[s].who
  BY <1>1
<1>4. \A s \in overtaken : req'[s].org = req[s].org
  BY <1>1, <1>2
<1>5. {<<s, req'[s].org>> : s \in overtaken'} = {<<s, req[s].org>> : s \in overtaken}
  BY <1>2, <1>4
<1>. QED  BY <1>3, <1>5 DEF Advance, Registry!registryVars, Registry!rows

LEMMA PresentMaps ==
  ASSUME CallInv, NEW r \in Requests, NEW c \in DirectUsers \cup Tokens, NEW next,
         Advance(r, next), req[r].phase = "idle", next.who = c,
         c \in Tokens => token[c].st = "live"
  PROVE  Registry!Present(r)
<1>1. \A s \in Requests : req'[s] = IF s = r THEN next ELSE req[s]
  BY DEF Advance, CallInv, WriterInv, LineageInv, TypeOK
<1>2. overtaken' = overtaken /\ overtaken \subseteq Requests /\ r \notin overtaken
  BY DEF Advance, CallInv, WriterInv, LineageInv, TypeOK, InContext
<1>3. req[r].who = None
  BY DEF CallInv, Anchored, Idle
<1>4. [s \in Requests |-> req'[s].who] = [[s \in Requests |-> req[s].who] EXCEPT ![r] = c]
  BY <1>1
<1>5. {<<s, req'[s].org>> : s \in overtaken'} = {<<s, req[s].org>> : s \in overtaken}
  BY <1>1, <1>2
<1>. QED  BY <1>3, <1>4, <1>5 DEF Advance, Registry!Present, Registry!rows

LEMMA EndAnswers ==
  ASSUME CallInv, NEW r \in Requests, req' = [req EXCEPT ![r] = Idle],
         overtaken' = overtaken \ {r}
  PROVE  Registry!Answered(r)
<1>1. \A s \in Requests : req'[s] = IF s = r THEN Idle ELSE req[s]
  BY DEF CallInv, WriterInv, LineageInv, TypeOK
<1>2. overtaken \subseteq Requests /\ Idle.who = None
  BY DEF CallInv, WriterInv, LineageInv, TypeOK, Idle
<1>3. [s \in Requests |-> req'[s].who] = [[s \in Requests |-> req[s].who] EXCEPT ![r] = None]
  <2>1. \A s \in Requests : req'[s].who = IF s = r THEN None ELSE req[s].who
    BY <1>1, <1>2
  <2>. QED  BY <2>1
<1>4. {<<s, req'[s].org>> : s \in overtaken'} \subseteq {<<s, req[s].org>> : s \in overtaken}
  BY <1>1, <1>2
<1>. QED  BY <1>3, <1>4 DEF Registry!Answered

(* The request has a caller no more (None: the step is nobody's).          *)
Leaves(r) ==
  [s \in Requests |-> req'[s].who] = [[s \in Requests |-> req[s].who] EXCEPT ![r] = None]

LEMMA OvertakeMaps ==
  ASSUME CallInv, NEW r \in Requests \cup {None}, NEW o \in Orgs,
         overtaken' = (overtaken \cup RelyingOn(o)) \ {r},
         \A s \in Requests :
           \/ s = r /\ req'[s] = Idle
           \/ s # r /\ req'[s].who = req[s].who /\ req'[s].org = req[s].org
  PROVE  /\ Registry!Overtakes(o)
         /\ Leaves(r)
<1>1. overtaken \subseteq Requests /\ RelyingOn(o) \subseteq Requests /\ Idle.who = None
  BY DEF CallInv, WriterInv, LineageInv, TypeOK, Idle, RelyingOn
<1>2. Leaves(r)
  BY <1>1 DEF Leaves
<1>3. ASSUME NEW s \in overtaken'
      PROVE  <<s, req'[s].org>> \in {<<x, req[x].org>> : x \in overtaken} \cup (Requests \X {o})
  <2>1. s \in Requests /\ req'[s].org = req[s].org
    BY <1>1, <1>3
  <2>2. CASE s \in overtaken
    BY <2>1, <2>2
  <2>3. CASE s \in RelyingOn(o)
    BY <2>1, <2>3 DEF RelyingOn
  <2>. QED  BY <2>2, <2>3
<1>. QED  BY <1>2, <1>3 DEF Registry!Overtakes

LEMMA WriteMaps ==
  ASSUME CallInv, NEW r \in Requests \cup {None}, NEW o \in Orgs, NEW u \in Users,
         NEW role \in Roles \cup {None}, WriteMember(r, o, u, role)
  PROVE  /\ Registry!SetMember(o, u, role)
         /\ Leaves(r)
<1>1. ASSUME NEW s \in Requests
      PROVE  \/ s = r /\ req'[s] = Idle
             \/ s # r /\ req'[s].who = req[s].who /\ req'[s].org = req[s].org
  <2>1. \A q \in RequestFields : LET d == [q EXCEPT !.lost = q.lost \cup {"row"}] IN
          d.who = q.who /\ d.org = q.org
    BY DEF RequestFields
  <2>2. \/ s = r /\ req'[s] = Idle
        \/ s # r /\ req'[s] \in {req[s], [req[s] EXCEPT !.lost = req[s].lost \cup {"row"}]}
    BY DEF WriteMember
  <2>3. req[s] \in RequestFields
    BY DEF CallInv, WriterInv, LineageInv, TypeOK, Request
  <2>. QED  BY <2>1, <2>2, <2>3
<1>2. overtaken' = (overtaken \cup RelyingOn(o)) \ {r}
  BY DEF WriteMember
<1>. QED  BY <1>1, <1>2, OvertakeMaps DEF WriteMember, Registry!SetMember

(* The role a request has read is the caller's still, unless the caller is *)
(* a user and the request was overtaken: the row of a token is locked.     *)
LEMMA ContextMaps ==
  ASSUME CallInv, NEW r \in Requests, req[r].phase \in InContext,
         NEW role, RoleAtLeast(req[r].ctx, role)
  PROVE  Registry!May(r, req[r].org, role)
<1>. DEFINE q == req[r]
<1>1. q \in Request /\ Backed(q) /\ (r \in overtaken \/ UpToDate(q))
  BY DEF CallInv, WriterInv, LineageInv, TypeOK
<1>2. q.who # None /\ q.ctx \in Roles /\ q.ctx # None
  BY <1>1, NoneAssumption DEF Request, RequestFields, InContext
<1>3. CASE q.who \in Tokens
  BY <1>1, <1>2, <1>3 DEF Backed, Registry!May, Registry!RoleIn, Registry!Usable
<1>4. CASE q.who \notin Tokens /\ r \in overtaken
  BY <1>2, <1>4 DEF Registry!May
<1>5. CASE q.who \notin Tokens /\ r \notin overtaken
  BY <1>1, <1>2, <1>5 DEF UpToDate, Registry!May, Registry!RoleIn
<1>. QED  BY <1>3, <1>4, <1>5

LEMMA AdmissionsMap ==
  ASSUME CallInv, NEW r \in Requests, Begin(r)
  PROVE  Registry!Present(r)
<1>1. ASSUME NEW t \in Tokens, AuthenticateToken(r, t)
      PROVE  Registry!Present(r)
  <2>. DEFINE next == [Idle EXCEPT !.phase = "auth", !.who = t, !.ctx = token[t].role]
  <2>1. Advance(r, next) /\ next.who = t /\ req[r].phase = "idle" /\ token[t].st = "live"
    BY <1>1 DEF AuthenticateToken, Idle
  <2>. HIDE DEF next
  <2>. QED  BY <2>1, PresentMaps
<1>2. ASSUME NEW u \in DirectUsers, NEW o \in Orgs, AdmitUser(r, u, o)
      PROVE  Registry!Present(r)
  <2>. DEFINE next == [Idle EXCEPT !.phase = "ctx", !.who = u, !.org = o, !.ctx = member[o][u]]
  <2>1. Advance(r, next) /\ next.who = u /\ req[r].phase = "idle" /\ u \notin Tokens
    BY <1>2, CallersAssumption DEF AdmitUser, Idle
  <2>. HIDE DEF next
  <2>. QED  BY <2>1, PresentMaps
<1>. QED  BY <1>1, <1>2 DEF Begin

LEMMA ReadsStutter ==
  ASSUME CallInv, NEW r \in Requests,
         \/ StartDeleteOrg(r) \/ CountOwners(r)
         \/ \E o \in Orgs : AdmitToken(r, o)
         \/ \E u \in Users, role \in BodyRoles \cup {None} : LoadMember(r, u, role)
         \/ \E t \in Tokens : StartRevoke(r, t)
  PROVE  UNCHANGED Registry!registryVars
<1>. DEFINE q == req[r]
<1>1. q \in RequestFields
  BY DEF CallInv, WriterInv, LineageInv, TypeOK, Request
<1>2. CASE StartDeleteOrg(r) \/ CountOwners(r)
  BY <1>1, <1>2, AdvanceStutters DEF StartDeleteOrg, CountOwners, RequestFields
<1>3. ASSUME NEW o \in Orgs, AdmitToken(r, o)
      PROVE  UNCHANGED Registry!registryVars
  <2>1. r \notin overtaken
    BY <1>3 DEF AdmitToken, CallInv, InContext
  <2>. QED  BY <1>1, <1>3, <2>1, AdvanceStutters DEF AdmitToken, RequestFields
<1>4. ASSUME NEW u \in Users, NEW role \in BodyRoles \cup {None}, LoadMember(r, u, role)
      PROVE  UNCHANGED Registry!registryVars
  <2>. DEFINE seen == member[q.org][u]
              p == IF seen = "owner" /\ role # "owner" THEN "loaded" ELSE "checked"
              next == [q EXCEPT !.phase = p, !.target = u, !.seen = seen, !.body = role]
  <2>1. Advance(r, next)
    BY <1>4 DEF LoadMember
  <2>. HIDE DEF p
  <2>2. next.who = q.who /\ next.org = q.org
    BY <1>1 DEF RequestFields
  <2>. HIDE DEF next
  <2>. QED  BY <2>1, <2>2, AdvanceStutters
<1>5. CASE \E t \in Tokens : StartRevoke(r, t)
  BY <1>1, <1>5, AdvanceStutters DEF StartRevoke, RequestFields
<1>. QED  BY <1>2, <1>3, <1>4, <1>5

LEMMA EndsMap ==
  ASSUME CallInv, NEW r \in Requests, Answer(r) \/ Fail(r) \/ AbortDeadlocked(r)
  PROVE  Registry!Decline(r)
BY EndAnswers DEF Answer, Fail, AbortDeadlocked, EndUnchanged, Registry!Decline, Registry!rows

LEMMA CreateOrgMaps ==
  ASSUME CallInv, NEW r \in Requests, NEW u \in Users, NEW o \in Orgs, CreateOrg(r, u, o)
  PROVE  \E c \in DirectUsers \cup Tokens : Registry!CreateOrg(r, c, o)
<1>. DEFINE q == req[r]
<1>1. /\ o \notin orgs /\ orgs' = orgs \cup {o} /\ token' = token
      /\ WriteMember(r, o, u, "owner")
      /\ q \in Request /\ Backed(q) /\ Anchored(q)
  BY DEF CreateOrg, CallInv, WriterInv, LineageInv, TypeOK
<1>2. /\ Registry!SetMember(o, u, "owner")
      /\ Leaves(r)
  BY <1>1, Ranks, WriteMaps
<1>3. CASE q.phase = "idle" /\ u \in DirectUsers
  <2>1. q.who = None /\ u \notin Tokens
    BY <1>1, <1>3, CallersAssumption DEF Anchored, Idle
  <2>2. Registry!CreateOrg(r, u, o)
    BY <1>1, <1>2, <1>3, <2>1 DEF Leaves, Registry!CreateOrg, Registry!UserOf
  <2>. QED  BY <1>3, <2>2
<1>4. CASE q.phase = "ctx" /\ q.who \in Tokens /\ u = UserOf(q.who)
  <2>1. Registry!Usable(q.who)
    BY <1>1, <1>4 DEF Backed, InContext, Registry!Usable
  <2>2. Registry!CreateOrg(r, q.who, o)
    BY <1>1, <1>2, <1>4, <2>1 DEF Leaves, Registry!CreateOrg, Registry!UserOf, UserOf
  <2>. QED  BY <1>4, <2>2
<1>. QED  BY <1>3, <1>4 DEF CreateOrg

LEMMA BootstrapMaps ==
  ASSUME CallInv, NEW o \in Orgs, NEW u \in Users, Bootstrap(o, u)
  PROVE  Registry!Bootstrap(o, u)
<1>1. /\ Registry!SetMember(o, u, "owner")
      /\ Leaves(None)
  BY Ranks, WriteMaps DEF Bootstrap
<1>2. \A s \in Requests : s # None
  BY NoneAssumption
<1>3. [s \in Requests |-> req'[s].who] = [s \in Requests |-> req[s].who]
  BY <1>1, <1>2 DEF Leaves
<1>. QED  BY <1>1, <1>3 DEF Bootstrap, Registry!Bootstrap

LEMMA AddMemberMaps ==
  ASSUME CallInv, NEW r \in Requests, NEW u \in Users, NEW role \in BodyRoles,
         AddMember(r, u, role)
  PROVE  \E o \in Orgs : Registry!AddMember(r, o, u, role)
<1>. DEFINE q == req[r]
<1>1. q \in Request /\ Backed(q) /\ q.phase = "ctx"
  BY DEF AddMember, CallInv, WriterInv, LineageInv, TypeOK
<1>2. q.phase \in InContext /\ q.org \in Orgs /\ role \in Roles
  BY <1>1, RolesAssumption, NoneAssumption DEF Request, RequestFields, InContext
<1>3. PICK o \in Orgs : o = q.org
  BY <1>2
<1>4. o \in orgs /\ Registry!May(r, o, "admin")
  BY <1>1, <1>2, <1>3, ContextMaps DEF AddMember, Backed
<1>5. role = "owner" => Registry!May(r, o, "owner")
  BY <1>2, <1>3, Ranks, ContextMaps DEF AddMember
<1>6. WriteMember(r, o, u, role) /\ UNCHANGED <<orgs, token>> /\ member[o][u] = None
  BY <1>3 DEF AddMember
<1>7. Registry!SetMember(o, u, role) /\ Leaves(r)
  BY <1>2, <1>6, WriteMaps
<1>8. Registry!AddMember(r, o, u, role)
  BY <1>4, <1>5, <1>6, <1>7 DEF Leaves, Registry!AddMember
<1>. QED  BY <1>8

LEMMA CommitMemberMaps ==
  ASSUME CallInv, NEW r \in Requests, CommitMember(r)
  PROVE  \E o \in Orgs, u \in Users, role \in BodyRoles \cup {None} :
           Registry!ChangeMember(r, o, u, role)
<1>. DEFINE q == req[r]
<1>1. /\ q \in Request /\ Backed(q) /\ Entitled(q) /\ Anchored(q) /\ q.phase = "checked"
      /\ r \in overtaken \/ UpToDate(q)
  BY DEF CommitMember, CallInv, WriterInv, LineageInv, TypeOK
<1>2. /\ q.phase \in InContext \ {"ctx"} /\ q.org \in Orgs /\ q.target \in Users
      /\ q.body \in BodyRoles \cup {None}
  BY <1>1 DEF Request, RequestFields, InContext, Anchored
<1>3. PICK o \in Orgs, u \in Users, role \in BodyRoles \cup {None} :
        o = q.org /\ u = q.target /\ role = q.body
  BY <1>2
<1>4. o \in orgs /\ member[o][u] # None
  BY <1>1, <1>2, <1>3 DEF CommitMember, Backed, Anchored
<1>5. Registry!May(r, o, "admin")
  BY <1>1, <1>2, <1>3, ContextMaps DEF Entitled
<1>6. q.ctx = "owner" => Registry!May(r, o, "owner")
  BY <1>2, <1>3, Ranks, ContextMaps
<1>7. role = "owner" => Registry!May(r, o, "owner")
  BY <1>1, <1>3, <1>6 DEF Entitled
<1>8. ASSUME r \notin overtaken, member[o][u] = "owner", role # "owner"
      PROVE  Registry!May(r, o, "owner") /\ ~Registry!SoleOwner(o, u)
  <2>1. q.seen = "owner" /\ Cardinality(Owners(o)) > 1
    BY <1>1, <1>2, <1>3, <1>8 DEF UpToDate
  <2>2. Registry!May(r, o, "owner")
    BY <1>1, <1>6, <2>1 DEF Entitled
  <2>3. IsFiniteSet(Owners(o))
    BY CallersAssumption, FS_Subset DEF Owners
  <2>4. PICK v \in Owners(o) : v # u
    BY <2>1, <2>3, OneOfSeveral
  <2>5. ~Registry!SoleOwner(o, u)
    BY <2>4 DEF Owners, Registry!SoleOwner
  <2>. QED  BY <2>2, <2>5
<1>9. r \in overtaken => <<r, o>> \in {<<s, req[s].org>> : s \in overtaken}
  BY <1>3
<1>10. WriteMember(r, o, u, role) /\ UNCHANGED <<orgs, token>> /\ role \in Roles \cup {None}
  BY <1>3, RolesAssumption DEF CommitMember
<1>11. Registry!SetMember(o, u, role) /\ Leaves(r)
  BY <1>10, WriteMaps
<1>12. Registry!ChangeMember(r, o, u, role)
  BY <1>4, <1>5, <1>7, <1>8, <1>9, <1>10, <1>11 DEF Leaves, Registry!ChangeMember
<1>. QED  BY <1>12

LEMMA DeleteOrgMaps ==
  ASSUME CallInv, NEW r \in Requests, DeleteOrg(r)
  PROVE  \E o \in Orgs : Registry!DeleteOrg(r, o)
<1>. DEFINE q == req[r]
<1>1. q \in Request /\ Backed(q) /\ Entitled(q) /\ q.phase = "deleting"
  BY DEF DeleteOrg, CallInv, WriterInv, LineageInv, TypeOK
<1>2. q.phase \in InContext /\ q.org \in Orgs /\ q.ctx = "owner"
  BY <1>1 DEF Request, RequestFields, InContext, Entitled
<1>3. PICK o \in Orgs : o = q.org
  BY <1>2
<1>4. o \in orgs /\ Registry!May(r, o, "owner")
  BY <1>1, <1>2, <1>3, Ranks, ContextMaps DEF DeleteOrg, Backed
<1>5. ASSUME NEW s \in Requests
      PROVE  \/ s = r /\ req'[s] = Idle
             \/ s # r /\ req'[s].who = req[s].who /\ req'[s].org = req[s].org
  <2>1. \A x \in RequestFields : LET d == [x EXCEPT !.lost = {"org", "row"}] IN
          d.who = x.who /\ d.org = x.org
    BY DEF RequestFields
  <2>2. \/ s = r /\ req'[s] = Idle
        \/ s # r /\ req'[s] \in {req[s], [req[s] EXCEPT !.lost = {"org", "row"}]}
    BY DEF DeleteOrg
  <2>3. req[s] \in RequestFields
    BY DEF CallInv, WriterInv, LineageInv, TypeOK, Request
  <2>. QED  BY <2>1, <2>2, <2>3
<1>6. overtaken' = (overtaken \cup RelyingOn(o)) \ {r}
  BY <1>3 DEF DeleteOrg
<1>7. Registry!Overtakes(o) /\ Leaves(r)
  BY <1>5, <1>6, OvertakeMaps
<1>8. Registry!DeleteOrg(r, o)
  BY <1>3, <1>4, <1>7 DEF Leaves, DeleteOrg, Registry!DeleteOrg
<1>. QED  BY <1>8

LEMMA CreateTokenMaps ==
  ASSUME CallInv, NEW r \in Requests, NEW t \in Tokens, NEW role \in BodyRoles,
         CreateToken(r, t, role)
  PROVE  \E o \in Orgs : Registry!CreateToken(r, o, t, role)
<1>. DEFINE q == req[r]
<1>1. q \in Request /\ Backed(q) /\ q.phase = "ctx"
  BY DEF CreateToken, CallInv, WriterInv, LineageInv, TypeOK
<1>2. q.phase \in InContext /\ q.org \in Orgs
  BY <1>1 DEF Request, RequestFields, InContext
<1>3. PICK o \in Orgs : o = q.org
  BY <1>2
<1>4. o \in orgs /\ Registry!May(r, o, "admin") /\ Registry!May(r, o, role)
  BY <1>1, <1>2, <1>3, ContextMaps DEF CreateToken, Backed
<1>5. Registry!Answered(r)
  BY EndAnswers DEF CreateToken
<1>6. Registry!CreateToken(r, o, t, role)
  BY <1>3, <1>4, <1>5 DEF CreateToken, UserOf, Registry!CreateToken, Registry!UserOf
<1>. QED  BY <1>6

LEMMA RevokeTokenMaps ==
  ASSUME CallInv, NEW r \in Requests, RevokeToken(r)
  PROVE  \E o \in Orgs, t \in Tokens : Registry!RevokeToken(r, o, t)
<1>. DEFINE q == req[r]
<1>1. q \in Request /\ Entitled(q) /\ Anchored(q) /\ q.phase = "revoking"
  BY DEF RevokeToken, CallInv, WriterInv, LineageInv, TypeOK
<1>2. q.phase \in InContext \ {"ctx"} /\ q.org \in Orgs /\ q.target \in Tokens
  BY <1>1 DEF Request, RequestFields, InContext
<1>3. PICK o \in Orgs, t \in Tokens : o = q.org /\ t = q.target
  BY <1>2
<1>4. Registry!May(r, o, "admin")
  BY <1>1, <1>2, <1>3, ContextMaps DEF Entitled
<1>5. token[t].org = o /\ Registry!Usable(t)
  BY <1>1, <1>3 DEF Anchored, RevokeToken, Registry!Usable
<1>6. Registry!Answered(r)
  BY EndAnswers DEF RevokeToken
<1>7. Registry!RevokeToken(r, o, t)
  BY <1>3, <1>4, <1>5, <1>6 DEF RevokeToken, Registry!RevokeToken
<1>. QED  BY <1>7

LEMMA RegistryStarts == Init => Registry!RegistryInit
BY DEF Init, Idle, Unminted, Registry!RegistryInit

LEMMA RegistrySteps ==
  ASSUME CallInv, [Next]_vars
  PROVE  [Registry!RegistryNext]_Registry!registryVars
<1>1. ASSUME NEW r \in Requests,
             \/ Begin(r) \/ Answer(r) \/ Fail(r) \/ AbortDeadlocked(r)
             \/ \E u \in Users, o \in Orgs : CreateOrg(r, u, o)
             \/ \E u \in Users, role \in BodyRoles : AddMember(r, u, role)
             \/ CommitMember(r) \/ DeleteOrg(r)
             \/ \E t \in Tokens, role \in BodyRoles : CreateToken(r, t, role)
             \/ RevokeToken(r)
      PROVE  Registry!RegistryNext
  <2>1. CASE Begin(r) \/ Answer(r) \/ Fail(r) \/ AbortDeadlocked(r)
    BY <2>1, AdmissionsMap, EndsMap DEF Registry!RegistryNext
  <2>2. CASE \E u \in Users, o \in Orgs : CreateOrg(r, u, o)
    BY <2>2, CreateOrgMaps DEF Registry!RegistryNext
  <2>3. CASE \E u \in Users, role \in BodyRoles : AddMember(r, u, role)
    BY <2>3, AddMemberMaps DEF Registry!RegistryNext
  <2>4. CASE CommitMember(r)
    <3>1. PICK o \in Orgs, u \in Users, role \in BodyRoles \cup {None} :
                 Registry!ChangeMember(r, o, u, role)
      BY <2>4, CommitMemberMaps
    <3>. QED  BY <3>1 DEF Registry!RegistryNext
  <2>5. CASE DeleteOrg(r)
    <3>1. PICK o \in Orgs : Registry!DeleteOrg(r, o)
      BY <2>5, DeleteOrgMaps
    <3>. QED  BY <3>1 DEF Registry!RegistryNext
  <2>6. CASE \E t \in Tokens, role \in BodyRoles : CreateToken(r, t, role)
    BY <2>6, CreateTokenMaps DEF Registry!RegistryNext
  <2>7. CASE RevokeToken(r)
    BY <2>7, RevokeTokenMaps DEF Registry!RegistryNext
  <2>. QED  BY <1>1, <2>1, <2>2, <2>3, <2>4, <2>5, <2>6, <2>7
<1>2. ASSUME NEW o \in Orgs, NEW u \in Users, Bootstrap(o, u)
      PROVE  Registry!RegistryNext
  BY <1>2, BootstrapMaps DEF Registry!RegistryNext
<1>3. CASE UNCHANGED vars
  BY <1>3 DEF vars, Registry!registryVars, Registry!rows
<1>. QED  BY <1>1, <1>2, <1>3, ReadsStutter DEF Next, Proceed

(* Every route takes effect at one instant: what it read before its commit *)
(* was still so, save for a request that memberships were written past.    *)
THEOREM RoutesAreAtomic == Spec => ImplementsRegistry
<1>. QED
  BY CallInit, CallNext, RegistryStarts, RegistrySteps, PTL
     DEF Spec, ImplementsRegistry, Registry!RegistrySpec
================================================================================
