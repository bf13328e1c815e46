------------------------------ MODULE OrgRegistry ------------------------------
(***************************************************************************)
(* Organisations, members and tokens as a client understands the routes:   *)
(* each request takes effect at one instant, checked against the rows of   *)
(* that instant.  There are no transactions here, no locks and no waiting. *)
(*                                                                         *)
(* Two things are conceded.  A token need only be live when it is          *)
(* presented.  A request in stale has decided on memberships that were     *)
(* written since.                                                          *)
(***************************************************************************)
CONSTANTS
  Orgs, Users, DirectUsers, Tokens, Requests, BodyRoles, None,
  RoleAtLeast(_, _)

VARIABLES
  orgs,    \* slugs with an org row
  member,  \* the role of each user in each org
  token,
  who,     \* the caller of each request
  stale    \* <<request, org>>: memberships of the org were written meanwhile

rows == <<orgs, member, token>>
registryVars == <<rows, who, stale>>

RegistryInit ==
  /\ orgs = {}
  /\ member = [o \in Orgs |-> [u \in Users |-> None]]
  /\ token = [t \in Tokens |-> [st |-> "unminted", org |-> None, by |-> None, role |-> None]]
  /\ who = [r \in Requests |-> None]
  /\ stale = {}

--------------------------------------------------------------------------------
Usable(t) == token[t].st \in {"live", "revoked"}

RoleIn(c, o) ==
  IF c \notin Tokens THEN member[o][c]
  ELSE IF Usable(c) /\ token[c].org = o THEN token[c].role ELSE None

(* A token has its role whatever memberships are written.                  *)
May(r, o, role) ==
  /\ who[r] # None
  /\ \/ RoleIn(who[r], o) # None /\ RoleAtLeast(RoleIn(who[r], o), role)
     \/ who[r] \notin Tokens /\ <<r, o>> \in stale

(* The user a caller acts for.                                             *)
UserOf(c) == IF c \in Tokens THEN token[c].by ELSE c

SoleOwner(o, u) == \A v \in Users : member[o][v] = "owner" <=> v = u

(* The request is answered; what others have read is as true as before.    *)
Answered(r) == who' = [who EXCEPT ![r] = None] /\ stale' \subseteq stale

(* What other requests have read of the memberships of o may be untrue now. *)
Overtakes(o) == stale' \subseteq stale \cup (Requests \X {o})

SetMember(o, u, role) ==
  /\ member' = [member EXCEPT ![o][u] = role]
  /\ Overtakes(o)

--------------------------------------------------------------------------------
(* A request is sent, or ends without having done anything.                *)
Present(r) ==
  /\ \E c \in DirectUsers \cup Tokens :
       /\ c \in Tokens => token[c].st = "live"
       /\ who[r] = None /\ who' = [who EXCEPT ![r] = c]
  /\ stale' = stale
  /\ UNCHANGED rows

Decline(r) == Answered(r) /\ UNCHANGED rows

AddMember(r, o, u, role) ==
  /\ o \in orgs /\ member[o][u] = None
  /\ May(r, o, "admin") /\ (role = "owner" => May(r, o, "owner"))
  /\ SetMember(o, u, role)
  /\ who' = [who EXCEPT ![r] = None]
  /\ UNCHANGED <<orgs, token>>

(* Role None removes the member.  Only the two checks on the role the      *)
(* member had can have been out of date.                                   *)
ChangeMember(r, o, u, role) ==
  /\ o \in orgs /\ member[o][u] # None
  /\ May(r, o, "admin") /\ (role = "owner" => May(r, o, "owner"))
  /\ member[o][u] = "owner" /\ role # "owner" =>
       <<r, o>> \in stale \/ (May(r, o, "owner") /\ ~ SoleOwner(o, u))
  /\ SetMember(o, u, role)
  /\ who' = [who EXCEPT ![r] = None]
  /\ UNCHANGED <<orgs, token>>

(* A user needs no row for this, a token none in this org.                 *)
CreateOrg(r, c, o) ==
  /\ \/ c \in Tokens /\ c = who[r] /\ Usable(c)
     \/ c \in DirectUsers /\ who[r] = None
  /\ o \notin orgs
  /\ orgs' = orgs \cup {o}
  /\ SetMember(o, UserOf(c), "owner")
  /\ who' = [who EXCEPT ![r] = None]
  /\ UNCHANGED token

DeleteOrg(r, o) ==
  /\ o \in orgs /\ May(r, o, "owner")
  /\ orgs' = orgs \ {o}
  /\ member' = [member EXCEPT ![o] = [u \in Users |-> None]]
  /\ token' = [t \in Tokens |->
                 IF token[t].org = o THEN [token[t] EXCEPT !.st = "deleted"] ELSE token[t]]
  /\ Overtakes(o)
  /\ who' = [who EXCEPT ![r] = None]

CreateToken(r, o, t, role) ==
  /\ o \in orgs /\ token[t].st = "unminted"
  /\ May(r, o, "admin") /\ May(r, o, role)
  /\ token' = [token EXCEPT ![t] = [st |-> "live", org |-> o, by |-> UserOf(who[r]), role |-> role]]
  /\ Answered(r)
  /\ UNCHANGED <<orgs, member>>

RevokeToken(r, o, t) ==
  /\ Usable(t) /\ token[t].org = o
  /\ May(r, o, "admin")
  /\ token' = [token EXCEPT ![t].st = "revoked"]
  /\ Answered(r)
  /\ UNCHANGED <<orgs, member>>

(* ensure_dev_identity, the bootstrap script: nobody's request.            *)
Bootstrap(o, u) ==
  /\ member[o][u] = None
  /\ orgs' = orgs \cup {o}
  /\ SetMember(o, u, "owner")
  /\ UNCHANGED <<token, who>>

RegistryNext ==
  \/ \E r \in Requests :
       \/ Present(r) \/ Decline(r)
       \/ \E o \in Orgs :
            \/ \E u \in Users, role \in BodyRoles : AddMember(r, o, u, role)
            \/ \E u \in Users, role \in BodyRoles \cup {None} : ChangeMember(r, o, u, role)
            \/ \E c \in DirectUsers \cup Tokens : CreateOrg(r, c, o)
            \/ DeleteOrg(r, o)
            \/ \E t \in Tokens, role \in BodyRoles : CreateToken(r, o, t, role)
            \/ \E t \in Tokens : RevokeToken(r, o, t)
  \/ \E o \in Orgs, u \in Users : Bootstrap(o, u)

RegistrySpec == RegistryInit /\ [][RegistryNext]_registryVars
================================================================================
