CONSTANTS
  None = None
  Users = {dev}
  DirectUsers = {dev}
  Orgs = {o1, o2}
  Tokens = {t1, t2}
  Requests = {r1, r2}
  BodyRoles = {"viewer", "admin"}
SPECIFICATION FairSpec
INVARIANTS TypeOK NoOrphanRows
PROPERTY EveryRequestEnds
