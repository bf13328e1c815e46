CONSTANTS
  None = None
  Users = {dev, eve}
  DirectUsers = {dev}
  Orgs = {o1}
  Tokens = {t1}
  Requests = {r1, r2}
  BodyRoles = {"viewer", "admin", "owner"}
SPECIFICATION Spec
INVARIANT LiveOrgHasOwner
