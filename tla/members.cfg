CONSTANTS
  None = None
  Users = {dev, eve}
  DirectUsers = {dev, eve}
  Orgs = {o1}
  Tokens = {t1}
  Requests = {r1, r2}
  BodyRoles = {"viewer", "admin", "owner"}
SPECIFICATION Spec
SYMMETRY Interchangeable
INVARIANT TokensWithinLineage
PROPERTIES LastOwnerLostInARace WritersAreAuthorised OwnerlessForGood ImplementsRegistry
