SPECIFICATION FairSpec
CONSTANTS
  None = None
  Connections = {c1, c2}
  Providers <- OneProvider
  Hosts <- TwoHosts
  BaseHosts <- SelfHosted
  CloudHost <- GithubOnly
  GuessProvider <- GuessGithub
  DefaultName <- GithubDefault
  Names = {"default-github", "acme"}
  FullNames = {"a/b"}
  DeliveryIds = {d1}
  Requests = {r1, r2}
INVARIANTS
  TypeOK
  ReferencesAreLive
  ScanTargetExists
  NamesAreUnique
  AcceptedOnce
  AcknowledgedIsStored
  WaitsAreShort
  OnlyWaitersStop
  SomebodyGoesOn
PROPERTIES
  ImplementsStore
  EveryRequestEnds
