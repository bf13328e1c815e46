SPECIFICATION Spec
CONSTANTS
  None = None
  Connections = {c1, c2}
  Providers <- TwoProviders
  Hosts <- ThreeHosts
  BaseHosts <- SelfHosted
  CloudHost <- Clouds
  GuessProvider <- Guess
  DefaultName <- Defaults
  Names = {"default-github", "default-gitlab", "acme"}
  FullNames = {"a/b"}
  DeliveryIds = {d1}
  Requests = {r1, r2}
INVARIANTS
  ResolvedConnectionIsUsed
