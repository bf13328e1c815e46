SPECIFICATION Spec
CONSTANTS
  Scans = {s1}
  Backends = {"docker", "k8s", "inline"}
  MaxDeliveries = 2
  MaxPods = 2
  Faults <- AllFaults
CHECK_DEADLOCK FALSE
INVARIANTS
  TypeOK
  SucceededMeansStored
  SucceededMeansAnnounced
  UnfinishedIsAccountedFor
  OnlyEvictedPodsOverlap
CONSTRAINT OneRetryKind
PROPERTIES
  OnlyRedeliveryRevives
  LateWritersAreIgnored
  ImplementsLifecycle
