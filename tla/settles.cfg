SPECIFICATION FairSpec
CONSTANTS
  Scans = {s1}
  Backends = {"docker", "k8s"}
  MaxDeliveries = 2
  MaxPods = 1
  Faults <- ProcessFaults
CHECK_DEADLOCK FALSE
PROPERTIES
  EveryScanSettles
