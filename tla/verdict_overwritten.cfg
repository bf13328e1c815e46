SPECIFICATION Spec
CONSTANTS
  Scans = {s1}
  Backends = {"docker"}
  MaxDeliveries = 1
  MaxPods = 1
  Faults <- RunnerFaults
CHECK_DEADLOCK FALSE
PROPERTIES
  VerdictIsFinal
