SPECIFICATION Spec
CONSTANTS
  Scans = {s1}
  Backends = {"docker"}
  MaxDeliveries = 1
  MaxPods = 1
  Faults <- ReporterFaults
CHECK_DEADLOCK FALSE
INVARIANTS
  ApiGetsCallback
