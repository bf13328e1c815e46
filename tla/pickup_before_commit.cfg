SPECIFICATION Spec
CONSTANTS
  Scans = {s1}
  Backends = {"docker"}
  MaxDeliveries = 1
  MaxPods = 1
  Faults <- NoFaults
CHECK_DEADLOCK FALSE
INVARIANTS
  PickupFindsRow
