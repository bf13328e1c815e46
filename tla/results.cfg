SPECIFICATION Spec
CONSTANTS
  None = None
  Appliers = {a1, a2}
  Attempts = {p1, p2}
  Findings <- ThreeFindings
  SortKey <- TwoTied
  PageSize = 3
SYMMETRY Symmetric
CHECK_DEADLOCK FALSE
INVARIANTS
  IngestTypeOK
  VersionMeansApplied
  NoStatementFails
  MetricsMeanComplete
  OnlyTiesAreMissed
PROPERTIES
  ImplementsContract
