SPECIFICATION FairSpec
CONSTANTS
  None = None
  s1 = s1
  s2 = s2
  r1 = r1
  r2 = r2
  x = x
  y = y
  Scans = {s1, s2}
  Runs = {r1, r2}
  ShortIds = {x, y}
  Draws <- TwoRuns
  SecretScan = TRUE
CHECK_DEADLOCK FALSE
INVARIANTS
  TypeOK
  OneIngestPerScan
  ReporterReadsOwnArtifacts
  ReturnedLeavesNothingRunning
PROPERTIES
  ImplementsContract
  EverySubmitEnds
