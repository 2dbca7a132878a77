SPECIFICATION FairSpec
CONSTANTS
  Jobs = {j1, j2}
  Replicas = {r1, r2}
  Delay = 1
  MaxAge = 2
  BatchSize = 1
  MaxFaults = 1
PROPERTIES MetricsKept MeasuredInTime BacklogDrains
CHECK_DEADLOCK FALSE
