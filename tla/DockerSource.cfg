SPECIFICATION Spec
CONSTANTS
  Containers = {1, 2}
  Limits = {1, 2}
  Threshold = 1
  Longest = 1
  Skew = 1
  Horizon = 3
  Updates = 1
INVARIANTS
  NotStaleMeansRecent
  ContainersMatchStamp
PROPERTIES
  StaleIsReported
