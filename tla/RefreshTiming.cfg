SPECIFICATION ClockSpec
CONSTANTS
  Interval = 3
  Timeout = 2
  Reply = 3
  Commands = 3
INVARIANTS
  RefreshIsBounded
  SuccessMeansFresh
PROPERTIES
  Recovers
