SPECIFICATION HSpec
CONSTANTS
  Scrapes = {c1}
  Ports = {p1}
  Collector = Collector
  Nobody = Nobody
  Window = 1
INVARIANTS
  FailureKeepsPreviousCache
