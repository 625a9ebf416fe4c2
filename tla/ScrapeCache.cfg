SPECIFICATION Spec
CONSTANTS
  Scrapes = {c1, c2, c3}
  Ports = {p1, p2, p3}
  Collector = Collector
  Nobody = Nobody
  Window = 2
INVARIANTS
  TypeOK
  NoDuplicateSeries
  SuccessMeansComplete
  FailureIsNotCached
PROPERTIES
  ScrapesAreSpaced
  CollectReturns
