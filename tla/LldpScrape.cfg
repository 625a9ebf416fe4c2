SPECIFICATION Spec
CONSTANTS
  Keys = {0, 1, 2, 3}
  Malformed = {0}
  Mgmt = {3}
  NoKey = NoKey
  Peers = {peer}
  Limits = {1, 2}
  Repeats = 1
INVARIANTS
  TypeOK
  Accounted
  StableNeighborExported
  QuietScrapeIsExact
  UniqueScanGivesUniqueSeries
