SPECIFICATION Spec
CONSTANTS
  Keys = {1, 2}
  Malformed = {}
  Mgmt = {}
  NoKey = NoKey
  Peers = {peer}
  Limits = {2}
  Repeats = 1
INVARIANTS
  GaugeCountsSeries
