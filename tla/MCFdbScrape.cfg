SPECIFICATION Spec
CONSTANTS
  Keys = {0, 1, 2}
  Malformed = {0}
  OwnVlan <- MCOwnVlan
  Bvid <- MCBvid
  Bvids = {1}
  BridgePorts = {1, 2}
  o1 = o1
  o2 = o2
  Oids = {o1, o2}
  PortNames = {1}
  LagNames = {2}
  Vlans = {10, 20}
  dynamic = dynamic
  Types = {dynamic}
  Unknown = 99
  Nil = Nil
  Absent = Absent
  Blank = Blank
  Configs <- MCConfigs
  Databases <- MCDatabases
  Repeats = 1
  MaxChanges = 2
INVARIANTS
  Accounted
  StableEntryPlaced
  QuietScrapeIsExact
