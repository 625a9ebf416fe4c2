SPECIFICATION Spec
CONSTANTS
  Fields = {"uptime", "asicCount", "serial", "model"}
  Good = Good
  Bad = Bad
  Cut = Cut
  Blank = Blank
  Nil = Nil
  Unknown = Unknown
  Timeout = 3
  CommandTimeout = 2
  RedisTime = 1
  MaxLinger = 2
  Configs <- MCConfigs
  TailBytes = 1
  Worlds <- MCWorlds
  MaxFailures = 2
  MaxChanges = 1
INVARIANTS
  BufferKeepsPrefix
  RefreshBounded
  FallbackOrder
