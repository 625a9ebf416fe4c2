SPECIFICATION Spec
CONSTANTS
  Collectors = {"routing", "switch", "transceiver", "health", "thermal",
                "hw", "crm", "queue"}
  Keys = {0, 1, 2, 3}
  Malformed <- MCMalformed
  Passed <- MCPassed
  value = value
  Values = {value}
  Unknown = Unknown
  Details <- MCDetails
  JoinedTo <- MCJoinedTo
  Absent = Absent
  Blank = Blank
  Limits <- MCLimits
  Databases <- MCDatabases
  Repeats = 1
  MaxChanges = 1
INVARIANTS
  TypeOK
  Accounted
  StableRowExported
  FailureSendsPrefix
  QuietScrapeIsExact
