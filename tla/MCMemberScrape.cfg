SPECIFICATION Spec
CONSTANTS
  Kinds = {"vlan", "lag"}
  Groups = {0, 1, 2}
  NoName = 0
  Members <- MCMembers
  up = up
  down = down
  tagged = tagged
  Statuses = {up, down}
  Modes = {tagged}
  Unknown = Unknown
  Zero = Zero
  Absent = Absent
  Blank = Blank
  Configs <- MCConfigs
  Databases <- MCDatabases
  Repeats = 1
  MaxChanges = 2
INVARIANTS
  TypeOK
  NothingInvented
  StableGroupReported
  QuietScrapeIsExact
