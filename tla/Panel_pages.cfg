CONSTANTS
  MaxEvents = 3
  MaxLive = 2
  MaxQueries = 2
  MaxDrops = 1
  RejectCodes = {1006, 1008}
  Rows <- LevelNames
  LevelOf <- Levels
  NoRow = NoRow
  MaxChanges = 2
  UserIds = {1, 2}
  SettingKeys = {ka, kb}
  MaxValue = 1
  MaxSaves = 2
  MaxForeign = 1
  Filters <- FilterNames
  PagesOf <- PageCounts
  MaxLoads = 4
  MaxSnapshots = 3
  MaxHistory = 2
  MaxOps = 4
  Providers = {prA, prB}
  NoProvider = NoProvider
  Bare = {prB}
  MaxOpens = 3
SPECIFICATION Spec
INVARIANTS
  TypeOK
  LineAndBadge
  StreamFaithful
  ListFollowsChanges
  DrawersOwnRecords
  ShownTogether
PROPERTIES
  InputStands
  WaitsEnd
