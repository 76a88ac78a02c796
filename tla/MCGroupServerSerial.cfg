SPECIFICATION SerialSpec
CONSTANTS
  u1 = u1
  u2 = u2
  Name = {u1, u2}
  Account = {u1, u2}
  NoName = NoName
  Prefix44 <- U2IsLong
  Thread = {t1}
  Nobody = Nobody
  Commands <- AllCommands
  GroupId = {1}
  EntryId = {1}
  MayFail <- NoOpen
  SeedGroups <- Empty
  SeedMembers <- Empty
  SeedRequests <- Empty
  SeedInvites <- Empty
  MaxCalls = 6
  MaxCrashes = 1
PROPERTY CallsAreAtomic
CHECK_DEADLOCK FALSE
