SPECIFICATION FairSpec
CONSTANTS
  u1 = u1
  u2 = u2
  u3 = u3
  u4 = u4
  Name = {u1, u2, u3}
  Account = {u1, u3}
  NoName = NoName
  Prefix44 <- AllShort
  Thread = {t1, t2}
  Nobody = Nobody
  Commands <- AllCommands
  GroupId = {1}
  EntryId = {1}
  MayFail <- AnyOpen
  SeedGroups <- OneGroup
  SeedMembers <- TwoMembers
  SeedRequests <- OneRequest
  SeedInvites <- OneInvite
  MaxCalls = 2
  MaxCrashes = 1
PROPERTIES
  MutexIsReleased
CHECK_DEADLOCK FALSE
