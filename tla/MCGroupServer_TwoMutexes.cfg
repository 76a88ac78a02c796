SPECIFICATION Spec
CONSTANTS
  u1 = u1
  u2 = u2
  u3 = u3
  u4 = u4
  Name = {u1, u2, u3}
  Account = {u1, u3}
  NoName = NoName
  Prefix44 <- AllShort
  Thread = {t1, t2}
  Nobody = Nobody
  Commands <- DecideCommands
  GroupId = {1}
  EntryId = {1}
  MayFail <- NoOpen
  SeedGroups <- OneGroup
  SeedMembers <- TwoMembers
  SeedRequests <- OneRequest
  SeedInvites <- OneInvite
  MaxCalls = 2
  MaxCrashes = 0
INVARIANT OneActiveMembership
CHECK_DEADLOCK FALSE
