SPECIFICATION Spec
CONSTANTS
  u1 = u1
  u2 = u2
  u3 = u3
  u4 = u4
  Name = {u1, u2, u3, u4}
  Account = {u1, u3}
  NoName = NoName
  Prefix44 <- U2IsLong
  Thread = {t1, t2}
  Nobody = Nobody
  Commands <- AllCommands
  GroupId = {1}
  EntryId = {1, 2}
  MayFail <- OpenHalfway
  SeedGroups <- OneGroup
  SeedMembers <- TwoMembers
  SeedRequests <- OneRequest
  SeedInvites <- OneInvite
  MaxCalls = 3
  MaxCrashes = 1
SYMMETRY Symmetry
INVARIANTS
  TypeOK
  EntryIsCurrent
  PendingListsAreCurrent
  ApprovedHasMember
  NoOrphanMember
PROPERTIES
  RecordsKeepIdentity
  JoinRequestsAreABook
  InvitationsAreABook
CHECK_DEADLOCK FALSE
