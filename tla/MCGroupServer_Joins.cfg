SPECIFICATION Spec
CONSTANTS
  u1 = u1
  u2 = u2
  u3 = u3
  u4 = u4
  Name = {u1, u2, u3}
  Account = {u1, u2, u3}
  NoName = NoName
  Prefix44 <- AllShort
  Thread = {t1, t2}
  Nobody = Nobody
  Commands <- JoinCommands
  GroupId = {1}
  EntryId = {1, 2}
  MayFail <- OpenSeesMembers
  SeedGroups <- AloneGroup
  SeedMembers <- OneMember
  SeedRequests <- OneRequest
  SeedInvites <- Empty
  MaxCalls = 5
  MaxCrashes = 1
SYMMETRY Symmetry
INVARIANTS
  OneActiveMembership
  CountNeverOverstates
CHECK_DEADLOCK FALSE
