SPECIFICATION Spec
CONSTANTS
  Name = {u1, u2}
  Account = {u1, u2}
  NoName = NoName
  Prefix44 <- AllShort
  MaxGroups = 1
  MaxMembers = 2
  MaxRequests = 1
  MaxInvites = 1
INVARIANT OwnerIsAdmin
CHECK_DEADLOCK FALSE
