SPECIFICATION Spec
CONSTANTS
  Name = {u1, u2, u3}
  Account = {u1, u2}
  NoName = NoName
  Prefix44 <- AllShort
  MaxGroups = 2
  MaxMembers = 3
  MaxRequests = 2
  MaxInvites = 2
SYMMETRY Symmetry
INVARIANTS
  TypeOK
  IdsArePositions
  MemberCountExact
  OneActiveMembership
  OwnerIsMember
  OnlyOwnerIsAdmin
  DeletedGroupIsEmpty
  OnePendingEach
PROPERTIES
  DecisionsAreFinal
  OwnerLeavesLast
  RemovalIsFinal
CHECK_DEADLOCK FALSE
