SPECIFICATION Spec
CONSTANTS
  ann = ann
  p = p
  Name = {ann, bob}
  Password = {p, q}
  NoName = NoName
  Client = {c1, c2}
  Nobody = Nobody
  MaxClients = 2
  Descriptor = {4, 5, 6}
  SessionSpace = 4
  SeedUsers <- OneUser
  MayFail = {}
  MaxAsks = 2
  MaxCrashes = 0
INVARIANT UsernamesAreUnique
CHECK_DEADLOCK FALSE
