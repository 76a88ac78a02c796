SPECIFICATION Spec
CONSTANTS
  ann = ann
  p = p
  Name = {ann, bob}
  Password = {p, q}
  NoName = NoName
  Client = {c1, c2, c3}
  Nobody = Nobody
  MaxClients = 2
  Descriptor = {4, 5, 6}
  SessionSpace = 4
  SeedUsers <- OneUser
  MayFail = {"reg_append", "login_scan"}
  MaxAsks = 2
  MaxCrashes = 1
SYMMETRY Symmetry
INVARIANTS
  TypeOK
  SocketsAreOwned
  SessionIdsDiffer
  SameUserBothEnds
  LogoutIsHeard
  RepliesInStep
  ServedAsSelf
  LoginStillValid
  RegistrationIsDurable
PROPERTY AccountsAreABook
CHECK_DEADLOCK FALSE
