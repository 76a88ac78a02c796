SPECIFICATION FairSpec
CONSTANTS
  ann = ann
  p = p
  Name = {ann}
  Password = {p, q}
  NoName = NoName
  Client = {c1, c2}
  Nobody = Nobody
  MaxClients = 1
  Descriptor = {4, 5, 6}
  SessionSpace = 4
  SeedUsers <- OneUser
  MayFail = {"reg_scan", "reg_append", "login_scan"}
  MaxAsks = 3
  MaxCrashes = 1
PROPERTIES
  WaitingEnds
  SlotComesBack
  AccountsAreABook
CHECK_DEADLOCK FALSE
