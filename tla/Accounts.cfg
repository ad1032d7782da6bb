SPECIFICATION SideBySide
CONSTANTS
  a1 = a1
  a2 = a2
  b1 = b1
  b2 = b2
  ann = ann
  bob = bob
  lab = lab
  acme = acme
  board = board
  k1 = k1
  smd = smd
  bga = bga
  sbt = sbt
  pod = pod
  User = {ann}
  Dept = {lab}
  Tab = {a1, a2}
  Request = {b1, b2}
  SessionId = {k1}
  Idle = 1
  Absolute = 2
  Touch = 0
  MaxTime = 3
  None = None
SYMMETRY Symmetry
INVARIANTS
  TypesOK
  LoginsAreSound
  AuditExplainsGrants
  BusyHasJob
  VerdictIsRight
PROPERTIES
  LogoutIsFinal
  PruneTakesOnlyTheDead
  FreezeHolds
  CatalogCoherent
CHECK_DEADLOCK FALSE
