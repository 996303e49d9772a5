SPECIFICATION FairSpec
CONSTANTS
  Connections = {c1, c2}
  Clients = {w1, w2}
  Newest <- Builds
  None = None
INVARIANTS
  TypeOK
  SchemaMatchesVersion
  HandedOutReady
  NoLockLeftBehind
PROPERTIES
  CallsAnswered
  ImplementsUpgrade
