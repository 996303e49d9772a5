SPECIFICATION FairSpec
CONSTANTS
  old = old
  new = new
  u1 = u1
  u2 = u2
  None = None
  Anyone = Anyone
  Keys <- BothKeys
  Urls <- TwoUrls
  Legacy = old
  Requests = {r1}
  MaxChanges = 1
  MaxFailures = 1
INVARIANTS
  ModelsFollowSettings
  ConfiguredRequestsAreSent
  ClearedKeyStaysCleared
PROPERTIES
  RequestsEnd
\* people may stop at any time, and everything may have been handled
CHECK_DEADLOCK FALSE
