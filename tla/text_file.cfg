SPECIFICATION FairSpec
CONSTANTS
  s1 = s1
  s2 = s2
  None = None
  Slots <- TwoSlots
  OwnSize = 1
  Sizes = {2}
  MaxEdits = 2
  MaxCalls = 2
  MaxOthers = 1
  MaxReverts = 1
  MaxFailures = 1
INVARIANTS
  TypeOK
  OneSaveAtATime
  CleanTextWasKept
  CleanTextIsOnDisk
PROPERTIES
  OthersKept
  ReadKeepsTyping
  CallsAnswered
\* people may stop at any time, and everything may have been handled
CHECK_DEADLOCK FALSE
