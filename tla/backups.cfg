SPECIFICATION FairSpec
CONSTANTS
  None = None
  Partial = Partial
  MaxTexts = 2
  MaxSaves = 1
  MaxReopens = 1
  MaxCloses = 2
  MaxCrashes = 1
  MaxFailures = 1
INVARIANTS
  TypeOK
  TableMatchesFile
  QuietTextIsBackedUp
  QuitKeepsText
PROPERTIES
  UnsavedTextIsBackedUp
\* the user may leave an unchanged text alone
CHECK_DEADLOCK FALSE
