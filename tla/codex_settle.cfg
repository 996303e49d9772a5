SPECIFICATION FairSpec
CONSTANTS
  p1 = p1
  p2 = p2
  s1 = s1
  s2 = s2
  e1 = e1
  e2 = e2
  a = a
  b = b
  blank = blank
  Absent = Absent
  Blank = blank
  Clients = {c1, c2}
  RelationshipId = {r1}
  AliasText = {a, b, blank}
  PenNameId = {p1}
  StoryId = {s1}
  EntryId = {e1}
  Text = {t1}
  AliasLists <- TwoLists
  Operations <- AllOperations
  MaxFailures = 1
INVARIANTS
  TypeOK
  EveryChangeAnnounced
PROPERTIES
  RowsAppearOnlyByCreate
  CallsSettle
