SPECIFICATION Spec
CONSTANTS
  p1 = p1
  p2 = p2
  s1 = s1
  s2 = s2
  e1 = e1
  e2 = e2
  a = a
  b = b
  blank = blank
  Absent = Absent
  Blank = blank
  Clients = {c1, c2}
  RelationshipId = {r1}
  AliasText = {a, b, blank}
  PenNameId = {p1, p2}
  StoryId = {s1, s2}
  EntryId = {e1, e2}
  Text = {t1}
  AliasLists <- NoLists
  Operations <- TreeOperations
  MaxFailures = 0
SYMMETRY Symmetry
INVARIANTS
  ReferentialIntegrity
  RelationshipWithinStory
PROPERTIES
  StoriesVanishOnlyOnRequest
  ImplementsStore
