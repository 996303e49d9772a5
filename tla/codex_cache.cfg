SPECIFICATION FairSpec
CONSTANTS
  hero = hero
  draft = draft
  codex = codex
  people = people
  old = old
  notes = notes
  v = v
  Absent = Absent
  None = None
  Files <- BothFiles
  Folders <- FlatFolders
  In <- FlatIn
  Below <- FlatBelow
  Roots <- BothRoots
  StartsWith <- StartsWithRoot
  Contents <- OneContent
  Callers = {k1, k2}
  Loads = {l1, l2}
  MaxChanges = 2
  MaxFailures = 1
INVARIANTS
  TypeOK
  AnswersCurrent
  CacheFollowsSetting
PROPERTIES
  AsksAnswered
\* nothing is asked of people, and every request may have been answered
CHECK_DEADLOCK FALSE
